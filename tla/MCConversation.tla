--------------------------- MODULE MCConversation ---------------------------
(* Conversation on the scenarios of the feature files, with two resources    *)
(* and two versions.                                                         *)
EXTENDS Expectations, Features

MCTypes    == {"CDS", "LDS", "RDS", "EDS"}
MCNames    == {"A", "B"}
MCVersions == {1, 2}
MCConformant == {"conformant"}
\* no scenario in which the target splits
MCWhole    == {}
\* unsubscribing from everything, of one type or the other
MCFull == {Sotw(FullUnsubscription("CDS")), Sotw(FullUnsubscription("RDS"))}
\* all scenarios but those where a nonce is picked for RDS (see run conv_stale)
MCSplit == AllScenarios \ {Sotw(FullUnsubscription("RDS")), Sotw(PartUnsubscription("RDS"))}

\* What the hypotheses of the theorems leave out: the state of the world
\* scenarios that unsubscribe, and those of two services on one stream.
ASSUME KindsAssumption ==
    /\ \A s \in AllScenarios :
          \/ ExpectsWhatIsDue(s)
          \/ \E t \in Types : s \in {Sotw(WholeUnsubscription(t)), Sotw(PartUnsubscription(t)),
                                    Sotw(FullUnsubscription(t))}
    /\ \A s \in AllScenarios \ AdsScenarios : s.incremental \/ OneService(s)
=============================================================================
