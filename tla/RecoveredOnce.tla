---------------------------- MODULE RecoveredOnce ----------------------------
(***************************************************************************)
(* What the LLMQ signing stack promises its callers (ChainLocks,           *)
(* InstantSend, hard-fork signals): a quorum certifies at most one message *)
(* hash per request id, unless the votes for the id have lapsed, and a     *)
(* certificate, once it exists, is never withdrawn.  Signing is shown to   *)
(* implement this specification.                                           *)
(***************************************************************************)
CONSTANT Certificates   \* records with fields quorum, id and msg

VARIABLES
    recovered,      \* the certificates that exist
    lapsed          \* the (quorum, id) pairs the promise no longer covers

Init == recovered = {} /\ lapsed = {}

Certify(rs) ==
    /\ \A other \in recovered :
          <<other.quorum, other.id>> = <<rs.quorum, rs.id>>
              => <<rs.quorum, rs.id>> \in lapsed
    /\ recovered' = recovered \cup {rs}
    /\ UNCHANGED lapsed

\* Votes expire and are cast again; a promise that has lapsed stays so.
Lapse ==
    /\ lapsed \subseteq lapsed'
    /\ UNCHANGED recovered

Next == Lapse \/ \E rs \in Certificates : Certify(rs)

Spec == Init /\ [][Next]_<<recovered, lapsed>>

=============================================================================
