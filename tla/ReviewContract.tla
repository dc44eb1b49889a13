---------------------------- MODULE ReviewContract ----------------------------
(***************************************************************************)
(* What running a review promises to whoever asked for it, whatever the    *)
(* size of the diff: at most one review is saved, it is saved before it is *)
(* returned, it holds only parts of the diff that have been read, and if   *)
(* its scope is a counted one it is recorded with the number of the parts  *)
(* that nobody has read, which does not change any more.  Scopes that are  *)
(* not counted are the exceptions: of those nothing is said but that the   *)
(* number is one.                                                          *)
(***************************************************************************)
EXTENDS Naturals, FiniteSets

CONSTANTS
    Part,          \* the pieces of the diff
    Scope,         \* what a review can be a review of
    Counted        \* the scopes whose reviews tell what is missing

VARIABLES
    outcome,    \* "running", "saved", "returned", "failed" or "abandoned"
    review,     \* the saved review, a set of at most one record
    unread      \* the parts that have still to be reviewed

vars == <<outcome, review, unread>>

Init == outcome = "running" /\ review = {} /\ unread = Part

\* Parts are reviewed, or found to need no review, until the review is saved; what
\* has been started goes on for a while when the caller has gone away.
Read ==
    /\ outcome \in {"running", "abandoned"} /\ review = {}
    /\ unread' \in SUBSET unread
    /\ UNCHANGED <<outcome, review>>

Save ==
    /\ outcome = "running"
    /\ outcome' = "saved"
    /\ \E kept \in SUBSET (Part \ unread), n \in 0 .. Cardinality(Part), scope \in Scope :
          /\ scope \in Counted => n = Cardinality(unread)
          /\ review' = {[reviewed |-> kept, failed |-> n, scope |-> scope]}
    /\ UNCHANGED unread

Return == outcome = "saved" /\ outcome' = "returned" /\ UNCHANGED <<review, unread>>

Fail == outcome = "running" /\ outcome' = "failed" /\ UNCHANGED <<review, unread>>

\* The caller goes away: nothing is saved after that, what was saved stays.
Abandon ==
    /\ outcome \in {"running", "saved"}
    /\ outcome' = "abandoned"
    /\ UNCHANGED <<review, unread>>

Next == Read \/ Save \/ Return \/ Fail \/ Abandon

Spec == Init /\ [][Next]_vars
=============================================================================
