--------------------------- MODULE StoreOwnership ---------------------------
(***************************************************************************)
(* What the daemon protocol promises about one memory directory: the       *)
(* embedded store has at most one owner at a time, a command takes effect  *)
(* only inside a daemon that owns the store, a command that must not be    *)
(* repeated takes effect at most once, and a command that reports success  *)
(* has taken effect.  An error promises nothing: the command may still     *)
(* take effect afterwards.                                                 *)
(***************************************************************************)
EXTENDS Naturals

CONSTANTS Servers,      \* daemon processes
          Admins,       \* processes that open the store themselves
          Requests,     \* one client command each
          Repeatable,   \* the requests that are safe to apply twice
          None

VARIABLES owner,        \* the process that holds the store, or None
          applied,      \* how often each request took effect
          outcome       \* "pending", "ok" or "error" for each request

abstractVars == <<owner, applied, outcome>>

Init ==
  /\ owner \in Servers \cup {None}
  /\ applied = [r \in Requests |-> 0]
  /\ outcome = [r \in Requests |-> "pending"]

\* A process may become the owner only of a store nobody owns.
Take(p) ==
  /\ owner = None
  /\ owner' = p
  /\ UNCHANGED <<applied, outcome>>

GiveBack ==
  /\ owner # None
  /\ owner' = None
  /\ UNCHANGED <<applied, outcome>>

Perform(r) ==
  /\ owner \in Servers
  /\ r \in Repeatable \/ applied[r] = 0
  /\ applied' = [applied EXCEPT ![r] = @ + 1]
  /\ UNCHANGED <<owner, outcome>>

Report(r) ==
  /\ outcome[r] = "pending"
  /\ \E o \in {"ok", "error"} :
       /\ o = "ok" => applied[r] > 0
       /\ outcome' = [outcome EXCEPT ![r] = o]
  /\ UNCHANGED <<owner, applied>>

Next ==
  \/ \E p \in Servers \cup Admins : Take(p)
  \/ GiveBack
  \/ \E r \in Requests : Perform(r) \/ Report(r)

Spec == Init /\ [][Next]_abstractVars
=============================================================================
