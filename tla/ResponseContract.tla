-------------------------- MODULE ResponseContract ---------------------------
(***************************************************************************)
(* What a client of a stored response, and the webhook receiver, may rely  *)
(* on: a response is open, settles in one terminal status, keeps it until  *)
(* it is removed, and at most one webhook announces it, with that status.  *)
(***************************************************************************)
EXTENDS Naturals, Sequences

CONSTANTS Responses, Outcomes

VARIABLES
  state,       \* "absent", "open", an outcome, or "removed"
  announced    \* outcomes announced so far

contractVars == <<state, announced>>

ContractInit ==
  /\ state = [r \in Responses |-> "absent"]
  /\ announced = [r \in Responses |-> <<>>]

\* One committed statement of the database.  A retention pass settles or
\* removes several rows at once, so a step moves any number of responses.
MayBecome(old, new) ==
  \/ new = old
  \/ old = "absent" /\ new = "open"
  \/ old = "open" /\ new \in Outcomes
  \/ old \in Outcomes \cup {"open"} /\ new = "removed"

Move ==
  /\ \E r \in Responses : state'[r] # state[r]
  /\ \A r \in Responses : MayBecome(state[r], state'[r])
  /\ DOMAIN state' = Responses
  /\ UNCHANGED announced

\* The writer that settled r tells the webhook, once.  The row may have been
\* removed in the meantime.
Announce(r, s) ==
  /\ state[r] \in {s, "removed"}
  /\ announced[r] = <<>>
  /\ announced' = [announced EXCEPT ![r] = <<s>>]
  /\ UNCHANGED state

ContractNext == Move \/ \E r \in Responses, s \in Outcomes : Announce(r, s)

ContractSpec == ContractInit /\ [][ContractNext]_contractVars
=============================================================================
