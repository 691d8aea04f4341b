----------------------------- MODULE MCLocusLive -----------------------------
(***************************************************************************)
(* LocusCarcerum with a bound on the calls each context makes, for what    *)
(* must eventually happen.  A fetch-or promises no context its turn while  *)
(* others take the closed bit for ever; with the calls bounded every one   *)
(* must end by its own steps.                                              *)
(***************************************************************************)
EXTENDS LocusCarcerum

CONSTANT CallsMost   \* calls each context makes

VARIABLE calls       \* calls each context may still begin

liveVars == <<vars, calls>>

LiveInit == Init /\ calls = [c \in Contexts |-> CallsMost]

Begins(c) ==
  /\ calls[c] > 0
  /\ Calls(c)
  /\ calls' = [calls EXCEPT ![c] = @ - 1]

Continues(c) == (Pass(c) \/ Writer(c) \/ GiveStep(c)) /\ UNCHANGED calls

LiveNext == \E c \in Contexts : Begins(c) \/ Continues(c)

(* A scheduler runs every context that can step; none is owed a call. *)
LiveSpec ==
  /\ LiveInit /\ [][LiveNext]_liveVars
  /\ \A c \in Contexts : WF_liveVars(Continues(c))

(* Every call ends: no lane is left badged in, no closed bit left set, no   *)
(* drain waits on a pass that cannot leave (carcer_passed, carcer_shut).    *)
EveryCallEnds ==
  \A c \in Contexts : pc[c] # "idle" ~> pc[c] = "idle"
=============================================================================
