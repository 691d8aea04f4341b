------------------------------ MODULE DmaChannel ------------------------------
(***************************************************************************)
(* What praet_ordo promises of every channel: a transfer has one outcome,  *)
(* a stall is only ever found on a running channel and only a stalled one  *)
(* is resolved, and a detach waits for the transfer under it.              *)
(***************************************************************************)
CONSTANTS Channels

VARIABLES
  channel  \* per channel: [state, leaving], leaving once a detach was asked

States == {"detached", "idle", "running", "stalled", "done", "failed", "resolved"}

(* The states a transfer has ended in, or not begun. *)
AtRest == {"idle", "done", "failed", "resolved"}

Init == channel = [ch \in Channels |-> [state |-> "detached", leaving |-> FALSE]]

Becomes(ch, state) == channel' = [channel EXCEPT ![ch].state = state]

Attach(ch) == channel[ch].state = "detached" /\ Becomes(ch, "idle")

Ask(ch) ==
  /\ channel[ch].state # "detached"
  /\ channel' = [channel EXCEPT ![ch].leaving = TRUE]

Submit(ch) ==
  /\ channel[ch].state \in AtRest /\ ~channel[ch].leaving
  /\ Becomes(ch, "running")

Stall(ch) == channel[ch].state = "running" /\ Becomes(ch, "stalled")

Revive(ch) == channel[ch].state = "stalled" /\ Becomes(ch, "running")

Finish(ch) ==
  /\ channel[ch].state \in {"running", "stalled"}
  /\ \E outcome \in {"done", "failed"} : Becomes(ch, outcome)

Resolve(ch) == channel[ch].state = "stalled" /\ Becomes(ch, "resolved")

Detach(ch) ==
  /\ channel[ch].state \in AtRest /\ channel[ch].leaving
  /\ channel' = [channel EXCEPT ![ch] = [state |-> "detached", leaving |-> FALSE]]

(* The context starts over, under no running transfer. *)
Reset ==
  /\ \A ch \in Channels : channel[ch].state \in AtRest \cup {"detached"}
  /\ channel' = [ch \in Channels |-> [state |-> "detached", leaving |-> FALSE]]

(* A poll may find several channels moved at once. *)
ReviveSome ==
  \E S \in SUBSET {ch \in Channels : channel[ch].state = "stalled"} :
    channel' = [ch \in Channels |->
                  IF ch \in S THEN [channel[ch] EXCEPT !.state = "running"] ELSE channel[ch]]

Next ==
  \/ \E ch \in Channels : \/ Attach(ch) \/ Ask(ch) \/ Submit(ch) \/ Stall(ch)
                          \/ Revive(ch) \/ Finish(ch) \/ Resolve(ch) \/ Detach(ch)
  \/ Reset
  \/ ReviveSome

Spec == Init /\ [][Next]_channel
=============================================================================
