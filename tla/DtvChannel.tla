----------------------------- MODULE DtvChannel -----------------------------
(***************************************************************************)
(* What the DTV patch promises its caller, without locks, threads, demuxes *)
(* or lists: while there is a patch its commands are obeyed one after the  *)
(* other in the order in which they were accepted, one that does not fit   *)
(* the state is dropped, sound comes only from a channel that was started  *)
(* and stops only because that was asked for, and the channel is over, or  *)
(* the patch gone, only when it is silent.                                 *)
(***************************************************************************)
EXTENDS Sequences

VARIABLES patch,     \* there is one
          closing,   \* it is being released for the last time
          commands,  \* accepted and not yet obeyed
          state,     \* of its channel: "off", "on", "paused" or, while a STOP is obeyed, "ending"
          sounding   \* there is an output that plays, or would if it were not paused

vars == <<patch, closing, commands, state, sounding>>

Cmd == {"START", "PAUSE", "RESUME", "STOP"}

Init == ~patch /\ ~closing /\ commands = <<>> /\ state = "off" /\ ~sounding

Create == /\ ~patch
          /\ patch' = TRUE
          /\ UNCHANGED <<closing, commands, state, sounding>>

Accept(c) == /\ patch /\ ~closing
             /\ commands' = Append(commands, c)
             /\ UNCHANGED <<patch, closing, state, sounding>>

After(c) == CASE state = "off" /\ c = "START"                -> "on"
              [] state = "on" /\ c = "PAUSE"                 -> "paused"
              [] state = "paused" /\ c = "RESUME"            -> "on"
              [] state \in {"on", "paused"} /\ c = "STOP"    -> "ending"
              [] OTHER                                       -> state

Obey == /\ patch
        /\ state # "ending"
        /\ commands # <<>>
        /\ state' = After(Head(commands))
        /\ commands' = Tail(commands)
        /\ UNCHANGED <<patch, closing, sounding>>

Sound == /\ state # "off"
         /\ ~sounding
         /\ sounding' = TRUE
         /\ UNCHANGED <<patch, closing, commands, state>>

Silence == /\ state = "ending" \/ closing
           /\ sounding
           /\ sounding' = FALSE
           /\ UNCHANGED <<patch, closing, commands, state>>

End == /\ state = "ending"
       /\ ~sounding
       /\ state' = "off"
       /\ UNCHANGED <<patch, closing, commands, sounding>>

Release == /\ patch /\ ~closing
           /\ closing' = TRUE
           /\ UNCHANGED <<patch, commands, state, sounding>>

(* What was not obeyed by then never is. *)
Close == /\ closing
         /\ ~sounding
         /\ patch' = FALSE /\ closing' = FALSE
         /\ commands' = <<>> /\ state' = "off"
         /\ UNCHANGED sounding

(* What there is to do for a channel or a patch that is to end. *)
Finish == Silence \/ End \/ Close

Next == \/ Create \/ Release
        \/ \E c \in Cmd : Accept(c)
        \/ Obey \/ Sound \/ Finish

(* A command is obeyed and what is to end ends, if nobody calls as well.     *)
Fairness == WF_vars(Obey) /\ WF_vars(Finish)

Spec == Init /\ [][Next]_vars /\ Fairness
=============================================================================
