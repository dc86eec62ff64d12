------------------------------ MODULE TimerSet ------------------------------
(***************************************************************************)
(* What the users of timers are promised, without queue, files or fixups:  *)
(* a timer that was started is pending until it is stopped or its function *)
(* is called; its function is called at its time or later, while its       *)
(* object is in the hero's world, and never before that of a timer of the  *)
(* same world with an earlier time; a call, once made, returns.            *)
(***************************************************************************)
EXTENDS Integers

CONSTANTS Arg, WithHero
VARIABLES
    playing,        \* the game goes on: no level is changed, nothing saved
    monstermoves,   \* turn counter
    pending,        \* the timers that wait
    calling,        \* the timers whose function is being carried out
    place,          \* the level each object is on, or WithHero
    here            \* the level the hero is on

timing == <<playing, monstermoves, pending, calling, place, here>>

Awake(t) == place[t.arg] \in {here, WithHero}

Init == /\ playing = TRUE /\ monstermoves = 1
        /\ pending = {} /\ calling = {}

Pass == /\ playing /\ calling = {}
        /\ monstermoves' = monstermoves + 1
        /\ UNCHANGED <<pending, calling, place, here>>

\* The game is played, or interrupted; objects and the hero go from level to
\* level.  No timer is touched, and nothing is interrupted in the middle of a
\* call.
Travel == /\ \/ calling = {}
             \/ playing /\ playing' /\ here' = here
          /\ UNCHANGED <<monstermoves, pending, calling>>

Start == /\ playing
         /\ \E t \in pending' : /\ \A u \in pending \cup calling : u.tid # t.tid
                                /\ pending' = pending \cup {t}
         /\ UNCHANGED <<monstermoves, calling, place, here>>

Stop == /\ playing
        /\ \E t \in pending : pending' = pending \ {t}
        /\ UNCHANGED <<monstermoves, calling, place, here>>

\* The timers of one object become those of another.
Reassign(src, dest) ==
    /\ playing
    /\ pending' = {IF t.arg = src THEN [t EXCEPT !.arg = dest] ELSE t : t \in pending}
    /\ UNCHANGED <<monstermoves, calling, place, here>>

Call(t) == /\ playing /\ calling = {}
           /\ t.timeout <= monstermoves /\ Awake(t)
           /\ \A u \in pending : Awake(u) => t.timeout <= u.timeout
           /\ pending' = pending \ {t} /\ calling' = {t}
           /\ UNCHANGED <<monstermoves, place, here>>

Return == /\ playing /\ playing'
          /\ calling' = {}
          /\ UNCHANGED <<monstermoves, pending, place, here>>

Next == \/ Travel \/ Return
        \/ playing' /\ (Pass \/ Start \/ Stop)
        \/ playing' /\ \E src, dest \in Arg : Reassign(src, dest)
        \/ playing' /\ \E t \in pending : Call(t)

Spec == Init /\ [][Next]_timing
=============================================================================
