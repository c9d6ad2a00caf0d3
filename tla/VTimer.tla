------------------------------- MODULE VTimer -------------------------------
(* The virtual timers of a vcpu (varm_timern, vdisarm_timern and the exit     *)
(* vexit_vmx_preempt): all of them share the one VMX preemption timer, which  *)
(* runs while the guest runs and always holds what is left for the front of   *)
(* the vcpu's timer chain; the delta of the front node is out of date.        *)
EXTENDS DeltaChain

CONSTANTS Timer,      \* the vcpu's vtimers
          MaxTicks    \* ticks of a call are in 0..MaxTicks

VARIABLES
    armed, periodic, ticks,   \* the fields of struct vtimer
    chain,                    \* timer_chain
    value,                    \* VMCS_GUEST_VMX_PREEMPTION_TIMER_VALUE
    active,                   \* activate_ and save_vmx_preemption_timer
    due                       \* history: guest ticks until the timer expires

vars == <<armed, periodic, ticks, chain, value, active, due>>

Init ==
    /\ armed = {} /\ periodic = {} /\ chain = <<>>
    /\ ticks = [t \in Timer |-> 0] /\ due = [t \in Timer |-> 0]
    /\ value = 0 /\ active = FALSE

\* The guest runs for a tick.
GuestTick ==
    /\ active /\ value > 0
    /\ value' = value - 1
    /\ due' = [t \in Timer |-> IF t \in armed THEN due[t] - 1 ELSE due[t]]
    /\ UNCHANGED <<armed, periodic, ticks, chain, active>>

\* The front's delta is brought up to date with the preemption timer, which a
\* mutant forgets.
NotSynced(c) == c
Synced(c) == [c EXCEPT ![1].delta = value]

\* varm_timern; a timer that is armed already gives -EALREADY.
Arm(t, n, p) ==
    /\ t \notin armed
    /\ LET first == chain = <<>>
           now == IF first THEN chain ELSE Synced(chain)
       IN  /\ value' = IF first \/ n < value THEN n ELSE value
           /\ chain' = Insert(now, t, n)
    /\ active' = TRUE
    /\ armed' = armed \cup {t}
    /\ periodic' = IF p THEN periodic \cup {t} ELSE periodic \ {t}
    /\ ticks' = [ticks EXCEPT ![t] = n]
    /\ due' = [due EXCEPT ![t] = n]

\* vdisarm_timern: a front that goes hands its rest to its successor.
Disarm(t) ==
    /\ t \in armed
    /\ LET front == chain[1].node = t
           alone == Len(chain) = 1
           now == IF front /\ ~alone THEN Synced(chain) ELSE chain
       IN  /\ value' = IF front /\ ~alone THEN value + chain[2].delta ELSE value
           /\ active' = ~(front /\ alone)
           /\ chain' = DequeueNoCallback(now, t)
    /\ armed' = armed \ {t}
    /\ due' = [due EXCEPT ![t] = 0]
    /\ UNCHANGED <<periodic, ticks>>

\* vexit_vmx_preempt: the front expires; a periodic timer starts again.
Fire ==
    /\ active /\ value = 0
    /\ LET t == Head(chain).node
           again == t \in periodic
           rest == IF again THEN Insert(Tail(chain), t, ticks[t]) ELSE Tail(chain)
       IN  /\ chain' = rest
           /\ armed' = IF again THEN armed ELSE armed \ {t}
           /\ value' = IF rest = <<>> THEN value ELSE rest[1].delta
           /\ active' = (rest # <<>>)
           /\ due' = [due EXCEPT ![t] = IF again THEN ticks[t] ELSE 0]
    /\ UNCHANGED <<periodic, ticks>>

Next ==
    \/ GuestTick \/ Fire
    \/ \E t \in Timer : Disarm(t)
    \/ \E t \in Timer, n \in 0..MaxTicks, p \in BOOLEAN : Arm(t, n, p)

Spec == Init /\ [][Next]_vars

-----------------------------------------------------------------------------
TypeOK ==
    /\ armed \subseteq Timer /\ periodic \subseteq Timer
    /\ ticks \in [Timer -> 0..MaxTicks] /\ due \in [Timer -> 0..MaxTicks]
    /\ chain \in Seq([node : Timer, delta : 0..MaxTicks])
    /\ value \in 0..MaxTicks /\ active \in BOOLEAN

\* Whatever the guest arms and disarms, and however often periodic timers start
\* again, every armed timer expires after exactly the guest ticks it was armed
\* for: it is in the chain once, and the preemption timer's value and the deltas
\* before it add up to what is left of its ticks.
TimersOnTime ==
    LET sum == Expiry(chain) IN
    /\ Nodes(chain) = armed
    /\ \A i, j \in DOMAIN chain : chain[i].node = chain[j].node => i = j
    /\ active <=> armed # {}
    /\ \A i \in DOMAIN chain :
         due[chain[i].node] = value + sum[i] - chain[1].delta
=============================================================================
