------------------------------ MODULE SchedGroup ------------------------------
(***************************************************************************)
(* The task groups that src/linux-irmos-2.6.35.patch adds to the scheduler *)
(* and the reservation layer moves tasks between: a pointer from each task *)
(* to its group, and a doubly linked list of the tasks of each group       *)
(* except the initial one.                                                 *)
(*                                                                         *)
(* Attaching, detaching and destroying come from ioctls, which the kernel  *)
(* runs one at a time; they do not sleep, but a task may exit on another   *)
(* processor, or fork, between any two of their steps, and nothing locks   *)
(* the lists.  `met` records which of the situations the code does not     *)
(* expect have come up:                                                    *)
(*   "fork"  a task was copied while it was in a group,                    *)
(*   "race"  a task exited while a call was in progress,                   *)
(*   "gone"  a group that was destroyed was attached to or destroyed.      *)
(***************************************************************************)
CONSTANTS
    Tasks,      \* the tasks there may be
    First,      \* those that run at the beginning
    Groups,     \* the groups that reservations get
    InitGroup,  \* init_task_group
    Poison,     \* what list_del leaves in the pointers of an entry
    Situations  \* those of the situations above that come up

ASSUME GroupAssumption ==
    /\ First \subseteq Tasks
    /\ InitGroup \notin Groups
    /\ Poison \notin Tasks \cup Groups
    /\ Tasks \cap Groups = {}
    /\ Situations \subseteq {"fork", "race", "gone"}

VARIABLES
    state,      \* of each task: "unborn", "running", "leaving", "exiting", "dead"
    tg,         \* the group of each task
    group,      \* of each group: "none", "live", "freed"
    next, prev, \* the links of tasks and of the heads of the lists
    op,         \* the ioctl in progress
    oops,       \* a poisoned or freed entry was followed
    met         \* situations that have come up

links == <<next, prev>>
vars == <<state, tg, group, links, op, oops, met>>

\* The head of a group's list is the group itself.
Nodes == Tasks \cup Groups

NoOp == [kind |-> "none", t |-> InitGroup, to |-> InitGroup, pos |-> Poison, n |-> Poison]

Init ==
    /\ state = [t \in Tasks |-> IF t \in First THEN "running" ELSE "unborn"]
    /\ tg = [t \in Tasks |-> InitGroup]
    /\ group = [g \in Groups |-> "none"]
    /\ next = [x \in Nodes |-> Poison]
    /\ prev = [x \in Nodes |-> Poison]
    /\ op = NoOp
    /\ oops = FALSE
    /\ met = {}

\* What a pointer leads to can be read and written.
Sound(x) ==
    /\ x # Poison
    /\ x \in Tasks => state[x] \notin {"unborn", "dead"}
    /\ x \in Groups => group[x] = "live"

Meet(situations) == situations \subseteq Situations /\ met' = met \cup situations

When(situation, happens) == IF happens THEN {situation} ELSE {}

\* Variant: the neighbour behind is not told.
list_del_OneWay(x) ==
    IF Sound(next[x]) /\ Sound(prev[x])
    THEN /\ next' = [next EXCEPT ![prev[x]] = next[x], ![x] = Poison]
         /\ prev' = [prev EXCEPT ![x] = Poison]
         /\ UNCHANGED oops
    ELSE oops' = TRUE /\ UNCHANGED links

list_del(x) ==
    IF Sound(next[x]) /\ Sound(prev[x])
    THEN /\ next' = [next EXCEPT ![prev[x]] = next[x], ![x] = Poison]
         /\ prev' = [prev EXCEPT ![next[x]] = prev[x], ![x] = Poison]
         /\ UNCHANGED oops
    ELSE oops' = TRUE /\ UNCHANGED links

\* At the head of the list.
list_add(x, head) ==
    IF Sound(head) /\ Sound(next[head])
    THEN /\ next' = [next EXCEPT ![head] = x, ![x] = next[head]]
         /\ prev' = [prev EXCEPT ![next[head]] = x, ![x] = head]
         /\ UNCHANGED oops
    ELSE oops' = TRUE /\ UNCHANGED links

-----------------------------------------------------------------------------
(* Groups.                                                                 *)

sched_create_group(g) ==
    /\ ~oops
    /\ op = NoOp
    /\ group[g] = "none"
    /\ group' = [group EXCEPT ![g] = "live"]
    /\ next' = [next EXCEPT ![g] = g]
    /\ prev' = [prev EXCEPT ![g] = g]
    /\ UNCHANGED <<state, tg, op, oops, met>>

\* sched_attach_task for an ioctl of the task itself, which is the only one that
\* find_task finds: leave the list of the old group, ...
attach_begin(t, g) ==
    /\ ~oops
    /\ op = NoOp
    /\ state[t] = "running"
    /\ g # InitGroup => group[g] # "none"
    /\ op' = [NoOp EXCEPT !.kind = "attach", !.t = t, !.to = g]
    /\ IF tg[t] # InitGroup THEN list_del(t) ELSE UNCHANGED <<links, oops>>
    /\ Meet(When("gone", g # InitGroup /\ group[g] = "freed"))
    /\ UNCHANGED <<state, tg, group>>

\* ... point to the new group, ...
attach_point ==
    /\ ~oops
    /\ op.kind = "attach"
    /\ tg' = [tg EXCEPT ![op.t] = op.to]
    /\ op' = [op EXCEPT !.kind = "attach2"]
    /\ UNCHANGED <<state, group, links, oops, met>>

\* Variant: the task is on no list.
attach_end_Unlisted ==
    /\ ~oops
    /\ op.kind = "attach2"
    /\ op' = NoOp
    /\ UNCHANGED <<state, tg, group, links, oops, met>>

\* ... and join its list.
attach_end ==
    /\ ~oops
    /\ op.kind = "attach2"
    /\ op' = NoOp
    /\ IF op.to = InitGroup THEN UNCHANGED <<links, oops>> ELSE list_add(op.t, op.to)
    /\ UNCHANGED <<state, tg, group, met>>

-----------------------------------------------------------------------------
(* qres_destroy_server: a walk over the list, which moves each task to the *)
(* initial group and has the next one already in hand, then the group is   *)
(* given back.                                                             *)

\* The head of another list is no task: what is read around it is anything.
Walk(pos) ==
    IF Sound(pos) /\ (pos \in Groups => pos = op.to)
    THEN op' = [op EXCEPT !.kind = "walk", !.pos = pos, !.n = next[pos]] /\ UNCHANGED oops
    ELSE oops' = TRUE /\ UNCHANGED op

destroy_begin(g) ==
    /\ ~oops
    /\ op = NoOp
    /\ group[g] # "none"
    /\ op' = [NoOp EXCEPT !.kind = "walk", !.to = g, !.pos = next[g],
                          !.n = IF Sound(next[g]) THEN next[next[g]] ELSE Poison]
    /\ oops' = ~(/\ Sound(g)
                 /\ Sound(next[g])
                 /\ next[g] \in Groups => next[g] = g)
    /\ Meet(When("gone", group[g] = "freed"))
    /\ UNCHANGED <<state, tg, group, links>>

\* The task at pos leaves the list, ...
destroy_unlink ==
    /\ ~oops
    /\ op.kind = "walk"
    /\ op.pos \in Tasks
    /\ IF tg[op.pos] # InitGroup THEN list_del(op.pos) ELSE UNCHANGED <<links, oops>>
    /\ op' = [op EXCEPT !.kind = "move"]
    /\ UNCHANGED <<state, tg, group, met>>

\* Variant: the pointer of the task is left.
destroy_move_Not ==
    /\ ~oops
    /\ op.kind = "move"
    /\ Walk(op.n)
    /\ UNCHANGED <<state, tg, group, links, met>>

\* Variant: the walk begins again instead of going on.
destroy_move_Again ==
    /\ ~oops
    /\ op.kind = "move"
    /\ op' = [op EXCEPT !.kind = "walk"]
    /\ UNCHANGED <<state, tg, group, links, oops, met>>

\* Variant: the task points to no group.
destroy_move_Null ==
    /\ ~oops
    /\ op.kind = "move"
    /\ tg' = [tg EXCEPT ![op.pos] = Poison]
    /\ Walk(op.n)
    /\ UNCHANGED <<state, group, links, met>>

\* ... points to the initial group, and the walk goes on.
destroy_move ==
    /\ ~oops
    /\ op.kind = "move"
    /\ tg' = [tg EXCEPT ![op.pos] = InitGroup]
    /\ Walk(op.n)
    /\ UNCHANGED <<state, group, links, met>>

destroy_end ==
    /\ ~oops
    /\ op.kind = "walk"
    /\ op.pos = op.to
    /\ group' = [group EXCEPT ![op.to] = "freed"]
    /\ op' = NoOp
    /\ UNCHANGED <<state, tg, links, oops, met>>

-----------------------------------------------------------------------------
(* Tasks.                                                                  *)

\* The whole of a task is copied, its pointer to the group and the links too.
fork(t, child) ==
    /\ ~oops
    /\ state[t] = "running"
    /\ op.t # t
    /\ state[child] = "unborn"
    /\ state' = [state EXCEPT ![child] = "running"]
    /\ tg' = [tg EXCEPT ![child] = tg[t]]
    /\ next' = [next EXCEPT ![child] = next[t]]
    /\ prev' = [prev EXCEPT ![child] = prev[t]]
    /\ Meet(When("fork", tg[t] # InitGroup))
    /\ UNCHANGED <<group, op, oops>>

\* sched_exit_group: leave the list ...
exit_begin(t) ==
    /\ ~oops
    /\ state[t] = "running"
    /\ op.t # t
    /\ IF tg[t] = InitGroup THEN /\ state' = [state EXCEPT ![t] = "exiting"]
                                 /\ UNCHANGED <<links, oops>>
       ELSE list_del(t) /\ state' = [state EXCEPT ![t] = "leaving"]
    /\ Meet(When("race", op # NoOp))
    /\ UNCHANGED <<tg, group, op>>

\* ... and point to the initial group.
exit_point(t) ==
    /\ ~oops
    /\ state[t] = "leaving"
    /\ tg' = [tg EXCEPT ![t] = InitGroup]
    /\ state' = [state EXCEPT ![t] = "exiting"]
    /\ Meet(When("race", op # NoOp))
    /\ UNCHANGED <<group, links, op, oops>>

\* The memory of the task is given back.
reap(t) ==
    /\ ~oops
    /\ state[t] = "exiting"
    /\ state' = [state EXCEPT ![t] = "dead"]
    /\ UNCHANGED <<tg, group, links, op, oops, met>>

-----------------------------------------------------------------------------

Destruction == destroy_unlink \/ destroy_move \/ destroy_end
Attachment == attach_point \/ attach_end

Next ==
    \/ \E g \in Groups : sched_create_group(g) \/ destroy_begin(g)
    \/ \E t \in Tasks, g \in Groups \cup {InitGroup} : attach_begin(t, g)
    \/ Attachment \/ Destruction
    \/ \E t, child \in Tasks : fork(t, child)
    \/ \E t \in Tasks : exit_begin(t) \/ exit_point(t) \/ reap(t)

\* A processor that is in the kernel goes on.
Spec == Init /\ [][Next]_vars /\ WF_vars(Destruction) /\ WF_vars(Attachment)

-----------------------------------------------------------------------------
(* Properties. *)

TypeOK ==
    /\ state \in [Tasks -> {"unborn", "running", "leaving", "exiting", "dead"}]
    /\ tg \in [Tasks -> Groups \cup {InitGroup}]
    /\ group \in [Groups -> {"none", "live", "freed"}]
    /\ next \in [Nodes -> Nodes \cup {Poison}]
    /\ prev \in [Nodes -> Nodes \cup {Poison}]
    /\ oops \in BOOLEAN
    /\ met \subseteq Situations

\* The tasks that a walk from the head of a group comes to: the least set that has
\* what follows the head and what follows each of its tasks.
Members(g) ==
    {t \in Tasks : \A S \in SUBSET Tasks :
        (\A x \in S \cup {g} : next[x] \in Tasks => next[x] \in S) => t \in S}

\* Between calls the list of a group holds the tasks that point to it and no
\* other, linked both ways (patch:390-414).
ListsAgree ==
    /\ TypeOK
    /\ met = {} /\ op = NoOp /\ ~oops =>
        \A g \in Groups : group[g] = "live" =>
            /\ Members(g) = {t \in Tasks : tg[t] = g /\ state[t] = "running"}
            /\ \A x \in Members(g) \cup {g} : /\ next[x] \in Members(g) \cup {g}
                                             /\ prev[next[x]] = x

\* A task never runs in a group that was destroyed (qres.c:462-478): the walk
\* of the destruction has moved them all out.
NobodyLeftBehind ==
    met = {} => \A t \in Tasks :
        state[t] = "running" /\ tg[t] # InitGroup => group[tg[t]] = "live"

\* Without those situations no freed or poisoned entry is followed (patch:398,
\* qres.c:475).
OnlyKnownOops == oops => met # {}

\* Only those situations make the kernel follow a bad entry or leave a task.
OnlyThoseHarm == NobodyLeftBehind /\ OnlyKnownOops

\* A destruction ends, unless the kernel has stopped.
DestructionEnds == (op.kind \in {"walk", "move"}) ~> (op = NoOp \/ oops)

\* qres_destroy_server detaches all tasks from the server (qres_lib.h:110-111).
DestroyDetachesAll ==
    \A t \in Tasks : state[t] = "running" /\ tg[t] # InitGroup => group[tg[t]] # "freed"
=============================================================================
