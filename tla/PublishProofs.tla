---------------------------- MODULE PublishProofs ----------------------------
(***************************************************************************)
(* Publishing keeps the user's work, and nothing is lost with the VM: for  *)
(* any number of commits, of the user's commits, and of failures.          *)
(*                                                                         *)
(* And below: one process of serve works on a data directory and is        *)
(* reached at its socket, and boots go to a service of its contract, for   *)
(* any number of processes, requests and changes of the service.           *)
(***************************************************************************)
EXTENDS Publish, Server, TLAPS

(***************************************************************************)
(* The inductive invariant                                                 *)
(***************************************************************************)

NotBegun == ws \in {"new", "resolved", "refused"}

\* Which part is at work in which state of the workspace; a VM that a new run finds is
\* of no run.
PhaseInv ==
    /\ NotBegun => /\ run = "none" /\ halt = "none" /\ ~failing /\ ~todo
                   /\ job = Idle /\ clean = [c \in Cleaners |-> "idle"]
                   /\ vm = NoVM /\ ~destroyed
    /\ vm.up \/ vm = NoVM
    /\ halt # "none" => run \in {"none", "cut"}
    /\ run = "cut" => halt # "none"
    /\ clean["stop"] # "idle" => halt # "none" /\ run = "none"
    /\ clean["engine"] # "end"
    /\ run \in Booting => /\ ws \in {"active", "suspended"} /\ ~destroyed
                          /\ job.at = "idle" /\ clean["engine"] = "idle"
    /\ job.at \notin {"idle", "cleanup"} =>
          ws \in {"active", "suspended"} /\ run = "up" /\ clean["engine"] = "idle"
    /\ ws = "done" => job.at = "idle"
    /\ run \in {"clear", "create"} \/ ws = "stopped" \/ clean["stop"] = "end" => (vm.up => vm.orphan)

\* After CheckHead the staging branch is at what was approved; a node publishes to one place.
HeadInv ==
    /\ job.at \in {"fetch", "read", "merge", "ref", "push"} => approved = top
    /\ job.at \in {"fetch", "read", "merge", "ref"} => job.to = "local"
    /\ job.at = "push" => job.to = "remote"

\* cleanMu has one holder, and each part of Cleanup what the one before it has done; a
\* stopRun that has waited is alone.
Written == exported = "current" \/ "failed" \in slip
ExportInv ==
    /\ ~(Holds("engine") /\ Holds("stop"))
    /\ destroyed => ~vm.up
    /\ \A c \in Cleaners :
        /\ clean[c] \in {"exportonly", "ok"} => ~vm.up
        /\ clean[c] \in {"destroy", "ok", "end"} => Written
        /\ clean[c] = "failed" => "failed" \in slip
    /\ clean["stop"] # "idle" => EngineAway \/ "failed" \in slip
    /\ clean["stop"] \in {"export", "destroy", "failed"} => (vm.up => vm.talks)
    /\ ws = "done" => clean["engine"] = "idle" \/ "failed" \in slip
    /\ clean["engine"] \in {"export", "destroy"} /\ run = "up" => (vm.up => vm.talks)

PublishInv == TypeOK /\ PhaseInv /\ HeadInv /\ ExportInv /\ WorkTreeFollows /\ DoneIsExported

LEMMA PublishInit == Init => PublishInv
<1> SUFFICES ASSUME Init PROVE PublishInv
  OBVIOUS
<1> USE BoundsAssumption DEF Init, Idle, NoTip, Tip, Places, Cleaners, NoVM
<1>1. tip \in [Places -> Tip] /\ work \in [on : BOOLEAN, at : Tip]
  OBVIOUS
<1>2. job \in [at : {"idle", "check", "fetch", "read", "merge", "ref", "push", "cleanup"}, to : Places, old : Tip]
  OBVIOUS
<1>3. clean \in [Cleaners -> {"idle", "lock", "export", "exportonly", "destroy", "ok", "failed", "end"}]
  OBVIOUS
<1>4. TypeOK
  <2>1. top \in 0..MaxCommits /\ approved \in 0..MaxCommits /\ faults \in 0..MaxFaults
    OBVIOUS
  <2>2. ws = "new" /\ pos = "open" /\ run = "none" /\ halt = "none" /\ exported = "none" /\ slip \in SUBSET Slips
    OBVIOUS
  <2>3. vm \in VM
    BY DEF VM
  <2> QED
    BY <1>1, <1>2, <1>3, <2>1, <2>2, <2>3 DEF TypeOK, Booting, Operations
<1>5. PhaseInv /\ HeadInv /\ ExportInv
  BY DEF PhaseInv, HeadInv, ExportInv, NotBegun, Holds, Booting
<1>6. WorkTreeFollows /\ DoneIsExported
  BY DEF WorkTreeFollows, DoneIsExported
<1> QED
  BY <1>4, <1>5, <1>6 DEF PublishInv

\* Every step keeps the types.
LEMMA TypeStep == TypeOK /\ [Next]_vars => TypeOK'
<1> SUFFICES ASSUME TypeOK, [Next]_vars PROVE TypeOK'
  OBVIOUS
<1> USE BoundsAssumption DEF runVars, gitVars, cleanVars, TypeOK, Tip, NoTip, Idle, Places, Cleaners, Operations, Booting, Slips
<1>0. NoVM \in VM
  BY DEF NoVM, VM
<1>1. ASSUME NEW existing \in BOOLEAN, CreateResolve(existing) PROVE TypeOK'
  BY <1>1 DEF CreateResolve
<1>2. CASE CreateClone
  BY <1>2 DEF CreateClone
<1>3. CASE Commit
  BY <1>3 DEF Commit, EngineIdle, Log
<1>4. CASE Approve
  BY <1>4 DEF Approve, EngineIdle
<1>5. CASE EndNode
  BY <1>5 DEF EndNode, EngineIdle, Log
<1>6. ASSUME NEW p \in Places, PublishBegin(p) PROVE TypeOK'
  <2>1. job' \in [at : {"idle", "check", "fetch", "read", "merge", "ref", "push", "cleanup"}, to : Places, old : Tip]
    BY <1>6 DEF PublishBegin
  <2> QED
    BY <1>6, <2>1 DEF PublishBegin
<1>7. CASE PublishCheck
  BY <1>7 DEF PublishCheck, Suspend, Goto
<1>8. CASE PublishRead
  <2>1. job' \in [at : {"idle", "check", "fetch", "read", "merge", "ref", "push", "cleanup"}, to : Places, old : Tip]
    BY <1>8 DEF PublishRead, Goto
  <2>2. ws' = ws
    BY <1>8 DEF PublishRead, Goto
  <2> QED
    BY <1>8, <2>1, <2>2 DEF PublishRead
<1>9. CASE PublishRef
  BY <1>9 DEF PublishRef, GotoCleanup, Suspend, FastForward
<1>10. CASE PublishMerge
  BY <1>10 DEF PublishMerge, GotoCleanup, Suspend, FastForward, Includes
<1>11. CASE PublishElsewhere
  BY <1>11 DEF PublishElsewhere, GotoCleanup, Suspend
<1>12. CASE PublishPush
  BY <1>12 DEF PublishPush, GotoCleanup, Suspend, FastForward
<1>13. CASE Discard
  BY <1>13 DEF Discard, EngineIdle
<1>14. CASE BootClear
  BY <1>0, <1>14 DEF BootClear, Fault
<1>15. CASE BootCreate
  <2>1. vm' \in VM
    BY <1>0, <1>15 DEF BootCreate, VM
  <2> QED
    BY <1>15, <2>1 DEF BootCreate
<1>16. CASE BootLaunch
  BY <1>0, <1>16 DEF BootLaunch, VM
<1>17. CASE BootFails
  BY <1>0, <1>17 DEF BootFails, Fault, VM
<1>18. CASE FailEnds
  <2>1. vm' \in VM /\ failing' \in BOOLEAN
    BY <1>0, <1>18 DEF FailEnds
  <2>2. ws' \in {"new", "resolved", "refused", "active", "suspended", "stopped", "done", "removed"}
    BY <1>18 DEF FailEnds
  <2>3. UNCHANGED <<pos, run, halt, todo, top, approved, tip, work, job, clean, destroyed, exported, faults, slip>>
    BY <1>18 DEF FailEnds
  <2> QED
    BY <2>1, <2>2, <2>3
<1>19. CASE Talk
  <2>1. vm' \in VM
    BY <1>19 DEF Talk, VM
  <2> QED
    BY <1>19, <2>1 DEF Talk
<1>20. CASE CleanNode
  BY <1>20 DEF CleanNode, CleanGoto
<1>21. CASE CleanStop
  BY <1>21 DEF CleanStop, CleanGoto, EngineAway
<1>22. ASSUME NEW c \in Cleaners, CleanLock(c) PROVE TypeOK'
  BY <1>0, <1>22 DEF CleanLock, CleanGoto, Deaf, Holds, Log, VM
<1>23. ASSUME NEW c \in Cleaners, CleanExport(c) PROVE TypeOK'
  BY <1>23 DEF CleanExport, CleanGoto
<1>24. ASSUME NEW c \in Cleaners, CleanDestroy(c) PROVE TypeOK'
  BY <1>0, <1>24 DEF CleanDestroy, CleanGoto, Deaf
<1>25. ASSUME NEW c \in Cleaners, CleanFail(c) PROVE TypeOK'
  BY <1>0, <1>25 DEF CleanFail, CleanGoto, Deaf, Holds, Fault
<1>26. CASE CleanDeaf
  BY <1>26 DEF CleanDeaf, CleanGoto
<1>27. CASE NodeReturns
  BY <1>27 DEF NodeReturns, CleanGoto, Log
<1>28. CASE ReflectReturns
  BY <1>28 DEF ReflectReturns, CleanGoto
<1>29. ASSUME NEW op \in Operations, Halt(op) PROVE TypeOK'
  BY <1>29 DEF Halt, EngineAway
<1>30. CASE HaltDestroys
  <2>1. vm' \in VM
    BY <1>0, <1>30 DEF HaltDestroys, VM
  <2>2. faults' \in 0..MaxFaults
    BY <1>30 DEF HaltDestroys, Fault
  <2> QED
    BY <1>30, <2>1, <2>2 DEF HaltDestroys, CleanGoto
<1>31. CASE HaltEnds
  <2>1. faults' \in 0..MaxFaults
    BY <1>31 DEF HaltEnds, Fault
  <2>3. run' \in {"none", "up", "cut"} \cup Booting /\ destroyed' \in BOOLEAN
    BY <1>31 DEF HaltEnds
  <2>2. ws' \in {"new", "resolved", "refused", "active", "suspended", "stopped", "done", "removed"}
    BY <1>31 DEF HaltEnds
  <2> QED
    BY <1>31, <2>1, <2>2, <2>3 DEF HaltEnds, CleanGoto
<1>32. CASE Resume
  <2>1. ws' = "active" /\ run' = "clear" /\ destroyed' = FALSE
    BY <1>32 DEF Resume
  <2> QED
    BY <1>32, <2>1 DEF Resume
<1>33. CASE Restart
  <2>1. vm' \in VM
    BY <1>33 DEF Restart, VM
  <2>2. faults' \in 0..MaxFaults
    BY <1>33 DEF Restart, Fault
  <2>3. clean' \in [Cleaners -> {"idle", "lock", "export", "exportonly", "destroy", "ok", "failed", "end"}]
    BY <1>33 DEF Restart
  <2>4. job' \in [at : {"idle", "check", "fetch", "read", "merge", "ref", "push", "cleanup"}, to : Places, old : Tip]
    BY <1>33 DEF Restart
  <2> QED
    BY <1>33, <2>1, <2>2, <2>3, <2>4 DEF Restart
<1>34. CASE RecoverDestroys
  <2>1. vm' \in VM /\ todo' \in BOOLEAN
    BY <1>0, <1>34 DEF RecoverDestroys
  <2>2. faults' \in 0..MaxFaults
    BY <1>34 DEF RecoverDestroys, Fault
  <2>3. UNCHANGED <<ws, pos, run, halt, failing, top, approved, tip, work, job, clean, destroyed, exported, slip>>
    BY <1>34 DEF RecoverDestroys
  <2> QED
    BY <2>1, <2>2, <2>3
<1>35. ASSUME NEW p \in Places, UserCommit(p) PROVE TypeOK'
  BY <1>35 DEF UserCommit
<1>36. CASE UserCheckout
  BY <1>36 DEF UserCheckout
<1>37. CASE UNCHANGED vars
  BY <1>37 DEF vars
<1> QED
  BY <1>1, <1>2, <1>3, <1>4, <1>5, <1>6, <1>7, <1>8, <1>9, <1>10,
     <1>11, <1>12, <1>13, <1>14, <1>15, <1>16, <1>17, <1>18, <1>19, <1>20,
     <1>21, <1>22, <1>23, <1>24, <1>25, <1>26, <1>27, <1>28, <1>29, <1>30,
     <1>31, <1>32, <1>33, <1>34, <1>35, <1>36, <1>37 DEF Next

\* The node, Cleanup, the boots and the operations take turns.
LEMMA PhaseStep == TypeOK /\ PhaseInv /\ [Next]_vars => PhaseInv'
<1> SUFFICES ASSUME TypeOK, PhaseInv, [Next]_vars PROVE PhaseInv'
  OBVIOUS
<1> USE BoundsAssumption DEF TypeOK, VM, NoVM, Tip, Idle, Places, Cleaners, Operations, Booting, runVars, gitVars, cleanVars, PhaseInv, NotBegun
<1>1. ASSUME NEW existing \in BOOLEAN, CreateResolve(existing) PROVE PhaseInv'
  BY <1>1 DEF CreateResolve
<1>2. CASE CreateClone
  BY <1>2 DEF CreateClone
<1>3. CASE Commit
  BY <1>3 DEF Commit, EngineIdle, Log
<1>4. CASE Approve
  BY <1>4 DEF Approve, EngineIdle
<1>5. CASE EndNode
  BY <1>5 DEF EndNode, EngineIdle, Log
<1>6. ASSUME NEW p \in Places, PublishBegin(p) PROVE PhaseInv'
  BY <1>6 DEF PublishBegin, EngineIdle
<1>7. CASE PublishCheck
  BY <1>7 DEF PublishCheck, Suspend, Goto
<1>8. CASE PublishRead
  BY <1>8 DEF PublishRead, Goto
<1>9. CASE PublishRef
  BY <1>9 DEF PublishRef, GotoCleanup, Suspend, FastForward
<1>10. CASE PublishMerge
  BY <1>10 DEF PublishMerge, GotoCleanup, Suspend, FastForward, Includes
<1>11. CASE PublishElsewhere
  BY <1>11 DEF PublishElsewhere, GotoCleanup, Suspend
<1>12. CASE PublishPush
  BY <1>12 DEF PublishPush, GotoCleanup, Suspend, FastForward
<1>13. CASE Discard
  BY <1>13 DEF Discard, EngineIdle
<1>14. CASE BootClear
  BY <1>14 DEF BootClear, Fault
<1>15. CASE BootCreate
  BY <1>15 DEF BootCreate
<1>16. CASE BootLaunch
  <2>1. vm'.up = vm.up /\ vm'.orphan = vm.orphan
    BY <1>16 DEF BootLaunch
  <2>2. vm'.up \/ vm' = NoVM
    <3>1. CASE vm.up
      BY <2>1, <3>1
    <3>2. CASE vm = NoVM
      BY <1>16, <3>2 DEF BootLaunch
    <3> QED
      BY <3>1, <3>2
  <2> QED
    BY <1>16, <2>1, <2>2 DEF BootLaunch
<1>17. CASE BootFails
  BY <1>17 DEF BootFails, Fault
<1>18. CASE FailEnds
  BY <1>18 DEF FailEnds
<1>19. CASE Talk
  BY <1>19 DEF Talk
<1>20. CASE CleanNode
  BY <1>20 DEF CleanNode, CleanGoto
<1>21. CASE CleanStop
  BY <1>21 DEF CleanStop, CleanGoto, EngineAway
<1>22. ASSUME NEW c \in Cleaners, CleanLock(c) PROVE PhaseInv'
  BY <1>22 DEF CleanLock, CleanGoto, Deaf, Holds, Log
<1>23. ASSUME NEW c \in Cleaners, CleanExport(c) PROVE PhaseInv'
  BY <1>23 DEF CleanExport, CleanGoto
<1>24. ASSUME NEW c \in Cleaners, CleanDestroy(c) PROVE PhaseInv'
  BY <1>24 DEF CleanDestroy, CleanGoto, Deaf
<1>25. ASSUME NEW c \in Cleaners, CleanFail(c) PROVE PhaseInv'
  BY <1>25 DEF CleanFail, CleanGoto, Deaf, Holds, Fault
<1>26. CASE CleanDeaf
  BY <1>26 DEF CleanDeaf, CleanGoto
<1>27. CASE NodeReturns
  BY <1>27 DEF NodeReturns, CleanGoto, Log
<1>28. CASE ReflectReturns
  BY <1>28 DEF ReflectReturns, CleanGoto
<1>29. ASSUME NEW op \in Operations, Halt(op) PROVE PhaseInv'
  BY <1>29 DEF Halt, EngineAway
<1>30. CASE HaltDestroys
  BY <1>30 DEF HaltDestroys, CleanGoto, Fault
<1>31. CASE HaltEnds
  <2>1. /\ clean'["stop"] = "idle" /\ clean'["engine"] = clean["engine"]
        /\ halt' = "none" /\ run = "none" /\ (vm.up => vm.orphan)
    BY <1>31 DEF HaltEnds, CleanGoto
  <2>2. CASE halt = "stop"
    BY <1>31, <2>1, <2>2 DEF HaltEnds
  <2>3. CASE halt = "remove"
    BY <1>31, <2>1, <2>3 DEF HaltEnds
  <2>4. CASE halt = "resume" /\ run' = "clear"
    BY <1>31, <2>1, <2>4 DEF HaltEnds, EngineAway
  <2>5. CASE halt = "resume" /\ run' = run
    BY <1>31, <2>1, <2>5 DEF HaltEnds
  <2> QED
    BY <1>31, <2>2, <2>3, <2>4, <2>5 DEF HaltEnds
<1>32. CASE Resume
  BY <1>32 DEF Resume, EngineAway
<1>33. CASE Restart
  <2>1. run' = "none" /\ halt' = "none" /\ job'.at = "idle" /\ ~destroyed'
    BY <1>33 DEF Restart
  <2>2. clean'["stop"] = "idle" /\ clean'["engine"] = "idle"
    BY <1>33 DEF Restart
  <2>3. ws' \in {"suspended", "stopped", "done"} /\ vm'.up = vm.up /\ (vm.orphan => vm'.orphan)
    BY <1>33 DEF Restart
  <2>4. vm'.up \/ vm' = NoVM
    BY <1>33 DEF Restart
  <2>5. ws' = "stopped" => (vm'.up => vm'.orphan)
    BY <1>33 DEF Restart
  <2> QED
    BY <2>1, <2>2, <2>3, <2>4, <2>5
<1>34. CASE RecoverDestroys
  BY <1>34 DEF RecoverDestroys, Fault
<1>35. ASSUME NEW p \in Places, UserCommit(p) PROVE PhaseInv'
  BY <1>35 DEF UserCommit
<1>36. CASE UserCheckout
  BY <1>36 DEF UserCheckout
<1>37. CASE UNCHANGED vars
  BY <1>37 DEF vars
<1> QED
  BY <1>1, <1>2, <1>3, <1>4, <1>5, <1>6, <1>7, <1>8, <1>9, <1>10,
     <1>11, <1>12, <1>13, <1>14, <1>15, <1>16, <1>17, <1>18, <1>19, <1>20,
     <1>21, <1>22, <1>23, <1>24, <1>25, <1>26, <1>27, <1>28, <1>29, <1>30,
     <1>31, <1>32, <1>33, <1>34, <1>35, <1>36, <1>37 DEF Next

\* The staging branch stays where CheckHead found it while the node publishes.
LEMMA HeadStep == TypeOK /\ PhaseInv /\ HeadInv /\ [Next]_vars => HeadInv'
<1> SUFFICES ASSUME TypeOK, PhaseInv, HeadInv, [Next]_vars PROVE HeadInv'
  OBVIOUS
<1> USE BoundsAssumption DEF TypeOK, VM, NoVM, Tip, Idle, Places, Cleaners, Operations, Booting, runVars, gitVars, cleanVars, PhaseInv, NotBegun, HeadInv
<1>1. ASSUME NEW existing \in BOOLEAN, CreateResolve(existing) PROVE HeadInv'
  BY <1>1 DEF CreateResolve
<1>2. CASE CreateClone
  BY <1>2 DEF CreateClone
<1>3. CASE Commit
  BY <1>3 DEF Commit, EngineIdle, Log
<1>4. CASE Approve
  BY <1>4 DEF Approve, EngineIdle
<1>5. CASE EndNode
  BY <1>5 DEF EndNode, EngineIdle, Log
<1>6. ASSUME NEW p \in Places, PublishBegin(p) PROVE HeadInv'
  BY <1>6 DEF PublishBegin, EngineIdle
<1>7. CASE PublishCheck
  BY <1>7 DEF PublishCheck, Suspend, Goto
<1>8. CASE PublishRead
  BY <1>8 DEF PublishRead, Goto
<1>9. CASE PublishRef
  BY <1>9 DEF PublishRef, GotoCleanup, Suspend, FastForward
<1>10. CASE PublishMerge
  BY <1>10 DEF PublishMerge, GotoCleanup, Suspend, FastForward, Includes
<1>11. CASE PublishElsewhere
  BY <1>11 DEF PublishElsewhere, GotoCleanup, Suspend
<1>12. CASE PublishPush
  BY <1>12 DEF PublishPush, GotoCleanup, Suspend, FastForward
<1>13. CASE Discard
  BY <1>13 DEF Discard, EngineIdle
<1>14. CASE BootClear
  BY <1>14 DEF BootClear, Fault
<1>15. CASE BootCreate
  BY <1>15 DEF BootCreate
<1>16. CASE BootLaunch
  BY <1>16 DEF BootLaunch
<1>17. CASE BootFails
  BY <1>17 DEF BootFails, Fault
<1>18. CASE FailEnds
  BY <1>18 DEF FailEnds
<1>19. CASE Talk
  BY <1>19 DEF Talk
<1>20. CASE CleanNode
  BY <1>20 DEF CleanNode, CleanGoto
<1>21. CASE CleanStop
  BY <1>21 DEF CleanStop, CleanGoto, EngineAway
<1>22. ASSUME NEW c \in Cleaners, CleanLock(c) PROVE HeadInv'
  BY <1>22 DEF CleanLock, CleanGoto, Deaf, Holds, Log
<1>23. ASSUME NEW c \in Cleaners, CleanExport(c) PROVE HeadInv'
  BY <1>23 DEF CleanExport, CleanGoto
<1>24. ASSUME NEW c \in Cleaners, CleanDestroy(c) PROVE HeadInv'
  BY <1>24 DEF CleanDestroy, CleanGoto, Deaf
<1>25. ASSUME NEW c \in Cleaners, CleanFail(c) PROVE HeadInv'
  BY <1>25 DEF CleanFail, CleanGoto, Deaf, Holds, Fault
<1>26. CASE CleanDeaf
  BY <1>26 DEF CleanDeaf, CleanGoto
<1>27. CASE NodeReturns
  BY <1>27 DEF NodeReturns, CleanGoto, Log
<1>28. CASE ReflectReturns
  BY <1>28 DEF ReflectReturns, CleanGoto
<1>29. ASSUME NEW op \in Operations, Halt(op) PROVE HeadInv'
  BY <1>29 DEF Halt, EngineAway
<1>30. CASE HaltDestroys
  BY <1>30 DEF HaltDestroys, CleanGoto, Fault
<1>31. CASE HaltEnds
  BY <1>31 DEF HaltEnds, CleanGoto, EngineAway, Fault
<1>32. CASE Resume
  BY <1>32 DEF Resume, EngineAway
<1>33. CASE Restart
  BY <1>33 DEF Restart, Fault
<1>34. CASE RecoverDestroys
  BY <1>34 DEF RecoverDestroys, Fault
<1>35. ASSUME NEW p \in Places, UserCommit(p) PROVE HeadInv'
  BY <1>35 DEF UserCommit
<1>36. CASE UserCheckout
  BY <1>36 DEF UserCheckout
<1>37. CASE UNCHANGED vars
  BY <1>37 DEF vars
<1> QED
  BY <1>1, <1>2, <1>3, <1>4, <1>5, <1>6, <1>7, <1>8, <1>9, <1>10,
     <1>11, <1>12, <1>13, <1>14, <1>15, <1>16, <1>17, <1>18, <1>19, <1>20,
     <1>21, <1>22, <1>23, <1>24, <1>25, <1>26, <1>27, <1>28, <1>29, <1>30,
     <1>31, <1>32, <1>33, <1>34, <1>35, <1>36, <1>37 DEF Next

\* Cleanup does its parts in their order, whoever calls it.
LEMMA ExportStep == TypeOK /\ PhaseInv /\ ExportInv /\ DoneIsExported /\ [Next]_vars => ExportInv'
<1> SUFFICES ASSUME TypeOK, PhaseInv, ExportInv, DoneIsExported, [Next]_vars PROVE ExportInv'
  OBVIOUS
<1> USE BoundsAssumption DEF TypeOK, VM, NoVM, Tip, Idle, Places, Cleaners, Operations, Booting, runVars, gitVars, cleanVars, PhaseInv, NotBegun, ExportInv, Written, Holds, EngineAway, DoneIsExported
<1>1. ASSUME NEW existing \in BOOLEAN, CreateResolve(existing) PROVE ExportInv'
  BY <1>1 DEF CreateResolve
<1>2. CASE CreateClone
  BY <1>2 DEF CreateClone
<1>3. CASE Commit
  BY <1>3 DEF Commit, EngineIdle, Log
<1>4. CASE Approve
  BY <1>4 DEF Approve, EngineIdle
<1>5. CASE EndNode
  BY <1>5 DEF EndNode, EngineIdle, Log
<1>6. ASSUME NEW p \in Places, PublishBegin(p) PROVE ExportInv'
  BY <1>6 DEF PublishBegin, EngineIdle
<1>7. CASE PublishCheck
  BY <1>7 DEF PublishCheck, Suspend, Goto
<1>8. CASE PublishRead
  BY <1>8 DEF PublishRead, Goto
<1>9. CASE PublishRef
  BY <1>9 DEF PublishRef, GotoCleanup, Suspend, FastForward
<1>10. CASE PublishMerge
  BY <1>10 DEF PublishMerge, GotoCleanup, Suspend, FastForward, Includes
<1>11. CASE PublishElsewhere
  BY <1>11 DEF PublishElsewhere, GotoCleanup, Suspend
<1>12. CASE PublishPush
  BY <1>12 DEF PublishPush, GotoCleanup, Suspend, FastForward
<1>13. CASE Discard
  BY <1>13 DEF Discard, EngineIdle
<1>14. CASE BootClear
  BY <1>14 DEF BootClear, Fault
<1>15. CASE BootCreate
  BY <1>15 DEF BootCreate
<1>16. CASE BootLaunch
  BY <1>16 DEF BootLaunch
<1>17. CASE BootFails
  BY <1>17 DEF BootFails, Fault
<1>18. CASE FailEnds
  BY <1>18 DEF FailEnds
<1>19. CASE Talk
  BY <1>19 DEF Talk
<1>20. CASE CleanNode
  BY <1>20 DEF CleanNode, CleanGoto
<1>21. CASE CleanStop
  BY <1>21 DEF CleanStop, CleanGoto, EngineAway
<1>22. ASSUME NEW c \in Cleaners, CleanLock(c) PROVE ExportInv'
  BY <1>22 DEF CleanLock, CleanGoto, Deaf, Holds, Log
<1>23. ASSUME NEW c \in Cleaners, CleanExport(c) PROVE ExportInv'
  BY <1>23 DEF CleanExport, CleanGoto
<1>24. ASSUME NEW c \in Cleaners, CleanDestroy(c) PROVE ExportInv'
  BY <1>24 DEF CleanDestroy, CleanGoto, Deaf
<1>25. ASSUME NEW c \in Cleaners, CleanFail(c) PROVE ExportInv'
  BY <1>25 DEF CleanFail, CleanGoto, Deaf, Holds, Fault
<1>26. CASE CleanDeaf
  BY <1>26 DEF CleanDeaf, CleanGoto
<1>27. CASE NodeReturns
  BY <1>27 DEF NodeReturns, CleanGoto, Log
<1>28. CASE ReflectReturns
  BY <1>28 DEF ReflectReturns, CleanGoto
<1>29. ASSUME NEW op \in Operations, Halt(op) PROVE ExportInv'
  BY <1>29 DEF Halt, EngineAway
<1>30. CASE HaltDestroys
  BY <1>30 DEF HaltDestroys, CleanGoto, Fault
<1>31. CASE HaltEnds
  BY <1>31 DEF HaltEnds, CleanGoto, EngineAway, Fault
<1>32. CASE Resume
  BY <1>32 DEF Resume, EngineAway
<1>33. CASE Restart
  BY <1>33 DEF Restart, Fault
<1>34. CASE RecoverDestroys
  BY <1>34 DEF RecoverDestroys, Fault
<1>35. ASSUME NEW p \in Places, UserCommit(p) PROVE ExportInv'
  BY <1>35 DEF UserCommit
<1>36. CASE UserCheckout
  BY <1>36 DEF UserCheckout
<1>37. CASE UNCHANGED vars
  BY <1>37 DEF vars
<1> QED
  BY <1>1, <1>2, <1>3, <1>4, <1>5, <1>6, <1>7, <1>8, <1>9, <1>10,
     <1>11, <1>12, <1>13, <1>14, <1>15, <1>16, <1>17, <1>18, <1>19, <1>20,
     <1>21, <1>22, <1>23, <1>24, <1>25, <1>26, <1>27, <1>28, <1>29, <1>30,
     <1>31, <1>32, <1>33, <1>34, <1>35, <1>36, <1>37 DEF Next

\* The branch moves with its working tree, or the user had just checked it out.
LEMMA WorkTreeStep == TypeOK /\ WorkTreeFollows /\ [Next]_vars => WorkTreeFollows'
<1> SUFFICES ASSUME TypeOK, WorkTreeFollows, [Next]_vars PROVE WorkTreeFollows'
  OBVIOUS
<1> USE BoundsAssumption DEF TypeOK, VM, NoVM, Tip, Idle, Places, Cleaners, Operations, Booting, runVars, gitVars, cleanVars, NoTip, WorkTreeFollows
<1>1. ASSUME NEW existing \in BOOLEAN, CreateResolve(existing) PROVE WorkTreeFollows'
  BY <1>1 DEF CreateResolve
<1>2. CASE CreateClone
  BY <1>2 DEF CreateClone
<1>3. CASE Commit
  BY <1>3 DEF Commit, EngineIdle, Log
<1>4. CASE Approve
  BY <1>4 DEF Approve, EngineIdle
<1>5. CASE EndNode
  BY <1>5 DEF EndNode, EngineIdle, Log
<1>6. ASSUME NEW p \in Places, PublishBegin(p) PROVE WorkTreeFollows'
  BY <1>6 DEF PublishBegin, EngineIdle
<1>7. CASE PublishCheck
  BY <1>7 DEF PublishCheck, Suspend, Goto
<1>8. CASE PublishRead
  BY <1>8 DEF PublishRead, Goto
<1>9. CASE PublishRef
  BY <1>9 DEF PublishRef, GotoCleanup, Suspend, FastForward
<1>10. CASE PublishMerge
  BY <1>10 DEF PublishMerge, GotoCleanup, Suspend, FastForward, Includes
<1>11. CASE PublishElsewhere
  BY <1>11 DEF PublishElsewhere, GotoCleanup, Suspend
<1>12. CASE PublishPush
  BY <1>12 DEF PublishPush, GotoCleanup, Suspend, FastForward
<1>13. CASE Discard
  BY <1>13 DEF Discard, EngineIdle
<1>14. CASE BootClear
  BY <1>14 DEF BootClear, Fault
<1>15. CASE BootCreate
  BY <1>15 DEF BootCreate
<1>16. CASE BootLaunch
  BY <1>16 DEF BootLaunch
<1>17. CASE BootFails
  BY <1>17 DEF BootFails, Fault
<1>18. CASE FailEnds
  BY <1>18 DEF FailEnds
<1>19. CASE Talk
  BY <1>19 DEF Talk
<1>20. CASE CleanNode
  BY <1>20 DEF CleanNode, CleanGoto
<1>21. CASE CleanStop
  BY <1>21 DEF CleanStop, CleanGoto, EngineAway
<1>22. ASSUME NEW c \in Cleaners, CleanLock(c) PROVE WorkTreeFollows'
  BY <1>22 DEF CleanLock, CleanGoto, Deaf, Holds, Log
<1>23. ASSUME NEW c \in Cleaners, CleanExport(c) PROVE WorkTreeFollows'
  BY <1>23 DEF CleanExport, CleanGoto
<1>24. ASSUME NEW c \in Cleaners, CleanDestroy(c) PROVE WorkTreeFollows'
  BY <1>24 DEF CleanDestroy, CleanGoto, Deaf
<1>25. ASSUME NEW c \in Cleaners, CleanFail(c) PROVE WorkTreeFollows'
  BY <1>25 DEF CleanFail, CleanGoto, Deaf, Holds, Fault
<1>26. CASE CleanDeaf
  BY <1>26 DEF CleanDeaf, CleanGoto
<1>27. CASE NodeReturns
  BY <1>27 DEF NodeReturns, CleanGoto, Log
<1>28. CASE ReflectReturns
  BY <1>28 DEF ReflectReturns, CleanGoto
<1>29. ASSUME NEW op \in Operations, Halt(op) PROVE WorkTreeFollows'
  BY <1>29 DEF Halt, EngineAway
<1>30. CASE HaltDestroys
  BY <1>30 DEF HaltDestroys, CleanGoto, Fault
<1>31. CASE HaltEnds
  BY <1>31 DEF HaltEnds, CleanGoto, EngineAway, Fault
<1>32. CASE Resume
  BY <1>32 DEF Resume, EngineAway
<1>33. CASE Restart
  BY <1>33 DEF Restart, Fault
<1>34. CASE RecoverDestroys
  BY <1>34 DEF RecoverDestroys, Fault
<1>35. ASSUME NEW p \in Places, UserCommit(p) PROVE WorkTreeFollows'
  BY <1>35 DEF UserCommit
<1>36. CASE UserCheckout
  BY <1>36 DEF UserCheckout
<1>37. CASE UNCHANGED vars
  BY <1>37 DEF vars
<1> QED
  BY <1>1, <1>2, <1>3, <1>4, <1>5, <1>6, <1>7, <1>8, <1>9, <1>10,
     <1>11, <1>12, <1>13, <1>14, <1>15, <1>16, <1>17, <1>18, <1>19, <1>20,
     <1>21, <1>22, <1>23, <1>24, <1>25, <1>26, <1>27, <1>28, <1>29, <1>30,
     <1>31, <1>32, <1>33, <1>34, <1>35, <1>36, <1>37 DEF Next

\* DONE comes after a Cleanup that has returned.
LEMMA DoneStep == TypeOK /\ PhaseInv /\ ExportInv /\ DoneIsExported /\ [Next]_vars => DoneIsExported'
<1> SUFFICES ASSUME TypeOK, PhaseInv, ExportInv, DoneIsExported, [Next]_vars PROVE DoneIsExported'
  OBVIOUS
<1> USE BoundsAssumption DEF TypeOK, VM, NoVM, Tip, Idle, Places, Cleaners, Operations, Booting, runVars, gitVars, cleanVars, PhaseInv, NotBegun, ExportInv, Written, DoneIsExported
<1>1. ASSUME NEW existing \in BOOLEAN, CreateResolve(existing) PROVE DoneIsExported'
  BY <1>1 DEF CreateResolve
<1>2. CASE CreateClone
  BY <1>2 DEF CreateClone
<1>3. CASE Commit
  BY <1>3 DEF Commit, EngineIdle, Log
<1>4. CASE Approve
  BY <1>4 DEF Approve, EngineIdle
<1>5. CASE EndNode
  BY <1>5 DEF EndNode, EngineIdle, Log
<1>6. ASSUME NEW p \in Places, PublishBegin(p) PROVE DoneIsExported'
  BY <1>6 DEF PublishBegin, EngineIdle
<1>7. CASE PublishCheck
  BY <1>7 DEF PublishCheck, Suspend, Goto
<1>8. CASE PublishRead
  BY <1>8 DEF PublishRead, Goto
<1>9. CASE PublishRef
  BY <1>9 DEF PublishRef, GotoCleanup, Suspend, FastForward
<1>10. CASE PublishMerge
  BY <1>10 DEF PublishMerge, GotoCleanup, Suspend, FastForward, Includes
<1>11. CASE PublishElsewhere
  BY <1>11 DEF PublishElsewhere, GotoCleanup, Suspend
<1>12. CASE PublishPush
  BY <1>12 DEF PublishPush, GotoCleanup, Suspend, FastForward
<1>13. CASE Discard
  BY <1>13 DEF Discard, EngineIdle
<1>14. CASE BootClear
  BY <1>14 DEF BootClear, Fault
<1>15. CASE BootCreate
  BY <1>15 DEF BootCreate
<1>16. CASE BootLaunch
  BY <1>16 DEF BootLaunch
<1>17. CASE BootFails
  BY <1>17 DEF BootFails, Fault
<1>18. CASE FailEnds
  BY <1>18 DEF FailEnds
<1>19. CASE Talk
  BY <1>19 DEF Talk
<1>20. CASE CleanNode
  BY <1>20 DEF CleanNode, CleanGoto
<1>21. CASE CleanStop
  BY <1>21 DEF CleanStop, CleanGoto, EngineAway
<1>22. ASSUME NEW c \in Cleaners, CleanLock(c) PROVE DoneIsExported'
  <2>1. ws' = ws /\ slip' = slip /\ vm'.up = vm.up
    BY <1>22 DEF CleanLock
  <2>2. CASE vm.up
    BY <2>1, <2>2
  <2>3. CASE ~vm.up /\ c = "stop"
    BY <1>22, <2>1, <2>3 DEF CleanLock, Deaf
  <2>4. CASE ~vm.up /\ c = "engine"
    BY <1>22, <2>1, <2>4 DEF CleanLock, CleanGoto, Deaf, Log
  <2> QED
    BY <2>2, <2>3, <2>4
<1>23. ASSUME NEW c \in Cleaners, CleanExport(c) PROVE DoneIsExported'
  BY <1>23 DEF CleanExport, CleanGoto
<1>24. ASSUME NEW c \in Cleaners, CleanDestroy(c) PROVE DoneIsExported'
  BY <1>24 DEF CleanDestroy, CleanGoto, Deaf
<1>25. ASSUME NEW c \in Cleaners, CleanFail(c) PROVE DoneIsExported'
  BY <1>25 DEF CleanFail, CleanGoto, Deaf, Holds, Fault
<1>26. CASE CleanDeaf
  BY <1>26 DEF CleanDeaf, CleanGoto
<1>27. CASE NodeReturns
  BY <1>27 DEF NodeReturns, CleanGoto, Log
<1>28. CASE ReflectReturns
  BY <1>28 DEF ReflectReturns, CleanGoto
<1>29. ASSUME NEW op \in Operations, Halt(op) PROVE DoneIsExported'
  BY <1>29 DEF Halt, EngineAway
<1>30. CASE HaltDestroys
  BY <1>30 DEF HaltDestroys, CleanGoto, Fault
<1>31. CASE HaltEnds
  BY <1>31 DEF HaltEnds, CleanGoto, EngineAway, Fault
<1>32. CASE Resume
  BY <1>32 DEF Resume, EngineAway
<1>33. CASE Restart
  BY <1>33 DEF Restart, Fault
<1>34. CASE RecoverDestroys
  BY <1>34 DEF RecoverDestroys, Fault
<1>35. ASSUME NEW p \in Places, UserCommit(p) PROVE DoneIsExported'
  BY <1>35 DEF UserCommit
<1>36. CASE UserCheckout
  BY <1>36 DEF UserCheckout
<1>37. CASE UNCHANGED vars
  BY <1>37 DEF vars
<1> QED
  BY <1>1, <1>2, <1>3, <1>4, <1>5, <1>6, <1>7, <1>8, <1>9, <1>10,
     <1>11, <1>12, <1>13, <1>14, <1>15, <1>16, <1>17, <1>18, <1>19, <1>20,
     <1>21, <1>22, <1>23, <1>24, <1>25, <1>26, <1>27, <1>28, <1>29, <1>30,
     <1>31, <1>32, <1>33, <1>34, <1>35, <1>36, <1>37 DEF Next

(***************************************************************************)
(* The steps                                                               *)
(***************************************************************************)

\* A branch moves to the approved commit, as a fast-forward.
LEMMA MovesStep == TypeOK /\ HeadInv /\ [Next]_vars => MovesToApproved
<1> SUFFICES ASSUME TypeOK, HeadInv, [Next]_vars PROVE MovesToApproved
  OBVIOUS
<1> USE BoundsAssumption DEF TypeOK, VM, NoVM, Tip, Idle, Places, Cleaners, Operations, Booting, runVars, gitVars, cleanVars, HeadInv, MovesToApproved
<1>1. ASSUME NEW existing \in BOOLEAN, CreateResolve(existing) PROVE MovesToApproved
  BY <1>1 DEF CreateResolve
<1>2. CASE CreateClone
  BY <1>2 DEF CreateClone
<1>3. CASE Commit
  BY <1>3 DEF Commit, EngineIdle, Log
<1>4. CASE Approve
  BY <1>4 DEF Approve, EngineIdle
<1>5. CASE EndNode
  BY <1>5 DEF EndNode, EngineIdle, Log
<1>6. ASSUME NEW p \in Places, PublishBegin(p) PROVE MovesToApproved
  BY <1>6 DEF PublishBegin, EngineIdle
<1>7. CASE PublishCheck
  BY <1>7 DEF PublishCheck, Suspend, Goto
<1>8. CASE PublishRead
  BY <1>8 DEF PublishRead, Goto
<1>9. CASE PublishRef
  BY <1>9 DEF PublishRef, GotoCleanup, Suspend, FastForward
<1>10. CASE PublishMerge
  BY <1>10 DEF PublishMerge, GotoCleanup, Suspend, FastForward, Includes
<1>11. CASE PublishElsewhere
  BY <1>11 DEF PublishElsewhere, GotoCleanup, Suspend
<1>12. CASE PublishPush
  BY <1>12 DEF PublishPush, GotoCleanup, Suspend, FastForward
<1>13. CASE Discard
  BY <1>13 DEF Discard, EngineIdle
<1>14. CASE BootClear
  BY <1>14 DEF BootClear, Fault
<1>15. CASE BootCreate
  BY <1>15 DEF BootCreate
<1>16. CASE BootLaunch
  BY <1>16 DEF BootLaunch
<1>17. CASE BootFails
  BY <1>17 DEF BootFails, Fault
<1>18. CASE FailEnds
  BY <1>18 DEF FailEnds
<1>19. CASE Talk
  BY <1>19 DEF Talk
<1>20. CASE CleanNode
  BY <1>20 DEF CleanNode, CleanGoto
<1>21. CASE CleanStop
  BY <1>21 DEF CleanStop, CleanGoto, EngineAway
<1>22. ASSUME NEW c \in Cleaners, CleanLock(c) PROVE MovesToApproved
  BY <1>22 DEF CleanLock, CleanGoto, Deaf, Holds, Log
<1>23. ASSUME NEW c \in Cleaners, CleanExport(c) PROVE MovesToApproved
  BY <1>23 DEF CleanExport, CleanGoto
<1>24. ASSUME NEW c \in Cleaners, CleanDestroy(c) PROVE MovesToApproved
  BY <1>24 DEF CleanDestroy, CleanGoto, Deaf
<1>25. ASSUME NEW c \in Cleaners, CleanFail(c) PROVE MovesToApproved
  BY <1>25 DEF CleanFail, CleanGoto, Deaf, Holds, Fault
<1>26. CASE CleanDeaf
  BY <1>26 DEF CleanDeaf, CleanGoto
<1>27. CASE NodeReturns
  BY <1>27 DEF NodeReturns, CleanGoto, Log
<1>28. CASE ReflectReturns
  BY <1>28 DEF ReflectReturns, CleanGoto
<1>29. ASSUME NEW op \in Operations, Halt(op) PROVE MovesToApproved
  BY <1>29 DEF Halt, EngineAway
<1>30. CASE HaltDestroys
  BY <1>30 DEF HaltDestroys, CleanGoto, Fault
<1>31. CASE HaltEnds
  BY <1>31 DEF HaltEnds, CleanGoto, EngineAway, Fault
<1>32. CASE Resume
  BY <1>32 DEF Resume, EngineAway
<1>33. CASE Restart
  BY <1>33 DEF Restart, Fault
<1>34. CASE RecoverDestroys
  BY <1>34 DEF RecoverDestroys, Fault
<1>35. ASSUME NEW p \in Places, UserCommit(p) PROVE MovesToApproved
  BY <1>35 DEF UserCommit
<1>36. CASE UserCheckout
  BY <1>36 DEF UserCheckout
<1>37. CASE UNCHANGED vars
  BY <1>37 DEF vars
<1> QED
  BY <1>1, <1>2, <1>3, <1>4, <1>5, <1>6, <1>7, <1>8, <1>9, <1>10,
     <1>11, <1>12, <1>13, <1>14, <1>15, <1>16, <1>17, <1>18, <1>19, <1>20,
     <1>21, <1>22, <1>23, <1>24, <1>25, <1>26, <1>27, <1>28, <1>29, <1>30,
     <1>31, <1>32, <1>33, <1>34, <1>35, <1>36, <1>37 DEF Next

\* The node goes on to Cleanup when the branch has the commit.
LEMMA PublishedStep == TypeOK /\ HeadInv /\ [Next]_vars => PublishedBeforeCleanup
<1> SUFFICES ASSUME TypeOK, HeadInv, [Next]_vars PROVE PublishedBeforeCleanup
  OBVIOUS
<1> USE BoundsAssumption DEF TypeOK, VM, NoVM, Tip, Idle, Places, Cleaners, Operations, Booting, runVars, gitVars, cleanVars, HeadInv, PublishedBeforeCleanup, Includes
<1>1. ASSUME NEW existing \in BOOLEAN, CreateResolve(existing) PROVE PublishedBeforeCleanup
  BY <1>1 DEF CreateResolve
<1>2. CASE CreateClone
  BY <1>2 DEF CreateClone
<1>3. CASE Commit
  BY <1>3 DEF Commit, EngineIdle, Log
<1>4. CASE Approve
  BY <1>4 DEF Approve, EngineIdle
<1>5. CASE EndNode
  BY <1>5 DEF EndNode, EngineIdle, Log
<1>6. ASSUME NEW p \in Places, PublishBegin(p) PROVE PublishedBeforeCleanup
  BY <1>6 DEF PublishBegin, EngineIdle
<1>7. CASE PublishCheck
  BY <1>7 DEF PublishCheck, Suspend, Goto
<1>8. CASE PublishRead
  BY <1>8 DEF PublishRead, Goto
<1>9. CASE PublishRef
  BY <1>9 DEF PublishRef, GotoCleanup, Suspend, FastForward
<1>10. CASE PublishMerge
  BY <1>10 DEF PublishMerge, GotoCleanup, Suspend, FastForward, Includes
<1>11. CASE PublishElsewhere
  BY <1>11 DEF PublishElsewhere, GotoCleanup, Suspend
<1>12. CASE PublishPush
  BY <1>12 DEF PublishPush, GotoCleanup, Suspend, FastForward
<1>13. CASE Discard
  BY <1>13 DEF Discard, EngineIdle
<1>14. CASE BootClear
  BY <1>14 DEF BootClear, Fault
<1>15. CASE BootCreate
  BY <1>15 DEF BootCreate
<1>16. CASE BootLaunch
  BY <1>16 DEF BootLaunch
<1>17. CASE BootFails
  BY <1>17 DEF BootFails, Fault
<1>18. CASE FailEnds
  BY <1>18 DEF FailEnds
<1>19. CASE Talk
  BY <1>19 DEF Talk
<1>20. CASE CleanNode
  BY <1>20 DEF CleanNode, CleanGoto
<1>21. CASE CleanStop
  BY <1>21 DEF CleanStop, CleanGoto, EngineAway
<1>22. ASSUME NEW c \in Cleaners, CleanLock(c) PROVE PublishedBeforeCleanup
  BY <1>22 DEF CleanLock, CleanGoto, Deaf, Holds, Log
<1>23. ASSUME NEW c \in Cleaners, CleanExport(c) PROVE PublishedBeforeCleanup
  BY <1>23 DEF CleanExport, CleanGoto
<1>24. ASSUME NEW c \in Cleaners, CleanDestroy(c) PROVE PublishedBeforeCleanup
  BY <1>24 DEF CleanDestroy, CleanGoto, Deaf
<1>25. ASSUME NEW c \in Cleaners, CleanFail(c) PROVE PublishedBeforeCleanup
  BY <1>25 DEF CleanFail, CleanGoto, Deaf, Holds, Fault
<1>26. CASE CleanDeaf
  BY <1>26 DEF CleanDeaf, CleanGoto
<1>27. CASE NodeReturns
  BY <1>27 DEF NodeReturns, CleanGoto, Log
<1>28. CASE ReflectReturns
  BY <1>28 DEF ReflectReturns, CleanGoto
<1>29. ASSUME NEW op \in Operations, Halt(op) PROVE PublishedBeforeCleanup
  BY <1>29 DEF Halt, EngineAway
<1>30. CASE HaltDestroys
  BY <1>30 DEF HaltDestroys, CleanGoto, Fault
<1>31. CASE HaltEnds
  BY <1>31 DEF HaltEnds, CleanGoto, EngineAway, Fault
<1>32. CASE Resume
  BY <1>32 DEF Resume, EngineAway
<1>33. CASE Restart
  BY <1>33 DEF Restart, Fault
<1>34. CASE RecoverDestroys
  BY <1>34 DEF RecoverDestroys, Fault
<1>35. ASSUME NEW p \in Places, UserCommit(p) PROVE PublishedBeforeCleanup
  BY <1>35 DEF UserCommit
<1>36. CASE UserCheckout
  BY <1>36 DEF UserCheckout
<1>37. CASE UNCHANGED vars
  BY <1>37 DEF vars
<1> QED
  BY <1>1, <1>2, <1>3, <1>4, <1>5, <1>6, <1>7, <1>8, <1>9, <1>10,
     <1>11, <1>12, <1>13, <1>14, <1>15, <1>16, <1>17, <1>18, <1>19, <1>20,
     <1>21, <1>22, <1>23, <1>24, <1>25, <1>26, <1>27, <1>28, <1>29, <1>30,
     <1>31, <1>32, <1>33, <1>34, <1>35, <1>36, <1>37 DEF Next

\* The VM of a session goes after the exports.
LEMMA GoneStep == TypeOK /\ PhaseInv /\ ExportInv /\ [Next]_vars => ExportedBeforeGone
<1> SUFFICES ASSUME TypeOK, PhaseInv, ExportInv, [Next]_vars PROVE ExportedBeforeGone
  OBVIOUS
<1> USE BoundsAssumption DEF TypeOK, VM, NoVM, Tip, Idle, Places, Cleaners, Operations, Booting, runVars, gitVars, cleanVars, PhaseInv, NotBegun, ExportInv, Written, ExportedBeforeGone
<1>1. ASSUME NEW existing \in BOOLEAN, CreateResolve(existing) PROVE ExportedBeforeGone
  BY <1>1 DEF CreateResolve
<1>2. CASE CreateClone
  BY <1>2 DEF CreateClone
<1>3. CASE Commit
  BY <1>3 DEF Commit, EngineIdle, Log
<1>4. CASE Approve
  BY <1>4 DEF Approve, EngineIdle
<1>5. CASE EndNode
  BY <1>5 DEF EndNode, EngineIdle, Log
<1>6. ASSUME NEW p \in Places, PublishBegin(p) PROVE ExportedBeforeGone
  BY <1>6 DEF PublishBegin, EngineIdle
<1>7. CASE PublishCheck
  BY <1>7 DEF PublishCheck, Suspend, Goto
<1>8. CASE PublishRead
  BY <1>8 DEF PublishRead, Goto
<1>9. CASE PublishRef
  BY <1>9 DEF PublishRef, GotoCleanup, Suspend, FastForward
<1>10. CASE PublishMerge
  BY <1>10 DEF PublishMerge, GotoCleanup, Suspend, FastForward, Includes
<1>11. CASE PublishElsewhere
  BY <1>11 DEF PublishElsewhere, GotoCleanup, Suspend
<1>12. CASE PublishPush
  BY <1>12 DEF PublishPush, GotoCleanup, Suspend, FastForward
<1>13. CASE Discard
  BY <1>13 DEF Discard, EngineIdle
<1>14. CASE BootClear
  BY <1>14 DEF BootClear, Fault
<1>15. CASE BootCreate
  BY <1>15 DEF BootCreate
<1>16. CASE BootLaunch
  BY <1>16 DEF BootLaunch
<1>17. CASE BootFails
  BY <1>17 DEF BootFails, Fault
<1>18. CASE FailEnds
  BY <1>18 DEF FailEnds
<1>19. CASE Talk
  BY <1>19 DEF Talk
<1>20. CASE CleanNode
  BY <1>20 DEF CleanNode, CleanGoto
<1>21. CASE CleanStop
  BY <1>21 DEF CleanStop, CleanGoto, EngineAway
<1>22. ASSUME NEW c \in Cleaners, CleanLock(c) PROVE ExportedBeforeGone
  BY <1>22 DEF CleanLock, CleanGoto, Deaf, Holds, Log
<1>23. ASSUME NEW c \in Cleaners, CleanExport(c) PROVE ExportedBeforeGone
  BY <1>23 DEF CleanExport, CleanGoto
<1>24. ASSUME NEW c \in Cleaners, CleanDestroy(c) PROVE ExportedBeforeGone
  BY <1>24 DEF CleanDestroy, CleanGoto, Deaf
<1>25. ASSUME NEW c \in Cleaners, CleanFail(c) PROVE ExportedBeforeGone
  BY <1>25 DEF CleanFail, CleanGoto, Deaf, Holds, Fault
<1>26. CASE CleanDeaf
  BY <1>26 DEF CleanDeaf, CleanGoto
<1>27. CASE NodeReturns
  BY <1>27 DEF NodeReturns, CleanGoto, Log
<1>28. CASE ReflectReturns
  BY <1>28 DEF ReflectReturns, CleanGoto
<1>29. ASSUME NEW op \in Operations, Halt(op) PROVE ExportedBeforeGone
  BY <1>29 DEF Halt, EngineAway
<1>30. CASE HaltDestroys
  BY <1>30 DEF HaltDestroys, CleanGoto, Fault
<1>31. CASE HaltEnds
  BY <1>31 DEF HaltEnds, CleanGoto, EngineAway, Fault
<1>32. CASE Resume
  BY <1>32 DEF Resume, EngineAway
<1>33. CASE Restart
  BY <1>33 DEF Restart, Fault
<1>34. CASE RecoverDestroys
  BY <1>34 DEF RecoverDestroys, Fault
<1>35. ASSUME NEW p \in Places, UserCommit(p) PROVE ExportedBeforeGone
  BY <1>35 DEF UserCommit
<1>36. CASE UserCheckout
  BY <1>36 DEF UserCheckout
<1>37. CASE UNCHANGED vars
  BY <1>37 DEF vars
<1> QED
  BY <1>1, <1>2, <1>3, <1>4, <1>5, <1>6, <1>7, <1>8, <1>9, <1>10,
     <1>11, <1>12, <1>13, <1>14, <1>15, <1>16, <1>17, <1>18, <1>19, <1>20,
     <1>21, <1>22, <1>23, <1>24, <1>25, <1>26, <1>27, <1>28, <1>29, <1>30,
     <1>31, <1>32, <1>33, <1>34, <1>35, <1>36, <1>37 DEF Next

\* The records go after the exports.
LEMMA RemovedStep == TypeOK /\ PhaseInv /\ ExportInv /\ [Next]_vars => ExportedBeforeRemoved
<1> SUFFICES ASSUME TypeOK, PhaseInv, ExportInv, [Next]_vars PROVE ExportedBeforeRemoved
  OBVIOUS
<1> USE BoundsAssumption DEF TypeOK, VM, NoVM, Tip, Idle, Places, Cleaners, Operations, Booting, runVars, gitVars, cleanVars, PhaseInv, NotBegun, ExportInv, Written, ExportedBeforeRemoved
<1>1. ASSUME NEW existing \in BOOLEAN, CreateResolve(existing) PROVE ExportedBeforeRemoved
  BY <1>1 DEF CreateResolve
<1>2. CASE CreateClone
  BY <1>2 DEF CreateClone
<1>3. CASE Commit
  BY <1>3 DEF Commit, EngineIdle, Log
<1>4. CASE Approve
  BY <1>4 DEF Approve, EngineIdle
<1>5. CASE EndNode
  BY <1>5 DEF EndNode, EngineIdle, Log
<1>6. ASSUME NEW p \in Places, PublishBegin(p) PROVE ExportedBeforeRemoved
  BY <1>6 DEF PublishBegin, EngineIdle
<1>7. CASE PublishCheck
  BY <1>7 DEF PublishCheck, Suspend, Goto
<1>8. CASE PublishRead
  BY <1>8 DEF PublishRead, Goto
<1>9. CASE PublishRef
  BY <1>9 DEF PublishRef, GotoCleanup, Suspend, FastForward
<1>10. CASE PublishMerge
  BY <1>10 DEF PublishMerge, GotoCleanup, Suspend, FastForward, Includes
<1>11. CASE PublishElsewhere
  BY <1>11 DEF PublishElsewhere, GotoCleanup, Suspend
<1>12. CASE PublishPush
  BY <1>12 DEF PublishPush, GotoCleanup, Suspend, FastForward
<1>13. CASE Discard
  BY <1>13 DEF Discard, EngineIdle
<1>14. CASE BootClear
  BY <1>14 DEF BootClear, Fault
<1>15. CASE BootCreate
  BY <1>15 DEF BootCreate
<1>16. CASE BootLaunch
  BY <1>16 DEF BootLaunch
<1>17. CASE BootFails
  BY <1>17 DEF BootFails, Fault
<1>18. CASE FailEnds
  BY <1>18 DEF FailEnds
<1>19. CASE Talk
  BY <1>19 DEF Talk
<1>20. CASE CleanNode
  BY <1>20 DEF CleanNode, CleanGoto
<1>21. CASE CleanStop
  BY <1>21 DEF CleanStop, CleanGoto, EngineAway
<1>22. ASSUME NEW c \in Cleaners, CleanLock(c) PROVE ExportedBeforeRemoved
  BY <1>22 DEF CleanLock, CleanGoto, Deaf, Holds, Log
<1>23. ASSUME NEW c \in Cleaners, CleanExport(c) PROVE ExportedBeforeRemoved
  BY <1>23 DEF CleanExport, CleanGoto
<1>24. ASSUME NEW c \in Cleaners, CleanDestroy(c) PROVE ExportedBeforeRemoved
  BY <1>24 DEF CleanDestroy, CleanGoto, Deaf
<1>25. ASSUME NEW c \in Cleaners, CleanFail(c) PROVE ExportedBeforeRemoved
  BY <1>25 DEF CleanFail, CleanGoto, Deaf, Holds, Fault
<1>26. CASE CleanDeaf
  BY <1>26 DEF CleanDeaf, CleanGoto
<1>27. CASE NodeReturns
  BY <1>27 DEF NodeReturns, CleanGoto, Log
<1>28. CASE ReflectReturns
  BY <1>28 DEF ReflectReturns, CleanGoto
<1>29. ASSUME NEW op \in Operations, Halt(op) PROVE ExportedBeforeRemoved
  BY <1>29 DEF Halt, EngineAway
<1>30. CASE HaltDestroys
  BY <1>30 DEF HaltDestroys, CleanGoto, Fault
<1>31. CASE HaltEnds
  BY <1>31 DEF HaltEnds, CleanGoto, EngineAway, Fault
<1>32. CASE Resume
  BY <1>32 DEF Resume, EngineAway
<1>33. CASE Restart
  BY <1>33 DEF Restart, Fault
<1>34. CASE RecoverDestroys
  BY <1>34 DEF RecoverDestroys, Fault
<1>35. ASSUME NEW p \in Places, UserCommit(p) PROVE ExportedBeforeRemoved
  BY <1>35 DEF UserCommit
<1>36. CASE UserCheckout
  BY <1>36 DEF UserCheckout
<1>37. CASE UNCHANGED vars
  BY <1>37 DEF vars
<1> QED
  BY <1>1, <1>2, <1>3, <1>4, <1>5, <1>6, <1>7, <1>8, <1>9, <1>10,
     <1>11, <1>12, <1>13, <1>14, <1>15, <1>16, <1>17, <1>18, <1>19, <1>20,
     <1>21, <1>22, <1>23, <1>24, <1>25, <1>26, <1>27, <1>28, <1>29, <1>30,
     <1>31, <1>32, <1>33, <1>34, <1>35, <1>36, <1>37 DEF Next

(***************************************************************************)
(* The theorems                                                            *)
(***************************************************************************)

\* The invariant above: who is at work in which state of a workspace, of its run and of
\* its VM, over boots, failures, operations and restarts (runner.go, Cleanup;
\* lifecycle.go, stopRun, recoverInterrupted; boot.go, boot).
THEOREM PublishHolds == Spec => []PublishInv
<1>1. Init => PublishInv
  BY PublishInit
<1>2. PublishInv /\ [Next]_vars => PublishInv'
  BY TypeStep, PhaseStep, HeadStep, ExportStep, WorkTreeStep, DoneStep DEF PublishInv
<1> QED
  BY <1>1, <1>2, PTL DEF Spec

\* Publishing moves a branch of the user's to the approved commit and over none of the
\* user's own, and a checked out branch with its working tree, whatever the user, the
\* remote and Stop do in between (staging/publish.go, PublishLocal, PushRemote).
THEOREM UsersWorkIsKept == Spec => PublishKeepsUsersWork
<1>1. PublishInv /\ [Next]_vars => MovesToApproved
  BY MovesStep DEF PublishInv
<1>2. PublishInv => WorkTreeFollows
  BY DEF PublishInv
<1>3. Spec => []WorkTreeFollows
  BY PublishHolds, <1>2, PTL
<1>4. Spec => PublishIsFastForwardOfApproved
  BY PublishHolds, <1>1, PTL DEF Spec, PublishIsFastForwardOfApproved
<1> QED
  BY <1>3, <1>4, PTL DEF PublishKeepsUsersWork

\* The VM of a session, and the records, go after the transcripts and the log were written
\* out, but for the VM that a serve left active and that a failed boot or a recovery comes
\* upon; the node cleans up after it has published; DONE is seen after both
\* (runner.go, Publish, Cleanup; run.go, reflect; lifecycle.go, stopRun).
THEOREM NothingIsLost == Spec => NothingLostAtTheEnd
<1>1. PublishInv /\ [Next]_vars => PublishedBeforeCleanup /\ ExportedBeforeGone /\ ExportedBeforeRemoved
  BY PublishedStep, GoneStep, RemovedStep DEF PublishInv
<1>2. PublishInv => DoneIsExported
  BY DEF PublishInv
<1>3. Spec => []DoneIsExported
  BY PublishHolds, <1>2, PTL
<1>4. Spec => NothingLostWithVM
  BY PublishHolds, <1>1, PTL DEF Spec, NothingLostWithVM
<1> QED
  BY <1>3, <1>4, PTL DEF NothingLostAtTheEnd

(***************************************************************************)
(* The serve process: the inductive invariant                              *)
(***************************************************************************)

\* What a name leads to: a process that listens, or one that has ended.
NameInv == sock # Nobody => at[sock] \in Listening \cup {"ended"}

\* A file that was found stale is that of a process that has ended.
StaleInv == \A p \in Procs : at[p] = "remove" => seen[p] \in Procs /\ at[seen[p]] = "ended"

\* Requests and boots are of processes whose backend is there, or, if one was cut, that
\* are about to end.
WorkInv ==
    \A p \in Procs :
        /\ at[p] \notin Open \cup {"unlink"} => req[p] = "none" /\ ~boot[p]
        /\ at[p] \in {"closing", "unlink"} /\ "cut" \notin mishap => req[p] = "none"
        /\ at[p] = "unlink" /\ "cut" \notin mishap => ~boot[p]

\* Nobody's name has been taken.
Named == mishap \cap {"raced", "closing", "unlinked"} = {}

NamedInv == Named => \A p \in Procs : at[p] \in Listening => sock = p

\* Whoever has a backend is alone.
AloneInv == Named => \A p, q \in Procs : at[p] \in Open /\ at[q] \in Open => p = q

\* A service that has been checked has not been swapped.
ContractInv ==
    "swapped" \notin mishap =>
        \A p \in Procs : boot[p] \/ req[p] = "checked" => service = "same"

SocketInv == ServerTypeOK /\ NameInv /\ StaleInv /\ WorkInv /\ NamedInv /\ AloneInv

LEMMA SocketInit == ServerInit => SocketInv /\ ContractInv
BY ProcsAssumption, ServerBoundsAssumption
   DEF ServerInit, SocketInv, ServerTypeOK, NameInv, StaleInv, WorkInv, NamedInv, AloneInv, ContractInv,
       Open, Listening, Configs, Services, Mishaps, Nobody

(***************************************************************************)
(* Types                                                                   *)
(***************************************************************************)

\* Every step keeps the types.
LEMMA ServerTypeStep == ServerTypeOK /\ [ServerNext]_serverVars => ServerTypeOK'
<1> SUFFICES ASSUME ServerTypeOK, [ServerNext]_serverVars PROVE ServerTypeOK'
  OBVIOUS
<1> USE ProcsAssumption, ServerBoundsAssumption DEF ServerTypeOK, Open, Listening, Mishaps
<1>1. ASSUME NEW p \in Procs, Launch(p) PROVE ServerTypeOK'
  BY <1>1 DEF Launch, Goes
<1>2. ASSUME NEW p \in Procs, Look(p) PROVE ServerTypeOK'
  BY <1>2 DEF Look, Goes
<1>3. ASSUME NEW p \in Procs, RemoveStaleSocket(p) PROVE ServerTypeOK'
  BY <1>3 DEF RemoveStaleSocket, Goes
<1>4. ASSUME NEW p \in Procs, Connect(p) PROVE ServerTypeOK'
  BY <1>4 DEF Connect, Goes
<1>5. ASSUME NEW p \in Procs, ListenPort(p) PROVE ServerTypeOK'
  BY <1>5 DEF ListenPort, Goes
<1>6. ASSUME NEW p \in Procs, Bind(p) PROVE ServerTypeOK'
  BY <1>6 DEF Bind, Ends, Goes
<1>7. ASSUME NEW p \in Procs, Recover(p) PROVE ServerTypeOK'
  <2>1. CASE Goes(p, "serving") /\ UNCHANGED <<sock, port, req, boot, mishap>>
    BY <1>7, <2>1 DEF Recover, Goes
  <2>2. CASE Unlinks(p) /\ Ends(p)
    BY <1>7, <2>2 DEF Recover, Unlinks, Ends, Goes
  <2> QED
    BY <1>7, <2>1, <2>2 DEF Recover
<1>8. ASSUME NEW p \in Procs, CheckSandbox(p) PROVE ServerTypeOK'
  BY <1>8 DEF CheckSandbox
<1>9. ASSUME NEW p \in Procs, GoBackground(p) PROVE ServerTypeOK'
  BY <1>9 DEF GoBackground
<1>10. ASSUME NEW p \in Procs, BootEnds(p) PROVE ServerTypeOK'
  BY <1>10 DEF BootEnds
<1>11. ASSUME NEW p \in Procs, StopBegins(p) PROVE ServerTypeOK'
  BY <1>11 DEF StopBegins, Goes
<1>12. ASSUME NEW p \in Procs, CloseListener(p) PROVE ServerTypeOK'
  BY <1>12 DEF CloseListener, Goes, Unlinks
<1>13. ASSUME NEW p \in Procs, Drained(p) PROVE ServerTypeOK'
  BY <1>13 DEF Drained, Goes
<1>14. ASSUME NEW p \in Procs, CloseBackend(p) PROVE ServerTypeOK'
  BY <1>14 DEF CloseBackend, Goes
<1>15. ASSUME NEW p \in Procs, RemoveSocket(p) PROVE ServerTypeOK'
  BY <1>15 DEF RemoveSocket, Unlinks, Ends, Goes
<1>16. ASSUME NEW p \in Procs, Crash(p) PROVE ServerTypeOK'
  BY <1>16 DEF Crash, Ends, Goes
<1>17. ASSUME NEW p \in Procs, Ask(p) PROVE ServerTypeOK'
  BY <1>17 DEF Ask
<1>18. ASSUME NEW s \in Services, Swap(s) PROVE ServerTypeOK'
  BY <1>18 DEF Swap, procVars
<1>19. CASE UNCHANGED serverVars
  BY <1>19 DEF serverVars, procVars
<1>20. QED
  BY <1>1, <1>2, <1>3, <1>4, <1>5, <1>6, <1>7, <1>8, <1>9, <1>10,
     <1>11, <1>12, <1>13, <1>14, <1>15, <1>16, <1>17, <1>18, <1>19 DEF ServerNext

(***************************************************************************)
(* The parts                                                               *)
(***************************************************************************)

\* The name is given by Bind; whoever has it listens until it ends.
LEMMA NameStep == SocketInv /\ [ServerNext]_serverVars => NameInv'
<1> SUFFICES ASSUME SocketInv, [ServerNext]_serverVars PROVE NameInv'
  OBVIOUS
<1> USE ProcsAssumption, ServerBoundsAssumption DEF SocketInv, NameInv, ServerTypeOK, Open, Listening
<1>1. ASSUME NEW p \in Procs, Launch(p) PROVE NameInv'
  BY <1>1 DEF Launch, Goes
<1>2. ASSUME NEW p \in Procs, Look(p) PROVE NameInv'
  BY <1>2 DEF Look, Goes
<1>3. ASSUME NEW p \in Procs, RemoveStaleSocket(p) PROVE NameInv'
  BY <1>3 DEF RemoveStaleSocket, Goes
<1>4. ASSUME NEW p \in Procs, Connect(p) PROVE NameInv'
  BY <1>4 DEF Connect, Goes
<1>5. ASSUME NEW p \in Procs, ListenPort(p) PROVE NameInv'
  BY <1>5 DEF ListenPort, Goes
<1>6. ASSUME NEW p \in Procs, Bind(p) PROVE NameInv'
  BY <1>6 DEF Bind, Ends, Goes
<1>7. ASSUME NEW p \in Procs, Recover(p) PROVE NameInv'
  BY <1>7 DEF Recover, Unlinks, Ends, Goes
<1>8. ASSUME NEW p \in Procs, CheckSandbox(p) PROVE NameInv'
  BY <1>8 DEF CheckSandbox
<1>9. ASSUME NEW p \in Procs, GoBackground(p) PROVE NameInv'
  BY <1>9 DEF GoBackground
<1>10. ASSUME NEW p \in Procs, BootEnds(p) PROVE NameInv'
  BY <1>10 DEF BootEnds
<1>11. ASSUME NEW p \in Procs, StopBegins(p) PROVE NameInv'
  BY <1>11 DEF StopBegins, Goes
<1>12. ASSUME NEW p \in Procs, CloseListener(p) PROVE NameInv'
  BY <1>12 DEF CloseListener, Goes, Unlinks
<1>13. ASSUME NEW p \in Procs, Drained(p) PROVE NameInv'
  BY <1>13 DEF Drained, Goes
<1>14. ASSUME NEW p \in Procs, CloseBackend(p) PROVE NameInv'
  BY <1>14 DEF CloseBackend, Goes
<1>15. ASSUME NEW p \in Procs, RemoveSocket(p) PROVE NameInv'
  BY <1>15 DEF RemoveSocket, Unlinks, Ends, Goes
<1>16. ASSUME NEW p \in Procs, Crash(p) PROVE NameInv'
  BY <1>16 DEF Crash, Ends, Goes
<1>17. ASSUME NEW p \in Procs, Ask(p) PROVE NameInv'
  BY <1>17 DEF Ask
<1>18. ASSUME NEW s \in Services, Swap(s) PROVE NameInv'
  BY <1>18 DEF Swap, procVars
<1>19. CASE UNCHANGED serverVars
  BY <1>19 DEF serverVars, procVars
<1>20. QED
  BY <1>1, <1>2, <1>3, <1>4, <1>5, <1>6, <1>7, <1>8, <1>9, <1>10,
     <1>11, <1>12, <1>13, <1>14, <1>15, <1>16, <1>17, <1>18, <1>19 DEF ServerNext

\* What Look found stale has ended, and stays so.
LEMMA StaleStep == SocketInv /\ [ServerNext]_serverVars => StaleInv'
<1> SUFFICES ASSUME SocketInv, [ServerNext]_serverVars PROVE StaleInv'
  OBVIOUS
<1> USE ProcsAssumption, ServerBoundsAssumption DEF SocketInv, NameInv, StaleInv, ServerTypeOK, Open, Listening
<1>1. ASSUME NEW p \in Procs, Launch(p) PROVE StaleInv'
  BY <1>1 DEF Launch, Goes
<1>2. ASSUME NEW p \in Procs, Look(p) PROVE StaleInv'
  BY <1>2 DEF Look, Goes
<1>3. ASSUME NEW p \in Procs, RemoveStaleSocket(p) PROVE StaleInv'
  BY <1>3 DEF RemoveStaleSocket, Goes
<1>4. ASSUME NEW p \in Procs, Connect(p) PROVE StaleInv'
  BY <1>4 DEF Connect, Goes
<1>5. ASSUME NEW p \in Procs, ListenPort(p) PROVE StaleInv'
  BY <1>5 DEF ListenPort, Goes
<1>6. ASSUME NEW p \in Procs, Bind(p) PROVE StaleInv'
  BY <1>6 DEF Bind, Ends, Goes
<1>7. ASSUME NEW p \in Procs, Recover(p) PROVE StaleInv'
  BY <1>7 DEF Recover, Unlinks, Ends, Goes
<1>8. ASSUME NEW p \in Procs, CheckSandbox(p) PROVE StaleInv'
  BY <1>8 DEF CheckSandbox
<1>9. ASSUME NEW p \in Procs, GoBackground(p) PROVE StaleInv'
  BY <1>9 DEF GoBackground
<1>10. ASSUME NEW p \in Procs, BootEnds(p) PROVE StaleInv'
  BY <1>10 DEF BootEnds
<1>11. ASSUME NEW p \in Procs, StopBegins(p) PROVE StaleInv'
  BY <1>11 DEF StopBegins, Goes
<1>12. ASSUME NEW p \in Procs, CloseListener(p) PROVE StaleInv'
  BY <1>12 DEF CloseListener, Goes, Unlinks
<1>13. ASSUME NEW p \in Procs, Drained(p) PROVE StaleInv'
  BY <1>13 DEF Drained, Goes
<1>14. ASSUME NEW p \in Procs, CloseBackend(p) PROVE StaleInv'
  BY <1>14 DEF CloseBackend, Goes
<1>15. ASSUME NEW p \in Procs, RemoveSocket(p) PROVE StaleInv'
  BY <1>15 DEF RemoveSocket, Unlinks, Ends, Goes
<1>16. ASSUME NEW p \in Procs, Crash(p) PROVE StaleInv'
  BY <1>16 DEF Crash, Ends, Goes
<1>17. ASSUME NEW p \in Procs, Ask(p) PROVE StaleInv'
  BY <1>17 DEF Ask
<1>18. ASSUME NEW s \in Services, Swap(s) PROVE StaleInv'
  BY <1>18 DEF Swap, procVars
<1>19. CASE UNCHANGED serverVars
  BY <1>19 DEF serverVars, procVars
<1>20. QED
  BY <1>1, <1>2, <1>3, <1>4, <1>5, <1>6, <1>7, <1>8, <1>9, <1>10,
     <1>11, <1>12, <1>13, <1>14, <1>15, <1>16, <1>17, <1>18, <1>19 DEF ServerNext

\* Requests and boots begin and end with the backend.
LEMMA WorkStep == SocketInv /\ [ServerNext]_serverVars => WorkInv'
<1> SUFFICES ASSUME SocketInv, [ServerNext]_serverVars PROVE WorkInv'
  OBVIOUS
<1> USE ProcsAssumption, ServerBoundsAssumption DEF SocketInv, WorkInv, ServerTypeOK, Open, Listening
<1>1. ASSUME NEW p \in Procs, Launch(p) PROVE WorkInv'
  BY <1>1 DEF Launch, Goes
<1>2. ASSUME NEW p \in Procs, Look(p) PROVE WorkInv'
  BY <1>2 DEF Look, Goes
<1>3. ASSUME NEW p \in Procs, RemoveStaleSocket(p) PROVE WorkInv'
  BY <1>3 DEF RemoveStaleSocket, Goes
<1>4. ASSUME NEW p \in Procs, Connect(p) PROVE WorkInv'
  BY <1>4 DEF Connect, Goes
<1>5. ASSUME NEW p \in Procs, ListenPort(p) PROVE WorkInv'
  BY <1>5 DEF ListenPort, Goes
<1>6. ASSUME NEW p \in Procs, Bind(p) PROVE WorkInv'
  BY <1>6 DEF Bind, Ends, Goes
<1>7. ASSUME NEW p \in Procs, Recover(p) PROVE WorkInv'
  BY <1>7 DEF Recover, Unlinks, Ends, Goes
<1>8. ASSUME NEW p \in Procs, CheckSandbox(p) PROVE WorkInv'
  BY <1>8 DEF CheckSandbox
<1>9. ASSUME NEW p \in Procs, GoBackground(p) PROVE WorkInv'
  BY <1>9 DEF GoBackground
<1>10. ASSUME NEW p \in Procs, BootEnds(p) PROVE WorkInv'
  BY <1>10 DEF BootEnds
<1>11. ASSUME NEW p \in Procs, StopBegins(p) PROVE WorkInv'
  BY <1>11 DEF StopBegins, Goes
<1>12. ASSUME NEW p \in Procs, CloseListener(p) PROVE WorkInv'
  BY <1>12 DEF CloseListener, Goes, Unlinks
<1>13. ASSUME NEW p \in Procs, Drained(p) PROVE WorkInv'
  BY <1>13 DEF Drained, Goes
<1>14. ASSUME NEW p \in Procs, CloseBackend(p) PROVE WorkInv'
  BY <1>14 DEF CloseBackend, Goes
<1>15. ASSUME NEW p \in Procs, RemoveSocket(p) PROVE WorkInv'
  BY <1>15 DEF RemoveSocket, Unlinks, Ends, Goes
<1>16. ASSUME NEW p \in Procs, Crash(p) PROVE WorkInv'
  BY <1>16 DEF Crash, Ends, Goes
<1>17. ASSUME NEW p \in Procs, Ask(p) PROVE WorkInv'
  BY <1>17 DEF Ask
<1>18. ASSUME NEW s \in Services, Swap(s) PROVE WorkInv'
  BY <1>18 DEF Swap, procVars
<1>19. CASE UNCHANGED serverVars
  BY <1>19 DEF serverVars, procVars
<1>20. QED
  BY <1>1, <1>2, <1>3, <1>4, <1>5, <1>6, <1>7, <1>8, <1>9, <1>10,
     <1>11, <1>12, <1>13, <1>14, <1>15, <1>16, <1>17, <1>18, <1>19 DEF ServerNext

\* Who loses a name it listens at loses it to a mishap.
LEMMA NamedStep == SocketInv /\ [ServerNext]_serverVars => NamedInv'
<1> SUFFICES ASSUME SocketInv, [ServerNext]_serverVars PROVE NamedInv'
  OBVIOUS
<1> USE ProcsAssumption, ServerBoundsAssumption DEF SocketInv, NameInv, StaleInv, NamedInv, Named, ServerTypeOK, Open, Listening
<1>1. ASSUME NEW p \in Procs, Launch(p) PROVE NamedInv'
  BY <1>1 DEF Launch, Goes
<1>2. ASSUME NEW p \in Procs, Look(p) PROVE NamedInv'
  BY <1>2 DEF Look, Goes
<1>3. ASSUME NEW p \in Procs, RemoveStaleSocket(p) PROVE NamedInv'
  BY <1>3 DEF RemoveStaleSocket, Goes
<1>4. ASSUME NEW p \in Procs, Connect(p) PROVE NamedInv'
  BY <1>4 DEF Connect, Goes
<1>5. ASSUME NEW p \in Procs, ListenPort(p) PROVE NamedInv'
  BY <1>5 DEF ListenPort, Goes
<1>6. ASSUME NEW p \in Procs, Bind(p) PROVE NamedInv'
  BY <1>6 DEF Bind, Ends, Goes
<1>7. ASSUME NEW p \in Procs, Recover(p) PROVE NamedInv'
  BY <1>7 DEF Recover, Unlinks, Ends, Goes
<1>8. ASSUME NEW p \in Procs, CheckSandbox(p) PROVE NamedInv'
  BY <1>8 DEF CheckSandbox
<1>9. ASSUME NEW p \in Procs, GoBackground(p) PROVE NamedInv'
  BY <1>9 DEF GoBackground
<1>10. ASSUME NEW p \in Procs, BootEnds(p) PROVE NamedInv'
  BY <1>10 DEF BootEnds
<1>11. ASSUME NEW p \in Procs, StopBegins(p) PROVE NamedInv'
  BY <1>11 DEF StopBegins, Goes
<1>12. ASSUME NEW p \in Procs, CloseListener(p) PROVE NamedInv'
  BY <1>12 DEF CloseListener, Goes, Unlinks
<1>13. ASSUME NEW p \in Procs, Drained(p) PROVE NamedInv'
  BY <1>13 DEF Drained, Goes
<1>14. ASSUME NEW p \in Procs, CloseBackend(p) PROVE NamedInv'
  BY <1>14 DEF CloseBackend, Goes
<1>15. ASSUME NEW p \in Procs, RemoveSocket(p) PROVE NamedInv'
  BY <1>15 DEF RemoveSocket, Unlinks, Ends, Goes
<1>16. ASSUME NEW p \in Procs, Crash(p) PROVE NamedInv'
  BY <1>16 DEF Crash, Ends, Goes
<1>17. ASSUME NEW p \in Procs, Ask(p) PROVE NamedInv'
  BY <1>17 DEF Ask
<1>18. ASSUME NEW s \in Services, Swap(s) PROVE NamedInv'
  BY <1>18 DEF Swap, procVars
<1>19. CASE UNCHANGED serverVars
  BY <1>19 DEF serverVars, procVars
<1>20. QED
  BY <1>1, <1>2, <1>3, <1>4, <1>5, <1>6, <1>7, <1>8, <1>9, <1>10,
     <1>11, <1>12, <1>13, <1>14, <1>15, <1>16, <1>17, <1>18, <1>19 DEF ServerNext

\* Bind finds nobody that has a backend.
LEMMA AloneStep == SocketInv /\ [ServerNext]_serverVars => AloneInv'
<1> SUFFICES ASSUME SocketInv, [ServerNext]_serverVars PROVE AloneInv'
  OBVIOUS
<1> USE ProcsAssumption, ServerBoundsAssumption DEF SocketInv, NamedInv, AloneInv, Named, ServerTypeOK, Open, Listening
<1>1. ASSUME NEW p \in Procs, Launch(p) PROVE AloneInv'
  BY <1>1 DEF Launch, Goes
<1>2. ASSUME NEW p \in Procs, Look(p) PROVE AloneInv'
  BY <1>2 DEF Look, Goes
<1>3. ASSUME NEW p \in Procs, RemoveStaleSocket(p) PROVE AloneInv'
  BY <1>3 DEF RemoveStaleSocket, Goes
<1>4. ASSUME NEW p \in Procs, Connect(p) PROVE AloneInv'
  BY <1>4 DEF Connect, Goes
<1>5. ASSUME NEW p \in Procs, ListenPort(p) PROVE AloneInv'
  BY <1>5 DEF ListenPort, Goes
<1>6. ASSUME NEW p \in Procs, Bind(p) PROVE AloneInv'
  BY <1>6 DEF Bind, Ends, Goes
<1>7. ASSUME NEW p \in Procs, Recover(p) PROVE AloneInv'
  BY <1>7 DEF Recover, Unlinks, Ends, Goes
<1>8. ASSUME NEW p \in Procs, CheckSandbox(p) PROVE AloneInv'
  BY <1>8 DEF CheckSandbox
<1>9. ASSUME NEW p \in Procs, GoBackground(p) PROVE AloneInv'
  BY <1>9 DEF GoBackground
<1>10. ASSUME NEW p \in Procs, BootEnds(p) PROVE AloneInv'
  BY <1>10 DEF BootEnds
<1>11. ASSUME NEW p \in Procs, StopBegins(p) PROVE AloneInv'
  BY <1>11 DEF StopBegins, Goes
<1>12. ASSUME NEW p \in Procs, CloseListener(p) PROVE AloneInv'
  BY <1>12 DEF CloseListener, Goes, Unlinks
<1>13. ASSUME NEW p \in Procs, Drained(p) PROVE AloneInv'
  BY <1>13 DEF Drained, Goes
<1>14. ASSUME NEW p \in Procs, CloseBackend(p) PROVE AloneInv'
  BY <1>14 DEF CloseBackend, Goes
<1>15. ASSUME NEW p \in Procs, RemoveSocket(p) PROVE AloneInv'
  BY <1>15 DEF RemoveSocket, Unlinks, Ends, Goes
<1>16. ASSUME NEW p \in Procs, Crash(p) PROVE AloneInv'
  BY <1>16 DEF Crash, Ends, Goes
<1>17. ASSUME NEW p \in Procs, Ask(p) PROVE AloneInv'
  BY <1>17 DEF Ask
<1>18. ASSUME NEW s \in Services, Swap(s) PROVE AloneInv'
  BY <1>18 DEF Swap, procVars
<1>19. CASE UNCHANGED serverVars
  BY <1>19 DEF serverVars, procVars
<1>20. QED
  BY <1>1, <1>2, <1>3, <1>4, <1>5, <1>6, <1>7, <1>8, <1>9, <1>10,
     <1>11, <1>12, <1>13, <1>14, <1>15, <1>16, <1>17, <1>18, <1>19 DEF ServerNext

\* What was checked is what is booted on.
LEMMA ContractStep == ServerTypeOK /\ ContractInv /\ [ServerNext]_serverVars => ContractInv'
<1> SUFFICES ASSUME ServerTypeOK /\ ContractInv, [ServerNext]_serverVars PROVE ContractInv'
  OBVIOUS
<1> USE ProcsAssumption, ServerBoundsAssumption DEF ContractInv, CheckContract, ServerTypeOK, Open, Listening
<1>1. ASSUME NEW p \in Procs, Launch(p) PROVE ContractInv'
  BY <1>1 DEF Launch, Goes
<1>2. ASSUME NEW p \in Procs, Look(p) PROVE ContractInv'
  BY <1>2 DEF Look, Goes
<1>3. ASSUME NEW p \in Procs, RemoveStaleSocket(p) PROVE ContractInv'
  BY <1>3 DEF RemoveStaleSocket, Goes
<1>4. ASSUME NEW p \in Procs, Connect(p) PROVE ContractInv'
  BY <1>4 DEF Connect, Goes
<1>5. ASSUME NEW p \in Procs, ListenPort(p) PROVE ContractInv'
  BY <1>5 DEF ListenPort, Goes
<1>6. ASSUME NEW p \in Procs, Bind(p) PROVE ContractInv'
  BY <1>6 DEF Bind, Ends, Goes
<1>7. ASSUME NEW p \in Procs, Recover(p) PROVE ContractInv'
  BY <1>7 DEF Recover, Unlinks, Ends, Goes
<1>8. ASSUME NEW p \in Procs, CheckSandbox(p) PROVE ContractInv'
  BY <1>8 DEF CheckSandbox
<1>9. ASSUME NEW p \in Procs, GoBackground(p) PROVE ContractInv'
  BY <1>9 DEF GoBackground
<1>10. ASSUME NEW p \in Procs, BootEnds(p) PROVE ContractInv'
  BY <1>10 DEF BootEnds
<1>11. ASSUME NEW p \in Procs, StopBegins(p) PROVE ContractInv'
  BY <1>11 DEF StopBegins, Goes
<1>12. ASSUME NEW p \in Procs, CloseListener(p) PROVE ContractInv'
  BY <1>12 DEF CloseListener, Goes, Unlinks
<1>13. ASSUME NEW p \in Procs, Drained(p) PROVE ContractInv'
  BY <1>13 DEF Drained, Goes
<1>14. ASSUME NEW p \in Procs, CloseBackend(p) PROVE ContractInv'
  BY <1>14 DEF CloseBackend, Goes
<1>15. ASSUME NEW p \in Procs, RemoveSocket(p) PROVE ContractInv'
  BY <1>15 DEF RemoveSocket, Unlinks, Ends, Goes
<1>16. ASSUME NEW p \in Procs, Crash(p) PROVE ContractInv'
  BY <1>16 DEF Crash, Ends, Goes
<1>17. ASSUME NEW p \in Procs, Ask(p) PROVE ContractInv'
  BY <1>17 DEF Ask
<1>18. ASSUME NEW s \in Services, Swap(s) PROVE ContractInv'
  BY <1>18 DEF Swap, procVars
<1>19. CASE UNCHANGED serverVars
  BY <1>19 DEF serverVars, procVars
<1>20. QED
  BY <1>1, <1>2, <1>3, <1>4, <1>5, <1>6, <1>7, <1>8, <1>9, <1>10,
     <1>11, <1>12, <1>13, <1>14, <1>15, <1>16, <1>17, <1>18, <1>19 DEF ServerNext

(***************************************************************************)
(* The theorems                                                            *)
(***************************************************************************)

\* The states of serve's processes are typed: for any number of processes.
THEOREM ServerTypesHold == ServerSpec => []ServerTypeOK
<1>1. ServerInit => ServerTypeOK
  BY SocketInit DEF SocketInv
<1>2. QED
  BY <1>1, ServerTypeStep, PTL DEF ServerSpec

THEOREM SocketHolds == ServerSpec => []SocketInv
<1>1. ServerInit => SocketInv
  BY SocketInit
<1>2. SocketInv /\ [ServerNext]_serverVars => SocketInv'
  BY ServerTypeStep, NameStep, StaleStep, WorkStep, NamedStep, AloneStep DEF SocketInv
<1>3. QED
  BY <1>1, <1>2, PTL DEF ServerSpec

LEMMA SocketGives == SocketInv => OneServeIsReachedUnlessMishap
<1> SUFFICES ASSUME SocketInv PROVE OneServeIsReachedUnlessMishap
  OBVIOUS
<1>1. ServingIsReachedUnlessMishap
  BY DEF SocketInv, NamedInv, Named, ServingIsReachedUnlessMishap
<1>2. OneServeUnlessMishap
  <2> SUFFICES ASSUME mishap \cap {"raced", "closing", "unlinked", "cut"} = {},
                      NEW p \in Procs, NEW q \in Procs, p # q, at[p] \in Open
               PROVE ~Works(q)
    BY DEF OneServeUnlessMishap
  <2>1. Named /\ "cut" \notin mishap
    BY DEF Named
  <2>2. at[q] \notin Open
    BY <2>1 DEF SocketInv, AloneInv
  <2>3. req[q] = "none" /\ ~boot[q]
    BY <2>1, <2>2 DEF SocketInv, WorkInv
  <2> QED
    BY <2>2, <2>3 DEF Works
<1> QED
  BY <1>1, <1>2 DEF OneServeIsReachedUnlessMishap

\* One process works on a data directory and clients find it at the socket, however many
\* are started, stopped and killed, as long as none of the four races happens
\* (serve/serve.go, Start, removeStaleSocket, Stop).
THEOREM OneServeIsReached == ServerSpec => []OneServeIsReachedUnlessMishap
BY SocketHolds, SocketGives, PTL

\* A boot goes to a service of serve's own contract, whatever the service was before and
\* whenever it is exchanged, unless between the check and the boot
\* (serve/sandbox.go, checkSandbox).
THEOREM BootsOnOwnContract == ServerSpec => []BootsOnOwnContractUnlessMishap
<1>1. ServerInit => ServerTypeOK /\ ContractInv
  BY SocketInit DEF SocketInv
<1>2. ServerTypeOK /\ ContractInv /\ [ServerNext]_serverVars => (ServerTypeOK /\ ContractInv)'
  BY ServerTypeStep, ContractStep
<1>3. ContractInv => BootsOnOwnContractUnlessMishap
  BY DEF ContractInv, BootsOnOwnContractUnlessMishap
<1> QED
  BY <1>1, <1>2, <1>3, PTL DEF ServerSpec
=============================================================================
