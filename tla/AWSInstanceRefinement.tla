------------------------- MODULE AWSInstanceRefinement -------------------------
(***************************************************************************)
(* Proof that the AWSInstance lifecycle implements AbstractInstance under  *)
(* the mapping aCloud <- cloud, aHeld <- instance, aAbandoned <- abandoned.*)
(***************************************************************************)
EXTENDS AWSInstanceProofs

(* self.instance is unset exactly while the provider has no instance, and *)
(* run-instances is sent only while there is none.                         *)
UnsetIffNone == (instance = "unset") = (cloud = "none")

RunFresh == pc = "run" => cloud = "none"

(* Past run-instances, until the process ends, the instance exists.       *)
Launched == pc \notin {"run", "end"} => cloud # "none"

(* A terminate() frame waiting for its terminate-instances request sent   *)
(* it for the id self.instance still holds, unless the instance is        *)
(* already terminated: only a nested call that saw the termination clears *)
(* self.instance, and abandon() runs with no frame active.                 *)
WaitFramesHeld ==
    \A i \in 1..Len(stack) :
        stack[i] = "wait" => instance = "id" \/ cloud = "terminated"

RInv == IInv /\ UnsetIffNone /\ RunFresh /\ Launched /\ WaitFramesHeld

-----------------------------------------------------------------------------
(* A step that keeps self.instance and the provider state, or terminates  *)
(* the instance, and leaves no new "wait" frame keeps WaitFramesHeld.      *)
LEMMA WFHKept ==
    ASSUME WaitFramesHeld,
           (instance' = instance /\ cloud' = cloud) \/ cloud' = "terminated",
           \/ stack' = stack
           \/ stack' = << >>
           \/ stack' = <<"check">>
    PROVE  WaitFramesHeld'
<1>1. CASE stack' = stack
  BY <1>1 DEF WaitFramesHeld
<1>2. CASE stack' = << >>
  BY <1>2 DEF WaitFramesHeld
<1>3. CASE stack' = <<"check">>
  BY <1>3 DEF WaitFramesHeld
<1>4. QED
  BY <1>1, <1>2, <1>3

(* Moving the innermost frame keeps WaitFramesHeld when the new control    *)
(* point is "wait" only for a held id.                                     *)
LEMMA WFHSetTop ==
    ASSUME WaitFramesHeld, stack \in Seq(FramePcs), stack # << >>,
           NEW f \in FramePcs, SetTop(f),
           f = "wait" => instance' = "id" \/ cloud' = "terminated",
           (instance' = instance /\ cloud' = cloud) \/ cloud' = "terminated"
    PROVE  WaitFramesHeld'
<1> SUFFICES ASSUME NEW i \in 1..Len(stack'), stack'[i] = "wait"
             PROVE  instance' = "id" \/ cloud' = "terminated"
  BY DEF WaitFramesHeld
<1>1. /\ Len(stack') = Len(stack)
      /\ stack'[i] = IF i = Len(stack) THEN f ELSE stack[i]
  BY SetTopLemma DEF SetTop
<1>2. CASE i = Len(stack)
  BY <1>1, <1>2
<1>3. CASE i # Len(stack)
  <2>1. stack[i] = "wait" /\ i \in 1..Len(stack)
    BY <1>1, <1>3
  <2>2. instance = "id" \/ cloud = "terminated"
    BY <2>1 DEF WaitFramesHeld
  <2>3. QED
    BY <2>2
<1>4. QED
  BY <1>2, <1>3

(* Returning from the innermost frame keeps WaitFramesHeld.               *)
LEMMA WFHPop ==
    ASSUME WaitFramesHeld, stack \in Seq(FramePcs), stack # << >>,
           stack' = SubSeq(stack, 1, Len(stack) - 1),
           instance' = instance, cloud' = cloud
    PROVE  WaitFramesHeld'
<1>1. Len(stack) >= 1
  BY EmptySeq, LenProperties
<1>2. /\ Len(stack') = Len(stack) - 1
      /\ \A i \in 1..Len(stack) - 1 : stack'[i] = stack[i]
  BY <1>1, PopLemma
<1>3. \A i \in 1..Len(stack) - 1 : i \in 1..Len(stack)
  BY <1>1
<1>4. QED
  BY <1>2, <1>3 DEF WaitFramesHeld

(* A signal's new frame starts at "check".                                 *)
LEMMA WFHPush ==
    ASSUME WaitFramesHeld, stack \in Seq(FramePcs),
           stack' = Append(stack, "check"), instance' = instance, cloud' = cloud
    PROVE  WaitFramesHeld'
<1> SUFFICES ASSUME NEW i \in 1..Len(stack'), stack'[i] = "wait"
             PROVE  instance' = "id" \/ cloud' = "terminated"
  BY DEF WaitFramesHeld
<1>1. /\ Len(stack') = Len(stack) + 1
      /\ \A k \in 1..Len(stack) : stack'[k] = stack[k]
      /\ stack'[Len(stack) + 1] = "check"
  BY PushLemma DEF FramePcs
<1>2. Len(stack) \in Nat
  BY LenProperties
<1>3. i \in 1..Len(stack)
  BY <1>1, <1>2
<1>4. QED
  BY <1>1, <1>3 DEF WaitFramesHeld

(* The innermost frame of a non-empty stack is one of its frames.          *)
LEMMA TopIn ==
    ASSUME NEW S, NEW st \in Seq(S), st # << >>
    PROVE  Len(st) \in 1..Len(st)
BY EmptySeq, LenProperties

(* An exception never resumes the main code at run-instances.              *)
LEMMA RaiseNotRun ==
    ASSUME Raise
    PROVE  pc' # "run"
BY DEF Raise

(* Nor does the return of a terminate() call.                              *)
LEMMA ReturnNotRun ==
    ASSUME Return
    PROVE  pc' = pc \/ pc' # "run"
BY DEF Return

(* A step that keeps the provider state and self.instance and does not    *)
(* move the main code to run-instances keeps both conjuncts.              *)
LEMMA RefCalm ==
    ASSUME UnsetIffNone, RunFresh, cloud' = cloud, instance' = instance,
           pc' = pc \/ pc' # "run"
    PROVE  UnsetIffNone' /\ RunFresh'
BY DEF UnsetIffNone, RunFresh

(* A step keeps Launched when it creates the instance, or keeps the       *)
(* provider state and either leaves pc at run or end or starts past them.  *)
LEMMA LaunchedKept ==
    ASSUME Launched,
           cloud' = cloud \/ cloud' # "none",
           pc' = pc \/ pc' = "end" \/ pc \notin {"run", "end"}
    PROVE  Launched'
BY DEF Launched

(* An exception ends the process, or moves to __exit__ from the body.      *)
LEMMA RaiseLeavesCtor ==
    ASSUME Raise
    PROVE  pc' = "end" \/ pc \notin {"run", "end"}
BY DEF Raise, ScopePcs

(* The return of the last terminate() frame moves on only from novol or   *)
(* exit.                                                                   *)
LEMMA ReturnLeavesCtor ==
    ASSUME Return
    PROVE  pc' = pc \/ pc \notin {"run", "end"}
BY DEF Return

(* Every step of Next keeps Launched.                                      *)
LEMMA NextLaunched == Launched /\ [Next]_vars => Launched'
<1> SUFFICES ASSUME Launched, [Next]_vars PROVE Launched'
  OBVIOUS
<1>1. CASE RunInstances
  <2>1. CASE cloud' = "running"
    BY <2>1 DEF Launched
  <2>2. CASE Raise /\ UNCHANGED cloud
    BY <2>2, RaiseLeavesCtor, LaunchedKept
  <2>3. QED
    BY <1>1, <2>1, <2>2, Zenon DEF RunInstances
<1>2. CASE \/ FindVolumes \/ CreateTags \/ FindInstances \/ EnterSave
           \/ EnterInstall \/ WaitUntilReady \/ Probe \/ Bootstrap
           \/ \E b \in BOOLEAN : SetKeep(b) \/ Abandon \/ ExitScope
  <2>1. pc \notin {"run", "end"} /\ cloud' = cloud
    BY <1>2 DEF FindVolumes, CreateTags, FindInstances, EnterSave,
                EnterInstall, WaitUntilReady,
                Probe, Bootstrap, SetKeep, Abandon, ExitScope, Running
  <2>2. QED
    BY <2>1, LaunchedKept
<1>3. CASE AttachVolumes \/ TermCheck \/ TermClear
  BY <1>3, LaunchedKept DEF AttachVolumes, TermCheck, TermClear
<1>4. CASE TermCall
  <2>1. CASE UNCHANGED pc
    BY <1>4, <2>1, LaunchedKept DEF TermCall
  <2>2. CASE Raise
    BY <1>4, <2>2, RaiseLeavesCtor, LaunchedKept DEF TermCall
  <2>3. QED
    BY <1>4, <2>1, <2>2, Zenon DEF TermCall
<1>9. CASE TermWait
  <2>1. CASE cloud' = "terminated"
    BY <2>1 DEF Launched
  <2>2. CASE Raise /\ UNCHANGED cloud
    BY <2>2, RaiseLeavesCtor, LaunchedKept
  <2>3. QED
    BY <1>9, <2>1, <2>2, Zenon DEF TermWait
<1>5. CASE TermRestore
  <2>1. cloud' = cloud
    BY <1>5 DEF TermRestore
  <2>2. CASE Raise
    BY <2>1, <2>2, RaiseLeavesCtor, LaunchedKept
  <2>3. CASE Return
    BY <2>1, <2>3, ReturnLeavesCtor, LaunchedKept
  <2>4. QED
    BY <1>5, <2>2, <2>3 DEF TermRestore
<1>6. CASE \E sg \in Signals : Signal(sg)
  <2>1. PICK sg \in Signals : Signal(sg)
    BY <1>6
  <2>2. cloud' = cloud
    BY <2>1 DEF Signal
  <2>3. CASE pc' = pc \/ pc' = "end"
    BY <2>2, <2>3, LaunchedKept
  <2>4. CASE Raise
    BY <2>2, <2>4, RaiseLeavesCtor, LaunchedKept
  <2>5. QED
    BY <2>1, <2>3, <2>4, Zenon DEF Signal
<1>7. CASE UNCHANGED vars
  BY <1>7, LaunchedKept DEF vars
<1>8. QED
  BY <1>1, <1>2, <1>3, <1>4, <1>5, <1>6, <1>7, <1>9, Zenon DEF Next, Internal

(* A frame at "clear" is the innermost one when TermClear runs, so the     *)
(* provider has terminated the instance.                                  *)
LEMMA ClearTopTerminated ==
    ASSUME IInv, TermClear
    PROVE  cloud = "terminated"
<1>1. stack \in Seq(FramePcs)
  BY DEF IInv, TypeInv, TypeOK
<1>2. Len(stack) \in 1..Len(stack) /\ stack[Len(stack)] = "clear"
  BY <1>1, EmptySeq, LenProperties DEF TermClear, Top
<1>3. QED
  BY <1>2 DEF IInv, ClearFramesTerminated

(* The strengthening holds initially.                                     *)
LEMMA InitRInv == Init => RInv
<1>1. Init => WaitFramesHeld
  BY DEF Init, WaitFramesHeld
<1>2. QED
  BY InitIInv, <1>1 DEF Init, RInv, UnsetIffNone, RunFresh, Launched

(* Every step of Next keeps WaitFramesHeld.                               *)
LEMMA NextWFH == RInv /\ [Next]_vars => WaitFramesHeld'
<1> SUFFICES ASSUME RInv, [Next]_vars PROVE WaitFramesHeld'
  OBVIOUS
<1>0. /\ WaitFramesHeld /\ stack \in Seq(FramePcs)
  BY DEF RInv, IInv, TypeInv, TypeOK
<1>1. CASE RunInstances
  <2>1. CASE UNCHANGED stack
    <3>1. stack' = << >>
      BY <1>1, <2>1 DEF RunInstances, Running
    <3>2. QED
      BY <3>1 DEF WaitFramesHeld
  <2>2. CASE Raise /\ UNCHANGED <<cloud, instance>>
    BY <1>0, <2>2, RaiseStack, WFHKept
  <2>3. QED
    BY <1>1, <2>1, <2>2, Zenon DEF RunInstances
<1>2. CASE \/ FindVolumes \/ CreateTags \/ FindInstances \/ EnterSave
           \/ EnterInstall \/ WaitUntilReady \/ Probe \/ Bootstrap
           \/ \E b \in BOOLEAN : SetKeep(b) \/ ExitScope \/ AttachVolumes
  <2>1. instance' = instance /\ cloud' = cloud
    BY <1>2 DEF FindVolumes, CreateTags, FindInstances, EnterSave,
                EnterInstall, WaitUntilReady, Probe, Bootstrap, SetKeep,
                ExitScope, AttachVolumes
  <2>2. stack' = stack \/ stack' = << >> \/ stack' = <<"check">>
    BY <1>2, RaiseStack, Zenon
    DEF FindVolumes, CreateTags, FindInstances, EnterSave, EnterInstall,
        WaitUntilReady, Probe, Bootstrap, SetKeep, ExitScope, AttachVolumes
  <2>3. QED
    BY <1>0, <2>1, <2>2, WFHKept
<1>3. CASE Abandon
  <2>1. stack' = << >>
    BY <1>3 DEF Abandon, Running
  <2>2. QED
    BY <2>1 DEF WaitFramesHeld
<1>4. CASE TermCheck
  <2>1. (IF instance = "id" /\ ~keepinstance THEN "call" ELSE "restore")
          \in FramePcs \ {"wait"}
    BY DEF FramePcs
  <2>2. QED
    BY <1>0, <1>4, <2>1, WFHSetTop DEF TermCheck
<1>5. CASE TermCall
  <2>1. CASE SetTop("wait") /\ instance = "id"
    BY <1>0, <1>5, <2>1, WFHSetTop DEF TermCall, FramePcs
  <2>2. CASE Raise
    BY <1>0, <1>5, <2>2, RaiseStack, WFHKept DEF TermCall
  <2>3. QED
    BY <1>5, <2>1, <2>2, Zenon DEF TermCall
<1>6. CASE TermWait
  <2>1. CASE cloud' = "terminated" /\ SetTop("clear")
    BY <1>0, <1>6, <2>1, WFHSetTop DEF TermWait, FramePcs
  <2>2. CASE Raise /\ UNCHANGED cloud
    BY <1>0, <1>6, <2>2, RaiseStack, WFHKept DEF TermWait
  <2>3. QED
    BY <1>6, <2>1, <2>2, Zenon DEF TermWait
<1>7. CASE TermClear
  <2>1. cloud = "terminated"
    BY <1>7, ClearTopTerminated DEF RInv
  <2>2. QED
    BY <1>0, <1>7, <2>1, WFHSetTop DEF TermClear, FramePcs
<1>8. CASE TermRestore
  <2>1. CASE \E sg \in Signals : saved[sg] = "none"
    BY <1>0, <1>8, <2>1, RaiseStack, WFHKept DEF TermRestore
  <2>2. CASE ~\E sg \in Signals : saved[sg] = "none"
    BY <1>0, <1>8, <2>2, WFHPop DEF TermRestore, Return
  <2>3. QED
    BY <2>1, <2>2
<1>9. CASE \E sg \in Signals : Signal(sg)
  <2>1. PICK sg \in Signals : Signal(sg)
    BY <1>9
  <2>2. cloud' = cloud /\ instance' = instance
    BY <2>1 DEF Signal
  <2>3. CASE stack' = Append(stack, "check")
    BY <1>0, <2>2, <2>3, WFHPush
  <2>4. CASE stack' = stack \/ stack' = << >> \/ stack' = <<"check">>
    BY <1>0, <2>2, <2>4, WFHKept
  <2>5. QED
    BY <2>1, <2>3, <2>4, RaiseStack, Zenon DEF Signal
<1>10. CASE UNCHANGED vars
  BY <1>0, <1>10, WFHKept DEF vars
<1>11. QED
  BY <1>1, <1>2, <1>3, <1>4, <1>5, <1>6, <1>7, <1>8, <1>9, <1>10, Zenon
  DEF Next, Internal

(* Every step of Next keeps the strengthening.                            *)
LEMMA NextRInv == RInv /\ [Next]_vars => RInv'
<1> SUFFICES ASSUME RInv, [Next]_vars PROVE UnsetIffNone' /\ RunFresh'
  BY NextIInv, NextLaunched, NextWFH DEF RInv
<1>0. UnsetIffNone /\ RunFresh /\ IInv /\ Launched
  BY DEF RInv
<1>1. CASE RunInstances
  <2>1. CASE /\ cloud' = "running" /\ instance' = "id" /\ pc' = "vols"
             /\ loopIdx' = 0 /\ UNCHANGED stack
    BY <2>1 DEF UnsetIffNone, RunFresh
  <2>2. CASE Raise /\ UNCHANGED <<cloud, instance, loopIdx>>
    BY <1>0, <2>2, RaiseNotRun, RefCalm
  <2>3. QED
    BY <1>1, <2>1, <2>2, Zenon DEF RunInstances
<1>2. CASE AttachVolumes
  BY <1>0, <1>2, RefCalm DEF AttachVolumes
<1>3. CASE FindVolumes
  <2>1. pc' = pc \/ pc' # "run"
    BY <1>3, RaiseNotRun DEF FindVolumes, Running
  <2>2. QED
    BY <1>0, <1>3, <2>1, RefCalm DEF FindVolumes
<1>4. CASE CreateTags
  BY <1>0, <1>4, RefCalm DEF CreateTags
<1>5. CASE FindInstances
  <2>1. pc' = pc \/ pc' # "run"
    BY <1>5, RaiseNotRun DEF FindInstances, Running
  <2>2. QED
    BY <1>0, <1>5, <2>1, RefCalm DEF FindInstances
<1>6. CASE EnterSave \/ EnterInstall
  <2>1. pc' # "run"
    BY <1>6 DEF EnterSave, EnterInstall
  <2>2. QED
    BY <1>0, <1>6, <2>1, RefCalm DEF EnterSave, EnterInstall
<1>7. CASE WaitUntilReady
  <2>1. pc' = pc \/ pc' # "run"
    BY <1>7, RaiseNotRun DEF WaitUntilReady, Running
  <2>2. QED
    BY <1>0, <1>7, <2>1, RefCalm DEF WaitUntilReady
<1>8. CASE Probe
  <2>1. pc' = pc \/ pc' # "run"
    BY <1>8, RaiseNotRun DEF Probe, Running
  <2>2. QED
    BY <1>0, <1>8, <2>1, RefCalm DEF Probe
<1>9. CASE Bootstrap
  <2>1. pc' = pc \/ pc' # "run"
    BY <1>9, RaiseNotRun DEF Bootstrap, Running
  <2>2. QED
    BY <1>0, <1>9, <2>1, RefCalm DEF Bootstrap
<1>10. CASE \E b \in BOOLEAN : SetKeep(b)
  BY <1>0, <1>10, RefCalm DEF SetKeep
<1>11. CASE Abandon
  <2>1. cloud # "none"
    BY <1>0, <1>11 DEF Abandon, Running, Launched
  <2>2. QED
    BY <1>11, <2>1 DEF Abandon, Running, UnsetIffNone, RunFresh
<1>12. CASE ExitScope
  BY <1>0, <1>12, RefCalm DEF ExitScope
<1>13. CASE TermCheck
  BY <1>0, <1>13, RefCalm DEF TermCheck
<1>14. CASE TermCall
  <2>1. pc' = pc \/ pc' # "run"
    BY <1>14, RaiseNotRun DEF TermCall
  <2>2. QED
    BY <1>0, <1>14, <2>1, RefCalm DEF TermCall
<1>19. CASE TermWait
  <2>1. CASE cloud' = "terminated" /\ SetTop("clear") /\ UNCHANGED pc
    <3>1. stack \in Seq(FramePcs) /\ stack # << >> /\ Top = "wait"
      BY <1>0, <1>19 DEF TermWait, RInv, IInv, TypeInv, TypeOK
    <3>2. Len(stack) \in 1..Len(stack)
      BY <3>1, TopIn
    <3>3. instance = "id" \/ cloud = "terminated"
      BY <3>1, <3>2 DEF Top, RInv, WaitFramesHeld
    <3>4. instance # "unset" /\ pc # "run" /\ instance' = instance
      BY <1>0, <1>19, <3>3 DEF TermWait, UnsetIffNone, RunFresh
    <3>5. QED
      BY <2>1, <3>4 DEF UnsetIffNone, RunFresh
  <2>2. CASE Raise /\ UNCHANGED cloud
    BY <1>0, <1>19, <2>2, RaiseNotRun, RefCalm DEF TermWait
  <2>3. QED
    BY <1>19, <2>1, <2>2, Zenon DEF TermWait
<1>15. CASE TermClear
  <2>1. cloud = "terminated"
    BY <1>0, <1>15, ClearTopTerminated
  <2>2. QED
    BY <1>0, <1>15, <2>1 DEF TermClear, UnsetIffNone, RunFresh
<1>16. CASE TermRestore
  <2>1. pc' = pc \/ pc' # "run"
    BY <1>16, RaiseNotRun, ReturnNotRun DEF TermRestore
  <2>2. QED
    BY <1>0, <1>16, <2>1, RefCalm DEF TermRestore
<1>17. CASE \E sg \in Signals : Signal(sg)
  <2>1. PICK sg \in Signals : Signal(sg)
    BY <1>17
  <2>2. pc' = pc \/ pc' # "run"
    BY <2>1, RaiseNotRun DEF Signal
  <2>3. QED
    BY <1>0, <2>1, <2>2, RefCalm DEF Signal
<1>18. CASE UNCHANGED vars
  BY <1>0, <1>18, RefCalm DEF vars
<1>99. QED
  BY <1>1, <1>2, <1>3, <1>4, <1>5, <1>6, <1>7, <1>8, <1>9, <1>10, <1>11,
     <1>12, <1>13, <1>14, <1>15, <1>16, <1>17, <1>18, <1>19, Zenon
  DEF Next, Internal

(* A step that leaves the provider state, self.instance and abandoned     *)
(* alone is a stutter of the abstract instance.                          *)
LEMMA AbsStutter ==
    ASSUME cloud' = cloud, instance' = instance, abandoned' = abandoned
    PROVE  [Abs!Next]_<<cloud, instance, abandoned>>
BY DEF Abs!avars

(* Every step of Next is a step of AbstractInstance or a stutter: run-    *)
(* instances is its Launch, an accepted terminate-instances its Terminate *)
(* (or a stutter when a nested call got there first), clearing           *)
(* self.instance in terminate() its Release, and abandon() its Abandon.   *)
LEMMA NextRefines ==
    RInv /\ [Next]_vars => [Abs!Next]_<<cloud, instance, abandoned>>
<1> SUFFICES ASSUME RInv, [Next]_vars
             PROVE  [Abs!Next]_<<cloud, instance, abandoned>>
  OBVIOUS
<1>0. /\ UnsetIffNone /\ RunFresh /\ IInv /\ WaitFramesHeld
      /\ cloud \in {"none", "running", "terminated"}
      /\ instance \in {"unset", "id", "none"}
      /\ stack \in Seq(FramePcs)
      /\ Launched
  BY DEF RInv, IInv, TypeInv, TypeOK
<1>1. CASE RunInstances
  <2>1. CASE /\ cloud' = "running" /\ instance' = "id" /\ pc' = "vols"
             /\ loopIdx' = 0 /\ UNCHANGED stack
    <3>1. cloud = "none" /\ abandoned' = abandoned
      BY <1>0, <1>1 DEF RunInstances, Running, RunFresh
    <3>2. Abs!Launch
      BY <2>1, <3>1 DEF Abs!Launch
    <3>3. QED
      BY <3>2 DEF Abs!Next
  <2>2. CASE Raise /\ UNCHANGED <<cloud, instance, loopIdx>>
    BY <1>1, <2>2, AbsStutter DEF RunInstances
  <2>3. QED
    BY <1>1, <2>1, <2>2, Zenon DEF RunInstances
<1>2. CASE TermWait
  <2>1. CASE cloud' = "terminated"
    <3>1. stack # << >> /\ Top = "wait"
          /\ instance' = instance /\ abandoned' = abandoned
      BY <1>2 DEF TermWait
    <3>2. Len(stack) \in 1..Len(stack)
      BY <1>0, <3>1, TopIn
    <3>3. instance = "id" \/ cloud = "terminated"
      BY <1>0, <3>1, <3>2 DEF Top, WaitFramesHeld
    <3>4. CASE cloud = "running"
      <4>1. instance = "id"
        BY <3>3, <3>4
      <4>2. Abs!Terminate
        BY <2>1, <3>1, <3>4, <4>1 DEF Abs!Terminate
      <4>3. QED
        BY <4>2 DEF Abs!Next
    <3>5. CASE cloud # "running"
      <4>1. cloud = "terminated"
        BY <1>0, <3>3, <3>5 DEF UnsetIffNone
      <4>2. QED
        BY <2>1, <3>1, <4>1, AbsStutter
    <3>6. QED
      BY <3>4, <3>5
  <2>2. CASE Raise /\ UNCHANGED cloud
    BY <1>2, <2>2, AbsStutter DEF TermWait
  <2>3. QED
    BY <1>2, <2>1, <2>2, Zenon DEF TermWait
<1>3. CASE TermClear
  <2>1. /\ cloud = "terminated" /\ cloud' = cloud /\ instance' = "none"
        /\ abandoned' = abandoned
    BY <1>0, <1>3, ClearTopTerminated DEF TermClear
  <2>2. instance \in {"id", "none"}
    BY <1>0, <2>1 DEF UnsetIffNone
  <2>3. CASE instance = "id"
    <3>1. Abs!Release
      BY <2>1, <2>3 DEF Abs!Release
    <3>2. QED
      BY <3>1 DEF Abs!Next
  <2>4. CASE instance = "none"
    BY <2>1, <2>4, AbsStutter
  <2>5. QED
    BY <2>2, <2>3, <2>4
<1>4. CASE \/ AttachVolumes \/ FindVolumes \/ CreateTags \/ FindInstances
           \/ EnterSave \/ EnterInstall \/ WaitUntilReady \/ Probe
           \/ Bootstrap \/ \E b \in BOOLEAN : SetKeep(b) \/ ExitScope
           \/ TermCheck \/ TermCall \/ TermRestore
  <2>1. cloud' = cloud /\ instance' = instance /\ abandoned' = abandoned
    BY <1>4 DEF AttachVolumes, FindVolumes, CreateTags, FindInstances,
                EnterSave, EnterInstall, WaitUntilReady, Probe, Bootstrap,
                SetKeep, ExitScope, TermCheck, TermCall, TermRestore
  <2>2. QED
    BY <2>1, AbsStutter
<1>6. CASE \E sg \in Signals : Signal(sg)
  <2>1. cloud' = cloud /\ instance' = instance /\ abandoned' = abandoned
    BY <1>6 DEF Signal
  <2>2. QED
    BY <2>1, AbsStutter
<1>7. CASE UNCHANGED vars
  BY <1>7, AbsStutter DEF vars
<1>8. CASE Abandon
  <2>1. /\ cloud' = cloud /\ instance' = "none" /\ abandoned' = TRUE
    BY <1>8 DEF Abandon
  <2>2. instance # "unset"
    BY <1>0, <1>8 DEF Abandon, Running, Launched, UnsetIffNone
  <2>3. Abs!Abandon
    BY <2>1, <2>2 DEF Abs!Abandon
  <2>4. QED
    BY <2>3 DEF Abs!Next
<1>99. QED
  BY <1>1, <1>2, <1>3, <1>4, <1>6, <1>7, <1>8, Zenon DEF Next, Internal

(* The lifecycle implements AbstractInstance: however terminate() calls   *)
(* nest through the signal handler and whichever request fails, the code *)
(* launches one instance, terminates only the instance self.instance      *)
(* holds, and sets self.instance to None only after the termination was  *)
(* accepted or when abandon() hands the instance over.                   *)
THEOREM Refinement == Spec => AbsSpec
<1>1. Init => RInv
  BY InitRInv
<1>2. RInv /\ [Next]_vars => RInv'
  BY NextRInv
<1>3. Init => Abs!Init
  BY DEF Init, Abs!Init
<1>4. RInv /\ [Next]_vars => [Abs!Next]_<<cloud, instance, abandoned>>
  BY NextRefines
<1>5. QED
  BY <1>1, <1>2, <1>3, <1>4, PTL DEF Spec, AbsSpec, Abs!Spec, Abs!avars

=============================================================================
