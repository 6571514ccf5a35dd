------------------------- MODULE AWSInstanceExitProofs -------------------------
(***************************************************************************)
(* Proofs about how the with-statement of AWSInstance ends: __exit__'s     *)
(* terminate() leaves no instance running unless keep or abandon() said so, *)
(* and abandon() is never followed by a termination request.               *)
(***************************************************************************)
EXTENDS AWSInstanceRefinement

(* Nothing runs once the script has ended.                                 *)
EndQuiet == pc = "end" => stack = <<>>

(* __exit__ has returned only if the script has ended.                     *)
ExitDoneAtEnd == exitDone => pc = "end"

(* Once the outermost frame of __exit__'s terminate() has reached its      *)
(* restore loop, the instance is no longer running unless kept or          *)
(* abandoned.                                                              *)
ExitFrameDone ==
    (pc = "exit" /\ stack # <<>> /\ stack[1] = "restore"
       /\ ~keepinstance /\ ~abandoned) => cloud # "running"

(* After abandon() the id is gone for good: run-instances is behind.      *)
AbandonInv == abandoned => instance = "none" /\ pc # "run"

XInv == /\ RInv /\ EndQuiet /\ ExitDoneAtEnd /\ ExitFrameDone
        /\ ScopeExitReleases /\ AbandonInv


-----------------------------------------------------------------------------
(* A step of the main code, or an exception, that leaves __exit__ and     *)
(* exitDone alone, moves to __exit__ only with a fresh frame, to the end  *)
(* only with no frame, and never back to run-instances, keeps the new     *)
(* conjuncts.                                                              *)
LEMMA MainStep ==
    ASSUME ExitDoneAtEnd, pc # "end", exitDone' = exitDone, pc' # "run",
           pc' = "end" => stack' = <<>>,
           pc' = "exit" => stack' = <<"check">>,
           abandoned' => instance' = "none"
    PROVE  EndQuiet' /\ ExitDoneAtEnd' /\ ExitFrameDone' /\ ScopeExitReleases'
           /\ AbandonInv'
<1>1. ~exitDone'
  BY DEF ExitDoneAtEnd
<1>2. EndQuiet' /\ ExitDoneAtEnd' /\ ScopeExitReleases' /\ AbandonInv'
  BY <1>1 DEF EndQuiet, ExitDoneAtEnd, ScopeExitReleases, AbandonInv
<1>3. ExitFrameDone'
  <2>1. CASE pc' = "exit"
    <3>1. stack'[1] = "check"
      BY <2>1
    <3>2. QED
      BY <3>1 DEF ExitFrameDone
  <2>2. CASE pc' # "exit"
    BY <2>2 DEF ExitFrameDone
  <2>3. QED
    BY <2>1, <2>2
<1>4. QED
  BY <1>2, <1>3

(* A stack is empty exactly when its length is zero.                      *)
LEMMA LenZero ==
    ASSUME NEW S, NEW st \in Seq(S)
    PROVE  st = <<>> <=> Len(st) = 0
<1>1. st = <<>> => Len(st) = 0
  BY SMT
<1>2. Len(st) = 0 => st = <<>>
  BY EmptySeq, LenProperties, Zenon
<1>3. QED
  BY <1>1, <1>2

(* A stack longer than one frame has its outermost frame below its top.   *)
LEMMA LongStack ==
    ASSUME NEW n \in Nat, n > 1
    PROVE  1 \in 1..n - 1 /\ 1 # n /\ n # 0 /\ n - 1 # 0
OBVIOUS

(* A non-empty stack has one frame or more than one.                      *)
LEMMA OneOrMore ==
    ASSUME NEW n \in Nat, n # 0
    PROVE  n = 1 \/ n > 1
OBVIOUS

(* The outermost frame of a stack survives a change to or a pop of its    *)
(* innermost one, as long as it is not that one.                          *)
LEMMA FirstKept ==
    ASSUME NEW S, NEW st \in Seq(S), Len(st) > 1, NEW f \in S
    PROVE  /\ SubSeq(st, 1, Len(st) - 1) # <<>>
           /\ SubSeq(st, 1, Len(st) - 1)[1] = st[1]
           /\ [st EXCEPT ![Len(st)] = f][1] = st[1]
<1>0. Len(st) \in Nat
  BY LenProperties
<1>1. 1 \in 1..Len(st) - 1 /\ 1 # Len(st) /\ Len(st) # 0
  BY <1>0, LongStack
<1>6. st # <<>>
  BY <1>1, LenZero
<1>2. /\ SubSeq(st, 1, Len(st) - 1) \in Seq(S)
      /\ Len(SubSeq(st, 1, Len(st) - 1)) = Len(st) - 1
      /\ SubSeq(st, 1, Len(st) - 1)[1] = st[1]
  BY <1>0, <1>1, PopLemma
<1>3. SubSeq(st, 1, Len(st) - 1) # <<>>
  <2>1. Len(SubSeq(st, 1, Len(st) - 1)) # 0
    BY <1>0, <1>2, LongStack
  <2>2. QED
    BY <1>2, <2>1, LenZero
<1>4. [st EXCEPT ![Len(st)] = f][1] = st[1]
  BY <1>1, <1>6, SetTopLemma
<1>5. QED
  BY <1>2, <1>3, <1>4

(* A push keeps the outermost frame of a non-empty stack and is the       *)
(* outermost frame of an empty one.                                        *)
LEMMA PushFirst ==
    ASSUME NEW S, NEW st \in Seq(S), NEW f \in S
    PROVE  /\ Append(st, f) # <<>>
           /\ st # <<>> => Append(st, f)[1] = st[1]
           /\ st = <<>> => Append(st, f)[1] = f
<1>1. Len(st) \in Nat /\ (st # <<>> => 1 \in 1..Len(st))
      /\ (st = <<>> => Len(st) = 0)
  BY LenProperties, LenZero
<1>2. /\ Append(st, f) \in Seq(S) /\ Len(Append(st, f)) = Len(st) + 1
      /\ \A i \in 1..Len(st) : Append(st, f)[i] = st[i]
      /\ Append(st, f)[Len(st) + 1] = f
  BY PushLemma
<1>3. Append(st, f) # <<>>
  BY <1>1, <1>2, LenZero
<1>4. QED
  BY <1>1, <1>2, <1>3

(* A frame stack of one entry has that entry on top, and popping it       *)
(* leaves the empty stack.                                                 *)
LEMMA Single ==
    ASSUME NEW S, NEW st \in Seq(S), st # <<>>
    PROVE  /\ Len(st) = 1 \/ Len(st) > 1
           /\ Len(st) \in 1..Len(st)
           /\ Len(st) = 1 => st[Len(st)] = st[1] /\ SubSeq(st, 1, Len(st) - 1) = <<>>
<1>0. Len(st) \in Nat
  BY LenProperties
<1>1. Len(st) # 0
  BY LenZero
<1>2. Len(st) = 1 \/ Len(st) > 1
  BY <1>0, <1>1, OneOrMore
<1>3. Len(st) = 1 => SubSeq(st, 1, Len(st) - 1) = <<>>
  <2> SUFFICES ASSUME Len(st) = 1 PROVE SubSeq(st, 1, Len(st) - 1) = <<>>
    OBVIOUS
  <2>1. Len(SubSeq(st, 1, Len(st) - 1)) = 0 /\ SubSeq(st, 1, Len(st) - 1) \in Seq(S)
    BY <1>1, PopLemma
  <2>2. QED
    BY <2>1, LenZero
<1>4. QED
  BY <1>0, <1>1, <1>2, <1>3

(* Every step of Next keeps the strengthened invariant.                    *)
LEMMA NextXInv == XInv /\ [Next]_vars => XInv'
<1> SUFFICES ASSUME XInv, [Next]_vars
             PROVE  EndQuiet' /\ ExitDoneAtEnd' /\ ExitFrameDone'
                    /\ ScopeExitReleases' /\ AbandonInv'
  BY NextRInv DEF XInv
<1>0. /\ EndQuiet /\ ExitDoneAtEnd /\ ExitFrameDone /\ ScopeExitReleases
      /\ AbandonInv /\ RInv
      /\ stack \in Seq(FramePcs) /\ pc \in Pcs
      /\ instance \in {"unset", "id", "none"}
      /\ cloud \in {"none", "running", "terminated"}
      /\ ClearedMeansTerminated /\ UnsetIffNone
  BY DEF XInv, RInv, IInv, TypeInv, TypeOK
<1>1. CASE RunInstances
  <2>1. ~abandoned
    BY <1>0, <1>1 DEF RunInstances, Running, AbandonInv
  <2>2. /\ pc # "end" /\ exitDone' = exitDone /\ pc' # "run"
        /\ (pc' = "end" => stack' = <<>>)
        /\ (pc' = "exit" => stack' = <<"check">>)
        /\ (abandoned' => instance' = "none")
    BY <1>1, <2>1 DEF RunInstances, Running, Raise
  <2>3. QED
    BY <1>0, <2>2, MainStep
<1>2. CASE \/ FindVolumes \/ CreateTags \/ FindInstances \/ EnterSave
           \/ EnterInstall \/ WaitUntilReady \/ Probe \/ Bootstrap
           \/ \E b \in BOOLEAN : SetKeep(b) \/ ExitScope
  <2>1. /\ pc # "end" /\ exitDone' = exitDone /\ pc' # "run"
        /\ (pc' = "end" => stack' = <<>>)
        /\ (pc' = "exit" => stack' = <<"check">>)
        /\ abandoned' = abandoned /\ instance' = instance
    BY <1>2 DEF FindVolumes, CreateTags, FindInstances, EnterSave,
                EnterInstall, WaitUntilReady, Probe, Bootstrap, SetKeep,
                ExitScope, Running, Raise
  <2>2. abandoned' => instance' = "none"
    BY <1>0, <2>1 DEF AbandonInv
  <2>3. QED
    BY <1>0, <2>1, <2>2, MainStep
<1>3. CASE Abandon
  <2>1. /\ pc # "end" /\ exitDone' = exitDone /\ pc' # "run"
        /\ (pc' = "end" => stack' = <<>>)
        /\ (pc' = "exit" => stack' = <<"check">>)
        /\ instance' = "none"
    BY <1>3 DEF Abandon, Running
  <2>2. QED
    BY <1>0, <2>1, MainStep
<1>4. CASE AttachVolumes
  BY <1>0, <1>4 DEF AttachVolumes, EndQuiet, ExitDoneAtEnd, ExitFrameDone,
                    ScopeExitReleases, AbandonInv
<1>5. CASE UNCHANGED vars
  BY <1>0, <1>5 DEF vars, EndQuiet, ExitDoneAtEnd, ExitFrameDone,
                    ScopeExitReleases, AbandonInv

<1>6. CASE TermCheck
  <2>1. /\ stack # <<>> /\ UNCHANGED <<pc, cloud, exitDone, instance, keepinstance, abandoned>>
        /\ SetTop(IF instance = "id" /\ ~keepinstance THEN "call" ELSE "restore")
    BY <1>6 DEF TermCheck
  <2>2. pc # "end" /\ ~exitDone
    BY <1>0, <2>1 DEF EndQuiet, ExitDoneAtEnd
  <2>3. EndQuiet' /\ ExitDoneAtEnd' /\ ScopeExitReleases' /\ AbandonInv'
    BY <1>0, <2>1, <2>2 DEF EndQuiet, ExitDoneAtEnd, ScopeExitReleases, AbandonInv
  <2>4. ExitFrameDone'
    <3>0. Len(stack) = 1 \/ Len(stack) > 1
      BY <1>0, <2>1, Single
    <3>1. CASE Len(stack) = 1
      <4>1. stack'[1] = IF instance = "id" /\ ~keepinstance THEN "call" ELSE "restore"
        BY <1>0, <2>1, <3>1, Single DEF SetTop
      <4>2. (instance # "id" /\ ~abandoned) => cloud # "running"
        BY <1>0 DEF ClearedMeansTerminated, UnsetIffNone
      <4>3. QED
        BY <2>1, <4>1, <4>2 DEF ExitFrameDone
    <3>2. CASE Len(stack) > 1
      <4>1. stack'[1] = stack[1] /\ stack' # <<>>
        BY <1>0, <2>1, <3>2, FirstKept DEF SetTop
      <4>2. QED
        BY <1>0, <2>1, <4>1 DEF ExitFrameDone
    <3>3. QED
      BY <3>0, <3>1, <3>2
  <2>5. QED
    BY <2>3, <2>4
<1>7. CASE TermCall
  <2>0. /\ stack # <<>>
        /\ UNCHANGED <<cloud, exitDone, instance, keepinstance, abandoned>>
        /\ pc # "end" /\ ~exitDone
    BY <1>0, <1>7 DEF TermCall, EndQuiet, ExitDoneAtEnd
  <2>1. CASE SetTop("wait") /\ UNCHANGED pc
    <3>1. EndQuiet' /\ ExitDoneAtEnd' /\ ScopeExitReleases' /\ AbandonInv'
      BY <1>0, <2>0, <2>1 DEF EndQuiet, ExitDoneAtEnd, ScopeExitReleases,
                              AbandonInv
    <3>2. ExitFrameDone'
      <4>0. Len(stack) = 1 \/ Len(stack) > 1
        BY <1>0, <2>0, Single
      <4>1. CASE Len(stack) = 1
        <5>1. stack'[1] = "wait"
          BY <1>0, <2>0, <2>1, <4>1, Single DEF SetTop
        <5>2. QED
          BY <5>1 DEF ExitFrameDone
      <4>2. CASE Len(stack) > 1
        <5>1. stack'[1] = stack[1] /\ stack' # <<>>
          BY <1>0, <2>0, <2>1, <4>2, FirstKept DEF SetTop, FramePcs
        <5>2. QED
          BY <1>0, <2>0, <2>1, <5>1 DEF ExitFrameDone
      <4>3. QED
        BY <4>0, <4>1, <4>2
    <3>3. QED
      BY <3>1, <3>2
  <2>2. CASE Raise
    <3>1. /\ pc' # "run"
          /\ (pc' = "end" => stack' = <<>>)
          /\ (pc' = "exit" => stack' = <<"check">>)
          /\ (abandoned' => instance' = "none")
      BY <1>0, <2>0, <2>2 DEF Raise, AbandonInv
    <3>2. QED
      BY <1>0, <2>0, <3>1, MainStep
  <2>3. QED
    BY <1>7, <2>1, <2>2 DEF TermCall
<1>11. CASE TermWait
  <2>0. /\ stack # <<>> /\ UNCHANGED <<exitDone, instance, keepinstance, abandoned>>
        /\ pc # "end" /\ ~exitDone
    BY <1>0, <1>11 DEF TermWait, EndQuiet, ExitDoneAtEnd
  <2>1. CASE cloud' = "terminated" /\ UNCHANGED pc
    BY <1>0, <2>0, <2>1 DEF EndQuiet, ExitDoneAtEnd, ExitFrameDone,
                            ScopeExitReleases, AbandonInv
  <2>2. CASE Raise
    <3>1. /\ pc' # "run"
          /\ (pc' = "end" => stack' = <<>>)
          /\ (pc' = "exit" => stack' = <<"check">>)
          /\ (abandoned' => instance' = "none")
      BY <1>0, <2>0, <2>2 DEF Raise, AbandonInv
    <3>2. QED
      BY <1>0, <2>0, <3>1, MainStep
  <2>3. QED
    BY <1>11, <2>1, <2>2 DEF TermWait
<1>8. CASE TermClear
  <2>1. /\ stack # <<>> /\ Top = "clear"
        /\ UNCHANGED <<pc, cloud, exitDone, keepinstance, abandoned>>
        /\ instance' = "none"
    BY <1>8 DEF TermClear
  <2>2. cloud = "terminated"
    <3>1. Len(stack) \in 1..Len(stack)
      BY <1>0, <2>1, Single
    <3>2. QED
      BY <1>0, <2>1, <3>1 DEF Top, RInv, IInv, ClearFramesTerminated
  <2>3. pc # "end" /\ ~exitDone
    BY <1>0, <2>1 DEF EndQuiet, ExitDoneAtEnd
  <2>4. QED
    BY <1>0, <2>1, <2>2, <2>3 DEF EndQuiet, ExitDoneAtEnd, ExitFrameDone,
                                  ScopeExitReleases, AbandonInv
<1>9. CASE TermRestore
  <2>0. /\ stack # <<>> /\ Top = "restore"
        /\ UNCHANGED <<cloud, instance, keepinstance, abandoned>>
        /\ pc # "end" /\ ~exitDone
    BY <1>0, <1>9 DEF TermRestore, EndQuiet, ExitDoneAtEnd
  <2>1. CASE \E s \in Signals : saved[s] = "none"
    <3>1. Raise /\ exitDone' = exitDone
      BY <1>9, <2>1 DEF TermRestore
    <3>2. /\ pc' # "run"
          /\ (pc' = "end" => stack' = <<>>)
          /\ (pc' = "exit" => stack' = <<"check">>)
          /\ (abandoned' => instance' = "none")
      BY <1>0, <2>0, <3>1 DEF Raise, AbandonInv
    <3>3. QED
      BY <1>0, <2>0, <3>1, <3>2, MainStep
  <2>2. CASE ~\E s \in Signals : saved[s] = "none"
    <3>1. Return
      BY <1>9, <2>2 DEF TermRestore
    <3>2. CASE Len(stack) = 1 /\ pc \in {"novol", "exit"}
      <4>1. /\ pc' = IF pc = "novol" THEN "tags" ELSE "end"
            /\ exitDone' = (pc = "exit")
            /\ stack' = <<>>
        BY <1>0, <2>0, <3>1, <3>2, Single DEF Return
      <4>2. (pc = "exit" /\ ~keepinstance /\ ~abandoned) => cloud # "running"
        BY <1>0, <2>0, <3>2, Single DEF Top, ExitFrameDone
      <4>3. QED
        BY <1>0, <2>0, <4>1, <4>2 DEF EndQuiet, ExitDoneAtEnd, ExitFrameDone,
                                      ScopeExitReleases, AbandonInv
    <3>3. CASE ~(Len(stack) = 1 /\ pc \in {"novol", "exit"})
      <4>1. UNCHANGED <<pc, exitDone>> /\ stack' = SubSeq(stack, 1, Len(stack) - 1)
        BY <3>1, <3>3 DEF Return
      <4>2. stack' = <<>> \/ (stack' # <<>> /\ stack'[1] = stack[1])
        BY <1>0, <2>0, <4>1, Single, FirstKept
      <4>3. QED
        BY <1>0, <2>0, <4>1, <4>2 DEF EndQuiet, ExitDoneAtEnd, ExitFrameDone,
                                      ScopeExitReleases, AbandonInv
    <3>4. QED
      BY <3>2, <3>3
  <2>3. QED
    BY <2>1, <2>2
<1>10. CASE \E sg \in Signals : Signal(sg)
  <2>1. PICK sg \in Signals : Signal(sg)
    BY <1>10
  <2>0. /\ pc # "end"
        /\ UNCHANGED <<cloud, exitDone, instance, keepinstance, abandoned>>
    BY <2>1 DEF Signal
  <2>2. CASE stack' = Append(stack, "check") /\ UNCHANGED pc
    <3>1. /\ stack' # <<>> /\ (stack # <<>> => stack'[1] = stack[1])
          /\ (stack = <<>> => stack'[1] = "check")
      BY <1>0, <2>2, PushFirst DEF FramePcs
    <3>2. QED
      BY <1>0, <2>0, <2>2, <3>1 DEF EndQuiet, ExitDoneAtEnd, ExitFrameDone,
                                    ScopeExitReleases, AbandonInv
  <2>3. CASE pc' = "end" /\ stack' = <<>>
    <3>1. abandoned' => instance' = "none"
      BY <1>0, <2>0 DEF AbandonInv
    <3>2. QED
      BY <1>0, <2>0, <2>3, <3>1, MainStep
  <2>4. CASE Raise
    <3>1. /\ pc' # "run"
          /\ (pc' = "end" => stack' = <<>>)
          /\ (pc' = "exit" => stack' = <<"check">>)
          /\ (abandoned' => instance' = "none")
      BY <1>0, <2>0, <2>4 DEF Raise, AbandonInv
    <3>2. QED
      BY <1>0, <2>0, <3>1, MainStep
  <2>6. CASE UNCHANGED <<pc, stack>>
    BY <1>0, <2>0, <2>6 DEF EndQuiet, ExitDoneAtEnd, ExitFrameDone,
                            ScopeExitReleases, AbandonInv
  <2>5. QED
    BY <2>1, <2>2, <2>3, <2>4, <2>6 DEF Signal
<1>99. QED
  BY <1>1, <1>2, <1>3, <1>4, <1>5, <1>6, <1>7, <1>8, <1>9, <1>10, <1>11, Zenon
  DEF Next, Internal


(* The initial state satisfies the strengthened invariant.                 *)
LEMMA InitXInv == Init => XInv
BY InitRInv DEF Init, XInv, EndQuiet, ExitDoneAtEnd, ExitFrameDone,
                ScopeExitReleases, AbandonInv

(* No step after abandon() sends terminate-instances: the request needs   *)
(* self.instance, which abandon() cleared for good.                        *)
LEMMA NextNoTermAfterAbandon ==
    XInv /\ [Next]_vars => [abandoned => termCalls' = termCalls]_vars
<1> SUFFICES ASSUME XInv, [Next]_vars, abandoned
             PROVE  termCalls' = termCalls
  OBVIOUS
<1>1. instance = "none"
  BY DEF XInv, AbandonInv
<1>2. CASE TermCall
  BY <1>1, <1>2 DEF TermCall
<1>3. CASE ~TermCall
  BY <1>3 DEF Next, Internal, vars, RunInstances, FindVolumes, CreateTags,
              FindInstances, EnterSave, EnterInstall, WaitUntilReady, Probe,
              Bootstrap, TermCheck, TermWait, TermClear, TermRestore, SetKeep,
              Abandon,
              ExitScope, AttachVolumes, Signal
<1>4. QED
  BY <1>2, <1>3

-----------------------------------------------------------------------------
(* When __exit__ has returned and neither keep nor abandon() held the      *)
(* instance back, terminate() did not leave it running.                    *)
THEOREM ScopeExitReleasesHolds == Spec => []ScopeExitReleases
<1>1. Init => XInv
  BY InitXInv
<1>2. XInv /\ [Next]_vars => XInv'
  BY NextXInv
<1>3. XInv => ScopeExitReleases
  BY DEF XInv
<1>4. QED
  BY <1>1, <1>2, <1>3, PTL DEF Spec

(* Once abandon() has run, no later step of the script, __exit__ and the   *)
(* signal handler included, sends terminate-instances.                     *)
THEOREM AbandonedNeverTerminatedHolds == Spec => AbandonedNeverTerminated
<1>1. Init => XInv
  BY InitXInv
<1>2. XInv /\ [Next]_vars => XInv'
  BY NextXInv
<1>3. XInv /\ [Next]_vars => [abandoned => termCalls' = termCalls]_vars
  BY NextNoTermAfterAbandon
<1>4. QED
  BY <1>1, <1>2, <1>3, PTL DEF Spec, AbandonedNeverTerminated

=============================================================================
