-------------------------- MODULE AWSInstanceProofs --------------------------
(***************************************************************************)
(* Proofs about the AWSInstance lifecycle, for every value of the          *)
(* constants that satisfies ConstantsAssumption.                           *)
(***************************************************************************)
EXTENDS AWSInstance, SequenceTheorems, TLAPS

(***************************************************************************)
(* TypeOK is not inductive on its own: a signal pushes a frame, and the    *)
(* bound on the stack needs that every frame but the main code's own one   *)
(* came from a delivered signal.                                           *)
(***************************************************************************)
StackBound == Len(stack) <= sigs + 1

(* Nor is the index of __enter__'s loop in range without this: between     *)
(* lines 479 and 480 the loop is still at a signal of self.signals.        *)
InstallBound == pc = "install" => nEntered < Len(SigOrder)

TypeInv == TypeOK /\ StackBound /\ InstallBound

(* TypeInv split into the frames and the other variables, for the proofs.  *)
StackOK ==
    /\ stack \in Seq(FramePcs)
    /\ Len(stack) <= sigs + 1
    /\ sigs \in 0..MaxSignals

DataOK ==
    /\ pc \in Pcs
    /\ cloud \in {"none", "running", "terminated"}
    /\ volAttached \in BOOLEAN
    /\ tagged \in BOOLEAN
    /\ instance \in {"unset", "id", "none"}
    /\ ipv4 \in {"unset", "addr", "none"}
    /\ keepinstance \in BOOLEAN
    /\ abandoned \in BOOLEAN
    /\ handlers \in [Signals -> {"orig", "guard"}]
    /\ saved \in [Signals -> {"orig", "guard", "none"}]
    /\ nEntered \in 0..Len(SigOrder)
    /\ loopIdx \in Nat
    /\ termCalls \in Nat
    /\ exitDone \in BOOLEAN
    /\ pc = "install" => nEntered < Len(SigOrder)

(***************************************************************************)
(* The strengthening of ClearedMeansTerminated: a terminate() frame about  *)
(* to clear the fields has seen its terminate-instances request accepted.  *)
(***************************************************************************)
ClearFramesTerminated ==
    \A i \in 1..Len(stack) : stack[i] = "clear" => cloud = "terminated"

IInv == TypeInv /\ ClearedMeansTerminated /\ ClearFramesTerminated

-----------------------------------------------------------------------------
(* Replacing the innermost frame keeps a stack of frames and its length.   *)
LEMMA SetTopLemma ==
    ASSUME NEW S, NEW s \in Seq(S), s # <<>>, NEW f \in S
    PROVE  /\ [s EXCEPT ![Len(s)] = f] \in Seq(S)
           /\ Len([s EXCEPT ![Len(s)] = f]) = Len(s)
           /\ \A i \in 1..Len(s) :
                 [s EXCEPT ![Len(s)] = f][i] = IF i = Len(s) THEN f ELSE s[i]
<1>1. Len(s) \in 1..Len(s)
  BY EmptySeq, LenProperties
<1>2. QED
  BY <1>1, ExceptSeq

(* Popping the innermost frame keeps a stack of frames one shorter.        *)
LEMMA PopLemma ==
    ASSUME NEW S, NEW s \in Seq(S), Len(s) >= 1
    PROVE  /\ SubSeq(s, 1, Len(s) - 1) \in Seq(S)
           /\ Len(SubSeq(s, 1, Len(s) - 1)) = Len(s) - 1
           /\ \A i \in 1..Len(s) - 1 : SubSeq(s, 1, Len(s) - 1)[i] = s[i]
<1>1. Len(s) \in Nat /\ Len(s) >= 1
  BY LenProperties
<1>2. \A i \in 1..Len(s) - 1 : s[i] \in S
  BY <1>1, ElementOfSeq
<1>3. /\ SubSeq(s, 1, Len(s) - 1) \in Seq(S)
      /\ Len(SubSeq(s, 1, Len(s) - 1)) = IF 1 <= Len(s) - 1 THEN Len(s) - 1 ELSE 0
      /\ \A i \in 1..(Len(s) - 1) - 1 + 1 : SubSeq(s, 1, Len(s) - 1)[i] = s[1 + i - 1]
  BY <1>1, <1>2, SubSeqProperties
<1>4. (Len(s) - 1) - 1 + 1 = Len(s) - 1
  BY <1>1
<1>5. \A i \in 1..Len(s) - 1 : SubSeq(s, 1, Len(s) - 1)[i] = s[i]
  <2> SUFFICES ASSUME NEW i \in 1..Len(s) - 1
               PROVE  SubSeq(s, 1, Len(s) - 1)[i] = s[i]
    OBVIOUS
  <2>1. i \in 1..(Len(s) - 1) - 1 + 1 /\ 1 + i - 1 = i
    BY <1>4
  <2>2. QED
    BY <2>1, <1>3
<1>6. Len(SubSeq(s, 1, Len(s) - 1)) = Len(s) - 1
  <2>0. Len(s) = 1 \/ Len(s) > 1
    BY <1>1, SMTT(30)
  <2>1. CASE Len(s) = 1
    BY <2>1, <1>3
  <2>2. CASE Len(s) > 1
    BY <2>2, <1>3
  <2>3. QED
    BY <2>0, <2>1, <2>2, Zenon
<1>7. QED
  BY <1>3, <1>5, <1>6

(* Pushing a frame keeps a stack of frames one longer.                     *)
LEMMA PushLemma ==
    ASSUME NEW S, NEW s \in Seq(S), NEW f \in S
    PROVE  /\ Append(s, f) \in Seq(S)
           /\ Len(Append(s, f)) = Len(s) + 1
           /\ \A i \in 1..Len(s) : Append(s, f)[i] = s[i]
           /\ Append(s, f)[Len(s) + 1] = f
BY AppendProperties

-----------------------------------------------------------------------------
(* The stacks that Raise leaves behind are stacks of frames.               *)
LEMMA RaiseType ==
    ASSUME Raise
    PROVE  /\ pc' \in Pcs
           /\ pc' \in {"exit", "end"}
           /\ stack' \in Seq(FramePcs)
           /\ Len(stack') <= 1
<1>1. <<"check">> \in Seq(FramePcs) /\ Len(<<"check">>) = 1
  BY DEF FramePcs
<1>2. << >> \in Seq(FramePcs) /\ Len(<< >>) = 0
  BY EmptySeq
<1>3. {"exit", "end"} \subseteq Pcs
  BY DEF Pcs
<1>4. CASE pc \in ScopePcs
  <2>1. pc' = "exit" /\ stack' = <<"check">>
    BY <1>4 DEF Raise
  <2>2. QED
    BY <1>1, <1>3, <2>1
<1>5. CASE pc \notin ScopePcs
  <2>1. pc' = "end" /\ stack' = << >>
    BY <1>5 DEF Raise
  <2>2. QED
    BY <1>2, <1>3, <2>1
<1>6. QED
  BY <1>4, <1>5

(* Init establishes TypeInv.                                               *)
LEMMA InitTypeInv == Init => TypeInv
<1> SUFFICES ASSUME Init PROVE TypeInv
  OBVIOUS
<1>1. stack \in Seq(FramePcs) /\ Len(stack) = 0
  BY EmptySeq DEF Init
<1>2. pc \in Pcs
  BY DEF Init, Pcs, CtorPcs
<1>3. /\ handlers \in [Signals -> {"orig", "guard"}]
      /\ saved \in [Signals -> {"orig", "guard", "none"}]
  BY DEF Init
<1>4. /\ Len(SigOrder) \in Nat
      /\ MaxSignals \in Nat
  BY ConstantsAssumption, LenProperties
<1>5. /\ nEntered \in 0..Len(SigOrder)
      /\ sigs \in 0..MaxSignals
      /\ Len(stack) <= MaxSignals + 1
      /\ Len(stack) <= sigs + 1
  BY <1>1, <1>4 DEF Init
<1>6. QED
  BY <1>1, <1>2, <1>3, <1>5, Zenon DEF Init, TypeInv, TypeOK, StackBound,
     InstallBound

(* TypeInv holds in the next state when both of its parts do.            *)
LEMMA TypeInvFromParts ==
    ASSUME StackOK', DataOK'
    PROVE  TypeInv'
<1>1. /\ Len(stack') \in Nat
      /\ MaxSignals \in Nat
      /\ Len(stack') <= sigs' + 1
      /\ sigs' \in 0..MaxSignals
  BY LenProperties, ConstantsAssumption DEF StackOK
<1>2. Len(stack') <= MaxSignals + 1
  BY <1>1
<1>3. QED
  BY <1>2, Zenon DEF StackOK, DataOK, TypeInv, TypeOK, StackBound,
     InstallBound

(* The frame stack stays well formed when a step leaves it alone.        *)
LEMMA StackKept ==
    ASSUME StackOK, stack' = stack, sigs' = sigs
    PROVE  StackOK'
BY DEF StackOK

(* ... when an exception unwinds it.                                       *)
LEMMA StackRaise ==
    ASSUME StackOK, Raise, sigs' = sigs
    PROVE  StackOK'
<1>1. sigs \in Nat /\ stack' \in Seq(FramePcs) /\ Len(stack') <= 1
  BY RaiseType DEF StackOK
<1>2. Len(stack') <= sigs' + 1
  BY <1>1
<1>3. QED
  BY <1>1, <1>2 DEF StackOK

(* ... when a step starts a terminate() of the main code.                  *)
LEMMA StackStart ==
    ASSUME StackOK, stack' = <<"check">>, sigs' = sigs
    PROVE  StackOK'
<1>1. <<"check">> \in Seq(FramePcs) /\ Len(<<"check">>) = 1
  BY DEF FramePcs
<1>2. sigs \in Nat
  BY DEF StackOK
<1>3. QED
  BY <1>1, <1>2 DEF StackOK

(* ... when the innermost frame moves on.                                  *)
LEMMA StackSetTop ==
    ASSUME StackOK, stack # <<>>, NEW f \in FramePcs, SetTop(f), sigs' = sigs
    PROVE  StackOK'
<1>1. stack' \in Seq(FramePcs) /\ Len(stack') = Len(stack)
  BY SetTopLemma DEF StackOK, SetTop
<1>2. QED
  BY <1>1 DEF StackOK

(* ... when the innermost frame returns.                                   *)
LEMMA StackReturn ==
    ASSUME StackOK, stack # <<>>, Return, sigs' = sigs
    PROVE  StackOK'
<1>1. Len(stack) \in Nat /\ Len(stack) >= 1
  BY EmptySeq, LenProperties DEF StackOK
<1>2. stack' \in Seq(FramePcs) /\ Len(stack') = Len(stack) - 1
  BY <1>1, PopLemma DEF StackOK, Return
<1>3. Len(stack') <= sigs' + 1
  BY <1>1, <1>2 DEF StackOK
<1>4. QED
  BY <1>2, <1>3 DEF StackOK

(* Return resumes the main code at one of its control points.              *)
LEMMA ReturnPc ==
    ASSUME pc \in Pcs, exitDone \in BOOLEAN, Return
    PROVE  pc' \in Pcs /\ exitDone' \in BOOLEAN /\ (pc' = "install" => pc = "install")
BY Zenon DEF Return, Pcs, CtorPcs

(* Every step of Next preserves TypeInv.                                   *)
LEMMA NextTypeInv == TypeInv /\ [Next]_vars => TypeInv'
<1> SUFFICES ASSUME TypeInv, [Next]_vars PROVE StackOK' /\ DataOK'
  BY TypeInvFromParts
<1>0. /\ StackOK
      /\ DataOK
      /\ Len(stack) \in Nat
  BY LenProperties DEF TypeInv, TypeOK, StackBound, InstallBound, StackOK,
     DataOK
<1>1. CASE RunInstances
  <2>1. CASE /\ cloud' = "running" /\ instance' = "id" /\ pc' = "vols"
             /\ loopIdx' = 0 /\ UNCHANGED stack
    <3>1. DataOK'
      BY <1>0, <1>1, <2>1 DEF RunInstances, DataOK, Pcs, CtorPcs
    <3>2. StackOK'
      BY <1>0, <1>1, <2>1, StackKept DEF RunInstances
    <3>3. QED
      BY <3>1, <3>2
  <2>2. CASE Raise /\ UNCHANGED <<cloud, instance, loopIdx>>
    <3>1. DataOK'
      BY <1>0, <1>1, <2>2, RaiseType DEF RunInstances, DataOK
    <3>2. StackOK'
      BY <1>0, <1>1, <2>2, StackRaise DEF RunInstances
    <3>3. QED
      BY <3>1, <3>2
  <2>3. QED
    BY <1>1, <2>1, <2>2, Zenon DEF RunInstances
<1>2. CASE AttachVolumes
  BY <1>0, <1>2 DEF AttachVolumes, StackOK, DataOK
<1>3. CASE FindVolumes
  <2>1. CASE Raise /\ UNCHANGED loopIdx
    <3>1. DataOK'
      BY <1>0, <1>3, <2>1, RaiseType DEF FindVolumes, DataOK
    <3>2. StackOK'
      BY <1>0, <1>3, <2>1, StackRaise DEF FindVolumes
    <3>3. QED
      BY <3>1, <3>2
  <2>2. CASE loopIdx' = loopIdx + 1 /\ UNCHANGED <<pc, stack>>
    <3>1. DataOK'
      BY <1>0, <1>3, <2>2 DEF FindVolumes, DataOK
    <3>2. StackOK'
      BY <1>0, <1>3, <2>2, StackKept DEF FindVolumes
    <3>3. QED
      BY <3>1, <3>2
  <2>3. CASE pc' = "tags" /\ UNCHANGED <<stack, loopIdx>>
    <3>1. DataOK'
      BY <1>0, <1>3, <2>3 DEF FindVolumes, DataOK, Pcs, CtorPcs
    <3>2. StackOK'
      BY <1>0, <1>3, <2>3, StackKept DEF FindVolumes
    <3>3. QED
      BY <3>1, <3>2
  <2>4. CASE pc' = "novol" /\ stack' = <<"check">> /\ UNCHANGED loopIdx
    <3>1. DataOK'
      BY <1>0, <1>3, <2>4 DEF FindVolumes, DataOK, Pcs, CtorPcs
    <3>2. StackOK'
      BY <1>0, <1>3, <2>4, StackStart DEF FindVolumes
    <3>3. QED
      BY <3>1, <3>2
  <2>5. QED
    BY <1>3, <2>1, <2>2, <2>3, <2>4, Zenon DEF FindVolumes
<1>4. CASE CreateTags
  <2>1. DataOK'
    BY <1>0, <1>4 DEF CreateTags, DataOK, Pcs, CtorPcs
  <2>2. StackOK'
    BY <1>0, <1>4, StackKept DEF CreateTags
  <2>3. QED
    BY <2>1, <2>2
<1>5. CASE FindInstances
  <2>1. CASE Raise /\ UNCHANGED <<ipv4, loopIdx>>
    <3>1. DataOK'
      BY <1>0, <1>5, <2>1, RaiseType DEF FindInstances, DataOK
    <3>2. StackOK'
      BY <1>0, <1>5, <2>1, StackRaise DEF FindInstances
    <3>3. QED
      BY <3>1, <3>2
  <2>2. CASE loopIdx' = loopIdx + 1 /\ UNCHANGED <<pc, stack, ipv4>>
    <3>1. DataOK'
      BY <1>0, <1>5, <2>2 DEF FindInstances, DataOK
    <3>2. StackOK'
      BY <1>0, <1>5, <2>2, StackKept DEF FindInstances
    <3>3. QED
      BY <3>1, <3>2
  <2>3. CASE /\ ipv4' = IF tagged /\ instance = "id" THEN "addr" ELSE ipv4
             /\ pc' = "enter" /\ UNCHANGED <<stack, loopIdx>>
    <3>1. DataOK'
      BY <1>0, <1>5, <2>3 DEF FindInstances, DataOK, Pcs
    <3>2. StackOK'
      BY <1>0, <1>5, <2>3, StackKept DEF FindInstances
    <3>3. QED
      BY <3>1, <3>2
  <2>4. QED
    BY <1>5, <2>1, <2>2, <2>3, Zenon DEF FindInstances
<1>6. CASE EnterSave
  <2>1. Len(SigOrder) \in Nat /\ nEntered + 1 \in 1..Len(SigOrder)
    BY <1>0, <1>6, LenProperties DEF EnterSave, Running, DataOK
  <2>2. SigOrder[nEntered + 1] \in Signals
    BY <2>1 DEF Signals
  <2>3. saved' \in [Signals -> {"orig", "guard", "none"}]
    BY <1>0, <1>6, <2>2 DEF EnterSave, DataOK
  <2>4. DataOK'
    BY <1>0, <1>6, <2>3 DEF EnterSave, DataOK, Pcs, Running
  <2>5. StackOK'
    BY <1>0, <1>6, StackKept DEF EnterSave
  <2>6. QED
    BY <2>4, <2>5
<1>19. CASE EnterInstall
  <2>1. Len(SigOrder) \in Nat /\ nEntered + 1 \in 1..Len(SigOrder)
    BY <1>0, <1>19, LenProperties DEF EnterInstall, Running, DataOK
  <2>2. SigOrder[nEntered + 1] \in Signals
    BY <2>1 DEF Signals
  <2>3. handlers' \in [Signals -> {"orig", "guard"}]
    BY <1>0, <1>19, <2>2 DEF EnterInstall, DataOK
  <2>4. nEntered' \in 0..Len(SigOrder) /\ pc' \in Pcs
        /\ (pc' = "install" => nEntered' < Len(SigOrder))
    <3>1. nEntered' \in 0..Len(SigOrder)
      BY <1>19, <2>1 DEF EnterInstall
    <3>2. pc' \in {"ready", "enter"}
      BY <1>19 DEF EnterInstall
    <3>3. QED
      BY <3>1, <3>2 DEF Pcs, ScopePcs
  <2>5. DataOK'
    BY <1>0, <1>19, <2>3, <2>4 DEF EnterInstall, DataOK
  <2>6. StackOK'
    BY <1>0, <1>19, StackKept DEF EnterInstall
  <2>7. QED
    BY <2>5, <2>6
<1>7. CASE WaitUntilReady
  <2>1. CASE pc' = "poll" /\ loopIdx' = 0 /\ UNCHANGED stack
    <3>1. DataOK'
      BY <1>0, <1>7, <2>1 DEF WaitUntilReady, DataOK, Pcs, ScopePcs
    <3>2. StackOK'
      BY <1>0, <1>7, <2>1, StackKept DEF WaitUntilReady
    <3>3. QED
      BY <3>1, <3>2
  <2>2. CASE Raise /\ UNCHANGED loopIdx
    <3>1. DataOK'
      BY <1>0, <1>7, <2>2, RaiseType DEF WaitUntilReady, DataOK
    <3>2. StackOK'
      BY <1>0, <1>7, <2>2, StackRaise DEF WaitUntilReady
    <3>3. QED
      BY <3>1, <3>2
  <2>3. QED
    BY <1>7, <2>1, <2>2, Zenon DEF WaitUntilReady
<1>8. CASE Probe
  <2>1. CASE Raise /\ UNCHANGED loopIdx
    <3>1. DataOK'
      BY <1>0, <1>8, <2>1, RaiseType DEF Probe, DataOK
    <3>2. StackOK'
      BY <1>0, <1>8, <2>1, StackRaise DEF Probe
    <3>3. QED
      BY <3>1, <3>2
  <2>2. CASE pc' = "boot" /\ loopIdx' = 0 /\ UNCHANGED stack
    <3>1. DataOK'
      BY <1>0, <1>8, <2>2 DEF Probe, DataOK, Pcs, ScopePcs
    <3>2. StackOK'
      BY <1>0, <1>8, <2>2, StackKept DEF Probe
    <3>3. QED
      BY <3>1, <3>2
  <2>3. CASE loopIdx' = loopIdx + 1 /\ UNCHANGED <<pc, stack>>
    <3>1. DataOK'
      BY <1>0, <1>8, <2>3 DEF Probe, DataOK
    <3>2. StackOK'
      BY <1>0, <1>8, <2>3, StackKept DEF Probe
    <3>3. QED
      BY <3>1, <3>2
  <2>4. QED
    BY <1>8, <2>1, <2>2, <2>3, Zenon DEF Probe
<1>9. CASE Bootstrap
  <2>1. CASE /\ loopIdx' = loopIdx + 1
             /\ pc' = IF loopIdx + 1 = NBoot THEN "work" ELSE "boot"
             /\ UNCHANGED stack
    <3>1. pc' \in Pcs
      BY <2>1 DEF Pcs, ScopePcs
    <3>2. DataOK'
      BY <1>0, <1>9, <2>1, <3>1 DEF Bootstrap, DataOK
    <3>3. StackOK'
      BY <1>0, <1>9, <2>1, StackKept DEF Bootstrap
    <3>4. QED
      BY <3>2, <3>3
  <2>2. CASE Raise /\ UNCHANGED loopIdx
    <3>1. DataOK'
      BY <1>0, <1>9, <2>2, RaiseType DEF Bootstrap, DataOK
    <3>2. StackOK'
      BY <1>0, <1>9, <2>2, StackRaise DEF Bootstrap
    <3>3. QED
      BY <3>1, <3>2
  <2>3. QED
    BY <1>9, <2>1, <2>2, Zenon DEF Bootstrap
<1>10. CASE \E b \in BOOLEAN : SetKeep(b)
  <2>1. PICK b \in BOOLEAN : SetKeep(b)
    BY <1>10
  <2>2. DataOK'
    BY <1>0, <2>1 DEF SetKeep, DataOK
  <2>3. StackOK'
    BY <1>0, <2>1, StackKept DEF SetKeep
  <2>4. QED
    BY <2>2, <2>3
<1>11. CASE Abandon
  <2>1. DataOK'
    BY <1>0, <1>11 DEF Abandon, DataOK
  <2>2. StackOK'
    BY <1>0, <1>11, StackKept DEF Abandon
  <2>3. QED
    BY <2>1, <2>2
<1>12. CASE ExitScope
  <2>1. DataOK'
    BY <1>0, <1>12 DEF ExitScope, DataOK, Pcs
  <2>2. StackOK'
    BY <1>0, <1>12, StackStart DEF ExitScope
  <2>3. QED
    BY <2>1, <2>2
<1>13. CASE TermCheck
  <2>1. DataOK'
    BY <1>0, <1>13 DEF TermCheck, DataOK
  <2>2. (IF instance = "id" /\ ~keepinstance THEN "call" ELSE "restore")
          \in FramePcs
    BY DEF FramePcs
  <2>3. StackOK'
    BY <1>0, <1>13, <2>2, StackSetTop DEF TermCheck
  <2>4. QED
    BY <2>1, <2>3
<1>14. CASE TermCall
  <2>1. CASE termCalls' = termCalls + 1 /\ SetTop("wait") /\ UNCHANGED pc
    <3>1. DataOK'
      BY <1>0, <1>14, <2>1 DEF TermCall, DataOK
    <3>2. StackOK'
      BY <1>0, <1>14, <2>1, StackSetTop DEF TermCall, FramePcs
    <3>3. QED
      BY <3>1, <3>2
  <2>2. CASE Raise /\ UNCHANGED termCalls
    <3>1. DataOK'
      BY <1>0, <1>14, <2>2, RaiseType DEF TermCall, DataOK
    <3>2. StackOK'
      BY <1>0, <1>14, <2>2, StackRaise DEF TermCall
    <3>3. QED
      BY <3>1, <3>2
  <2>3. QED
    BY <1>14, <2>1, <2>2, Zenon DEF TermCall
<1>20. CASE TermWait
  <2>1. CASE cloud' = "terminated" /\ SetTop("clear") /\ UNCHANGED pc
    <3>1. DataOK'
      BY <1>0, <1>20, <2>1 DEF TermWait, DataOK
    <3>2. StackOK'
      BY <1>0, <1>20, <2>1, StackSetTop DEF TermWait, FramePcs
    <3>3. QED
      BY <3>1, <3>2
  <2>2. CASE Raise /\ UNCHANGED cloud
    <3>1. DataOK'
      BY <1>0, <1>20, <2>2, RaiseType DEF TermWait, DataOK
    <3>2. StackOK'
      BY <1>0, <1>20, <2>2, StackRaise DEF TermWait
    <3>3. QED
      BY <3>1, <3>2
  <2>3. QED
    BY <1>20, <2>1, <2>2, Zenon DEF TermWait
<1>15. CASE TermClear
  <2>1. DataOK'
    BY <1>0, <1>15 DEF TermClear, DataOK
  <2>2. StackOK'
    BY <1>0, <1>15, StackSetTop DEF TermClear, FramePcs
  <2>3. QED
    BY <2>1, <2>2
<1>16. CASE TermRestore
  <2>1. handlers' \in [Signals -> {"orig", "guard"}]
    BY <1>0, <1>16 DEF TermRestore, DataOK
  <2>2. CASE \E sg \in Signals : saved[sg] = "none"
    <3>1. Raise /\ UNCHANGED exitDone
      BY <1>16, <2>2 DEF TermRestore
    <3>2. DataOK'
      BY <1>0, <1>16, <2>1, <3>1, RaiseType DEF TermRestore, DataOK
    <3>3. StackOK'
      BY <1>0, <1>16, <3>1, StackRaise DEF TermRestore
    <3>4. QED
      BY <3>2, <3>3
  <2>3. CASE ~\E sg \in Signals : saved[sg] = "none"
    <3>1. Return
      BY <1>16, <2>3 DEF TermRestore
    <3>2. pc' \in Pcs /\ exitDone' \in BOOLEAN /\ (pc' = "install" => pc = "install")
      BY <1>0, <3>1, ReturnPc DEF DataOK
    <3>3. DataOK'
      BY <1>0, <1>16, <2>1, <3>2 DEF TermRestore, DataOK
    <3>4. StackOK'
      BY <1>0, <1>16, <3>1, StackReturn DEF TermRestore
    <3>5. QED
      BY <3>3, <3>4
  <2>4. QED
    BY <2>2, <2>3
<1>17. CASE \E sg \in Signals : Signal(sg)
  <2>1. PICK sg \in Signals : Signal(sg)
    BY <1>17
  <2>2. /\ sigs \in Nat
        /\ sigs' = sigs + 1
        /\ sigs' \in 0..MaxSignals
    BY <1>0, <2>1, ConstantsAssumption DEF Signal, StackOK
  <2>3. CASE handlers[sg] = "guard" /\ stack' = Append(stack, "check")
             /\ UNCHANGED <<pc, loopIdx>>
    <3>1. stack' \in Seq(FramePcs) /\ Len(stack') = Len(stack) + 1
      BY <1>0, <2>3, PushLemma DEF StackOK, FramePcs
    <3>2. StackOK'
      BY <1>0, <2>2, <3>1 DEF StackOK
    <3>3. DataOK'
      BY <1>0, <2>1, <2>3 DEF Signal, DataOK
    <3>4. QED
      BY <3>2, <3>3
  <2>4. CASE pc' = "end" /\ stack' = <<>> /\ UNCHANGED loopIdx
    <3>1. StackOK'
      BY <2>2, <2>4, EmptySeq DEF StackOK
    <3>2. DataOK'
      BY <1>0, <2>1, <2>4 DEF Signal, DataOK, Pcs
    <3>3. QED
      BY <3>1, <3>2
  <2>5. CASE Raise /\ UNCHANGED loopIdx
    <3>1. /\ stack' \in Seq(FramePcs) /\ Len(stack') <= 1
          /\ pc' \in Pcs /\ pc' \in {"exit", "end"}
      BY <2>5, RaiseType
    <3>2. StackOK'
      BY <2>2, <3>1 DEF StackOK
    <3>3. DataOK'
      BY <1>0, <2>1, <2>5, <3>1 DEF Signal, DataOK
    <3>4. QED
      BY <3>2, <3>3
  <2>7. CASE loopIdx' = loopIdx + 1 /\ UNCHANGED <<pc, stack>>
    <3>1. StackOK'
      BY <1>0, <2>2, <2>7 DEF StackOK
    <3>2. DataOK'
      BY <1>0, <2>1, <2>7 DEF Signal, DataOK
    <3>3. QED
      BY <3>1, <3>2
  <2>6. QED
    BY <2>1, <2>3, <2>4, <2>5, <2>7, Zenon DEF Signal
<1>18. CASE UNCHANGED vars
  <2>1. DataOK'
    BY <1>0, <1>18 DEF vars, DataOK
  <2>2. StackOK'
    BY <1>0, <1>18, StackKept DEF vars
  <2>3. QED
    BY <2>1, <2>2
<1>99. QED
  BY <1>1, <1>2, <1>3, <1>4, <1>5, <1>6, <1>7, <1>8, <1>9, <1>10, <1>11,
     <1>12, <1>13, <1>14, <1>15, <1>16, <1>17, <1>18, <1>19, <1>20, Zenon
  DEF Next, Internal


(* Type correctness of the lifecycle: every reachable state has each       *)
(* variable of the main code, of the terminate() frames and of the         *)
(* handler table in its type, however signals nest terminate() calls.      *)
THEOREM TypeCorrect == Spec => []TypeOK
<1>1. Init => TypeInv
  BY InitTypeInv
<1>2. TypeInv /\ [Next]_vars => TypeInv'
  BY NextTypeInv
<1>3. TypeInv => TypeOK
  BY DEF TypeInv
<1>4. QED
  BY <1>1, <1>2, <1>3, PTL DEF Spec

-----------------------------------------------------------------------------
(***************************************************************************)
(* ClearedMeansTerminated.  Only TermClear sets self.instance to None, and *)
(* it runs in a frame whose terminate-instances request was accepted: the  *)
(* strengthening ClearFramesTerminated says so of every frame at "clear",  *)
(* nested ones included.                                                   *)
(***************************************************************************)

(* A step that keeps the provider state and leaves no new "clear" frame.   *)
LEMMA CFTStackKept ==
    ASSUME ClearFramesTerminated, cloud' = cloud,
           \/ stack' = stack
           \/ stack' = << >>
           \/ stack' = <<"check">>
    PROVE  ClearFramesTerminated'
<1>1. CASE stack' = stack
  BY <1>1 DEF ClearFramesTerminated
<1>2. CASE stack' = << >>
  BY <1>2 DEF ClearFramesTerminated
<1>3. CASE stack' = <<"check">>
  BY <1>3 DEF ClearFramesTerminated
<1>4. QED
  BY <1>1, <1>2, <1>3

(* Raise leaves an empty stack or the single frame of __exit__.            *)
LEMMA RaiseStack ==
    ASSUME Raise
    PROVE  stack' = << >> \/ stack' = <<"check">>
BY DEF Raise

(* Moving the innermost frame keeps the strengthening when the new control *)
(* point is not "clear", or the request has been accepted.                 *)
LEMMA CFTSetTop ==
    ASSUME ClearFramesTerminated, stack \in Seq(FramePcs), stack # << >>,
           NEW f \in FramePcs, SetTop(f),
           f = "clear" => cloud' = "terminated",
           cloud' = cloud \/ cloud' = "terminated"
    PROVE  ClearFramesTerminated'
<1> SUFFICES ASSUME NEW i \in 1..Len(stack'), stack'[i] = "clear"
             PROVE  cloud' = "terminated"
  BY DEF ClearFramesTerminated
<1>1. /\ Len(stack') = Len(stack)
      /\ stack'[i] = IF i = Len(stack) THEN f ELSE stack[i]
  BY SetTopLemma DEF SetTop
<1>2. CASE i = Len(stack)
  BY <1>1, <1>2
<1>3. CASE i # Len(stack)
  <2>1. stack[i] = "clear" /\ i \in 1..Len(stack)
    BY <1>1, <1>3
  <2>2. cloud = "terminated"
    BY <2>1 DEF ClearFramesTerminated
  <2>3. QED
    BY <2>2
<1>4. QED
  BY <1>2, <1>3

(* Returning from the innermost frame keeps the strengthening.             *)
LEMMA CFTPop ==
    ASSUME ClearFramesTerminated, stack \in Seq(FramePcs), stack # << >>,
           stack' = SubSeq(stack, 1, Len(stack) - 1), cloud' = cloud
    PROVE  ClearFramesTerminated'
<1>1. Len(stack) >= 1
  BY EmptySeq, LenProperties
<1>2. /\ Len(stack') = Len(stack) - 1
      /\ \A i \in 1..Len(stack) - 1 : stack'[i] = stack[i]
  BY <1>1, PopLemma
<1>3. \A i \in 1..Len(stack) - 1 : i \in 1..Len(stack)
  BY <1>1
<1>4. QED
  BY <1>2, <1>3 DEF ClearFramesTerminated

(* A signal's new frame starts at "check".                                 *)
LEMMA CFTPush ==
    ASSUME ClearFramesTerminated, stack \in Seq(FramePcs),
           stack' = Append(stack, "check"), cloud' = cloud
    PROVE  ClearFramesTerminated'
<1> SUFFICES ASSUME NEW i \in 1..Len(stack'), stack'[i] = "clear"
             PROVE  cloud' = "terminated"
  BY DEF ClearFramesTerminated
<1>1. /\ Len(stack') = Len(stack) + 1
      /\ \A k \in 1..Len(stack) : stack'[k] = stack[k]
      /\ stack'[Len(stack) + 1] = "check"
  BY PushLemma DEF FramePcs
<1>2. Len(stack) \in Nat
  BY LenProperties
<1>3. i \in 1..Len(stack)
  BY <1>1, <1>2
<1>4. QED
  BY <1>1, <1>3 DEF ClearFramesTerminated

(* A step that keeps the provider state, self.instance and abandoned, and  *)
(* adds no "clear" frame keeps both conjuncts.                             *)
LEMMA CalmStep ==
    ASSUME ClearedMeansTerminated, ClearFramesTerminated,
           cloud' = cloud, instance' = instance, abandoned' = abandoned,
           \/ stack' = stack
           \/ stack' = << >>
           \/ stack' = <<"check">>
    PROVE  ClearedMeansTerminated' /\ ClearFramesTerminated'
<1>1. ClearedMeansTerminated'
  BY DEF ClearedMeansTerminated
<1>2. ClearFramesTerminated'
  BY CFTStackKept
<1>3. QED
  BY <1>1, <1>2

(* The strengthened invariant holds initially.                             *)
LEMMA InitIInv == Init => IInv
<1> SUFFICES ASSUME Init PROVE IInv
  OBVIOUS
<1>1. Len(stack) = 0
  BY EmptySeq DEF Init
<1>2. QED
  BY <1>1, InitTypeInv DEF Init, IInv, ClearedMeansTerminated,
     ClearFramesTerminated

(* Every step of Next keeps the strengthened invariant.                    *)
LEMMA NextIInv == IInv /\ [Next]_vars => IInv'
<1> SUFFICES ASSUME IInv, [Next]_vars
             PROVE  ClearedMeansTerminated' /\ ClearFramesTerminated'
  BY NextTypeInv DEF IInv
<1>0. /\ ClearedMeansTerminated /\ ClearFramesTerminated
      /\ stack \in Seq(FramePcs)
  BY DEF IInv, TypeInv, TypeOK
<1>1. CASE RunInstances
  <2>1. CASE /\ cloud' = "running" /\ instance' = "id" /\ pc' = "vols"
             /\ loopIdx' = 0 /\ UNCHANGED stack
    <3>1. stack' = << >>
      BY <1>1, <2>1 DEF RunInstances, Running
    <3>2. QED
      BY <2>1, <3>1 DEF ClearedMeansTerminated, ClearFramesTerminated
  <2>2. CASE Raise /\ UNCHANGED <<cloud, instance, loopIdx>>
    BY <1>0, <1>1, <2>2, RaiseStack, CalmStep DEF RunInstances
  <2>3. QED
    BY <1>1, <2>1, <2>2, Zenon DEF RunInstances
<1>2. CASE AttachVolumes
  BY <1>0, <1>2, CalmStep DEF AttachVolumes
<1>3. CASE FindVolumes
  <2>1. cloud' = cloud /\ instance' = instance /\ abandoned' = abandoned
    BY <1>3 DEF FindVolumes
  <2>2. stack' = stack \/ stack' = << >> \/ stack' = <<"check">>
    BY <1>3, RaiseStack, Zenon DEF FindVolumes
  <2>3. QED
    BY <1>0, <2>1, <2>2, CalmStep
<1>4. CASE CreateTags
  BY <1>0, <1>4, CalmStep DEF CreateTags
<1>5. CASE FindInstances
  <2>1. cloud' = cloud /\ instance' = instance /\ abandoned' = abandoned
    BY <1>5 DEF FindInstances
  <2>2. stack' = stack \/ stack' = << >> \/ stack' = <<"check">>
    BY <1>5, RaiseStack, Zenon DEF FindInstances
  <2>3. QED
    BY <1>0, <2>1, <2>2, CalmStep
<1>6. CASE EnterSave
  BY <1>0, <1>6, CalmStep DEF EnterSave
<1>19. CASE EnterInstall
  BY <1>0, <1>19, CalmStep DEF EnterInstall
<1>7. CASE WaitUntilReady
  <2>1. cloud' = cloud /\ instance' = instance /\ abandoned' = abandoned
    BY <1>7 DEF WaitUntilReady
  <2>2. stack' = stack \/ stack' = << >> \/ stack' = <<"check">>
    BY <1>7, RaiseStack, Zenon DEF WaitUntilReady
  <2>3. QED
    BY <1>0, <2>1, <2>2, CalmStep
<1>8. CASE Probe
  <2>1. cloud' = cloud /\ instance' = instance /\ abandoned' = abandoned
    BY <1>8 DEF Probe
  <2>2. stack' = stack \/ stack' = << >> \/ stack' = <<"check">>
    BY <1>8, RaiseStack, Zenon DEF Probe
  <2>3. QED
    BY <1>0, <2>1, <2>2, CalmStep
<1>9. CASE Bootstrap
  <2>1. cloud' = cloud /\ instance' = instance /\ abandoned' = abandoned
    BY <1>9 DEF Bootstrap
  <2>2. stack' = stack \/ stack' = << >> \/ stack' = <<"check">>
    BY <1>9, RaiseStack, Zenon DEF Bootstrap
  <2>3. QED
    BY <1>0, <2>1, <2>2, CalmStep
<1>10. CASE \E b \in BOOLEAN : SetKeep(b)
  BY <1>0, <1>10, CalmStep DEF SetKeep
<1>11. CASE Abandon
  <2>1. ClearedMeansTerminated'
    BY <1>11 DEF Abandon, ClearedMeansTerminated
  <2>2. ClearFramesTerminated'
    BY <1>0, <1>11, CFTStackKept DEF Abandon
  <2>3. QED
    BY <2>1, <2>2
<1>12. CASE ExitScope
  BY <1>0, <1>12, CalmStep DEF ExitScope
<1>13. CASE TermCheck
  <2>1. ClearedMeansTerminated'
    BY <1>0, <1>13 DEF TermCheck, ClearedMeansTerminated
  <2>2. ClearFramesTerminated'
    <3>1. (IF instance = "id" /\ ~keepinstance THEN "call" ELSE "restore")
            \in FramePcs \ {"clear"}
      BY DEF FramePcs
    <3>2. QED
      BY <1>0, <1>13, <3>1, CFTSetTop DEF TermCheck
  <2>3. QED
    BY <2>1, <2>2
<1>14. CASE TermCall
  <2>1. CASE termCalls' = termCalls + 1 /\ SetTop("wait") /\ UNCHANGED pc
    <3>1. ClearedMeansTerminated'
      BY <1>0, <1>14 DEF TermCall, ClearedMeansTerminated
    <3>2. ClearFramesTerminated'
      BY <1>0, <1>14, <2>1, CFTSetTop DEF TermCall, FramePcs
    <3>3. QED
      BY <3>1, <3>2
  <2>2. CASE Raise /\ UNCHANGED termCalls
    BY <1>0, <1>14, <2>2, RaiseStack, CalmStep DEF TermCall
  <2>3. QED
    BY <1>14, <2>1, <2>2, Zenon DEF TermCall
<1>20. CASE TermWait
  <2>1. CASE cloud' = "terminated" /\ SetTop("clear") /\ UNCHANGED pc
    <3>1. ClearedMeansTerminated'
      BY <2>1 DEF ClearedMeansTerminated
    <3>2. ClearFramesTerminated'
      BY <1>0, <1>20, <2>1, CFTSetTop DEF TermWait, FramePcs
    <3>3. QED
      BY <3>1, <3>2
  <2>2. CASE Raise /\ UNCHANGED cloud
    BY <1>0, <1>20, <2>2, RaiseStack, CalmStep DEF TermWait
  <2>3. QED
    BY <1>20, <2>1, <2>2, Zenon DEF TermWait
<1>15. CASE TermClear
  <2>1. Len(stack) \in 1..Len(stack) /\ stack[Len(stack)] = "clear"
    BY <1>0, <1>15, EmptySeq, LenProperties DEF TermClear, Top
  <2>2. cloud = "terminated"
    BY <1>0, <2>1 DEF ClearFramesTerminated
  <2>3. ClearedMeansTerminated'
    BY <1>15, <2>2 DEF TermClear, ClearedMeansTerminated
  <2>4. ClearFramesTerminated'
    BY <1>0, <1>15, CFTSetTop DEF TermClear, FramePcs
  <2>5. QED
    BY <2>3, <2>4
<1>16. CASE TermRestore
  <2>1. CASE \E sg \in Signals : saved[sg] = "none"
    <3>1. Raise
      BY <1>16, <2>1 DEF TermRestore
    <3>2. QED
      BY <1>0, <1>16, <3>1, RaiseStack, CalmStep DEF TermRestore
  <2>2. CASE ~\E sg \in Signals : saved[sg] = "none"
    <3>1. stack' = SubSeq(stack, 1, Len(stack) - 1)
      BY <1>16, <2>2 DEF TermRestore, Return
    <3>2. ClearFramesTerminated'
      BY <1>0, <1>16, <3>1, CFTPop DEF TermRestore
    <3>3. ClearedMeansTerminated'
      BY <1>0, <1>16 DEF TermRestore, ClearedMeansTerminated
    <3>4. QED
      BY <3>2, <3>3
  <2>3. QED
    BY <2>1, <2>2
<1>17. CASE \E sg \in Signals : Signal(sg)
  <2>1. PICK sg \in Signals : Signal(sg)
    BY <1>17
  <2>2. cloud' = cloud /\ instance' = instance /\ abandoned' = abandoned
    BY <2>1 DEF Signal
  <2>3. CASE stack' = Append(stack, "check")
    <3>1. ClearFramesTerminated'
      BY <1>0, <2>2, <2>3, CFTPush
    <3>2. ClearedMeansTerminated'
      BY <1>0, <2>2 DEF ClearedMeansTerminated
    <3>3. QED
      BY <3>1, <3>2
  <2>4. CASE stack' = stack \/ stack' = << >> \/ stack' = <<"check">>
    BY <1>0, <2>2, <2>4, CalmStep
  <2>5. QED
    BY <2>1, <2>3, <2>4, RaiseStack, Zenon DEF Signal
<1>18. CASE UNCHANGED vars
  BY <1>0, <1>18, CalmStep DEF vars
<1>99. QED
  BY <1>1, <1>2, <1>3, <1>4, <1>5, <1>6, <1>7, <1>8, <1>9, <1>10, <1>11,
     <1>12, <1>13, <1>14, <1>15, <1>16, <1>17, <1>18, <1>19, <1>20, Zenon
  DEF Next, Internal

(* terminate() forgets the instance (self.instance = None) only after the  *)
(* provider accepted its termination, for every nesting of terminate()     *)
(* calls through the signal handler and every failing request.             *)
THEOREM ClearedMeansTerminatedHolds == Spec => []ClearedMeansTerminated
<1>1. Init => IInv
  BY InitIInv
<1>2. IInv /\ [Next]_vars => IInv'
  BY NextIInv
<1>3. IInv => ClearedMeansTerminated
  BY DEF IInv
<1>4. QED
  BY <1>1, <1>2, <1>3, PTL DEF Spec

=============================================================================
