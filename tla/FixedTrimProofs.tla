--------------------------- MODULE FixedTrimProofs ---------------------------
(***************************************************************************)
(* Proofs about FixedTrim, for recordings of any number of slices, names   *)
(* of any width in any radix, and every way in which slices fail, calls    *)
(* end and the caller gives up.                                            *)
(***************************************************************************)
EXTENDS FixedTrim, FiniteSetTheorems, SequenceTheorems, WellFoundedInduction, TLAPS

-----------------------------------------------------------------------------
(***************************************************************************)
(* The invariant.                                                          *)
(***************************************************************************)
Before1    == {"probe", "root", "run", "dirs", "split"}
After1     == {"gather", "concat", "report"}
Phases     == Before1 \cup {"trim", "validate"} \cup After1 \cup {"returned"}
FileStates == {"absent", "bad", "complete"}

MapTypes ==
  /\ call \in [op : {"MapSettledOrdered"}, n : Nat]
  /\ cancelled \in BOOLEAN
  /\ started \in 0 .. call.n
  /\ running \in SUBSET Slices /\ (\A i \in running : i <= started)
  /\ failed = {}

SliceTypes ==
  /\ stage \in [Slices -> {"detect", "render", "probe", "done"}]
  /\ trimmedWAV \in [Slices -> FileStates]
  /\ outcome \in [Slices -> Outcomes]
  /\ verdict \in [Slices -> Verdicts]

CallTypes ==
  /\ configured \in BOOLEAN /\ rootDir \in BOOLEAN /\ runDir \in BOOLEAN
  /\ phase \in Phases
  /\ merged \in [state : FileStates, slices : Seq(Nat)]
  /\ ret \in [path : {"none", "input", "", "merged"}, err : {"nil", "own", "ctx"}]

TypeInv == MapTypes /\ SliceTypes /\ CallTypes

\* What a slice has gone through, seen from the mapping call that runs.  The call
\* that trims gives up on the slices it has not started only when it is cancelled,
\* and so does the call that checks.
SliceOK(i) ==
  /\ phase \in Before1 => outcome[i] = "none" /\ verdict[i] = "none"
  /\ phase = "trim" => /\ outcome[i] = "none" <=> i > started \/ i \in running
                       /\ verdict[i] = "none"
  /\ phase \in {"validate"} \cup After1 /\ outcome[i] = "none" => cancelled
  /\ phase = "validate" => (verdict[i] = "none" <=> i > started \/ i \in running)
  /\ phase \in After1 /\ verdict[i] = "none" => cancelled
  /\ "failedCtx" \in {outcome[i], verdict[i]} => cancelled
  /\ verdict[i] = "noPath" => outcome[i] \notin WithPath
  /\ verdict[i] \in {"failedOwn", "failedCtx", "short", "valid"} =>
       outcome[i] \in WithPath

SliceInv == \A i \in Slices : SliceOK(i)

\* A file that was trimmed was rendered completely before it was probed.
FileInv ==
  \A i \in Slices :
    /\ stage[i] = "probe" => trimmedWAV[i] = "complete"
    /\ outcome[i] = "trimmed" => trimmedWAV[i] = "complete"

CallInv ==
  /\ phase \in Before1 => started = 0
  /\ phase \notin {"trim", "validate"} => running = {}
  /\ phase # "returned" => ret.path = "none"

DirInv ==
  /\ phase \in Phases \ {"probe", "root", "returned"} => rootDir
  /\ phase \in Phases \ {"probe", "root", "run", "returned"} => runDir
  /\ phase = "returned" /\ ~ configured => ~ rootDir /\ ~ runDir

\* Every slice was given its turn, and no cancellation has cut it short.
Untouched ==
  \A i \in Slices : /\ outcome[i] \notin {"none", "failedCtx"}
                    /\ verdict[i] \notin {"none", "failedCtx"}

\* What the merged file holds is what the loop over the checked slices took.
MergedInv ==
  /\ merged.slices # <<>> => phase \in {"report", "returned"} /\ merged.slices = Paths
  /\ phase = "report" \/ ret.path = "merged" =>
       merged.state = "complete" /\ Untouched
  /\ ret.path = "" /\ ~ cancelled =>
       Untouched /\ \A i \in Slices : ~ Valid(i)

IInv == TypeInv /\ SliceInv /\ FileInv /\ CallInv /\ DirInv /\ MergedInv

-----------------------------------------------------------------------------
(***************************************************************************)
(* What a step leaves alone, and where it goes.                            *)
(***************************************************************************)
\* The statements of the call that are no mapping call.
CallOnly == \/ Probe \/ MakeRoot \/ MakeRunDir \/ MakeSliceDirs \/ Split
            \/ Gather \/ Concat \/ Report

LEMMA Steps ==
  ASSUME [TrimNext]_trimVars
  PROVE  \/ CancelCall \/ CallOnly \/ StartSlice \/ FinishTrim \/ FinishValidate
         \/ \E i \in Slices : SliceStep(i)
         \/ UNCHANGED trimVars
BY DEF TrimNext, CallStep, CallOnly, TrimFinished

LEMMA CallOnlyFrame ==
  ASSUME CallOnly
  PROVE  UNCHANGED <<mapVars, itemVars>>
BY DEF CallOnly, Probe, MakeRoot, MakeRunDir, MakeSliceDirs, Split, Gather, Concat, Report

LEMMA CallOnlyPhases ==
  /\ Probe \/ MakeRoot \/ MakeRunDir \/ MakeSliceDirs =>
       phase \in Before1 /\ phase' \in Before1 \cup {"returned"}
  /\ Split => phase = "split" /\ phase' \in {"trim", "returned"}
  /\ Gather \/ Concat \/ Report => phase \in After1 /\ phase' \in After1 \cup {"returned"}
  /\ FinishTrim => phase = "trim" /\ phase' = "validate"
  /\ FinishValidate => phase = "validate" /\ phase' = "gather"
BY DEF Probe, MakeRoot, MakeRunDir, MakeSliceDirs, Split, Gather, Concat, Report, FinishTrim,
       FinishValidate, Leave, GoOn, Before1, After1

\* A slice is at work while a mapping call runs, and the call's own variables wait.
LEMMA SliceStepFrame ==
  ASSUME CancelCall \/ StartSlice \/ \E i \in Slices : SliceStep(i)
  PROVE  UNCHANGED <<phase, dirVars, merged, ret, configured>>
BY DEF CancelCall, StartSlice, SliceStep, TrimDetect, TrimRender, TrimProbe, Validate,
       SettleSlice, others

\* What a step of slice i does to the mapping call: nothing, or it ends.
LEMMA SliceStepMap ==
  ASSUME NEW i \in Slices, SliceStep(i)
  PROVE  /\ UNCHANGED <<call, cancelled, started>>
         /\ \/ UNCHANGED <<running, failed>>
            \/ running' = running \ {i} /\ failed' = failed
BY DEF SliceStep, TrimDetect, TrimRender, TrimProbe, Validate, SettleSlice, EndTrim, Map!End,
       Map!Settle, mapVars

\* A step does not change the call, and with it its slices.
LEMMA CallFrame ==
  ASSUME [TrimNext]_trimVars
  PROVE  call' = call /\ configured' = configured /\ Slices' = Slices
<1>1. CASE CancelCall
  BY <1>1 DEF CancelCall, Map!Cancel, others, Slices, Map!MapItems
<1>2. CASE CallOnly
  BY <1>2, CallOnlyFrame DEF CallOnly, Probe, MakeRoot, MakeRunDir, MakeSliceDirs, Split,
     Gather, Concat, Report, mapVars, Slices, Map!MapItems
<1>3. CASE StartSlice
  BY <1>3 DEF StartSlice, Map!Start, others, Slices, Map!MapItems
<1>4. CASE FinishTrim \/ FinishValidate
  BY <1>4 DEF FinishTrim, FinishValidate, Map!Finish, Slices, Map!MapItems
<1>5. CASE \E i \in Slices : SliceStep(i)
  BY <1>5, SliceStepFrame, SliceStepMap DEF Slices, Map!MapItems
<1>6. CASE UNCHANGED trimVars
  BY <1>6 DEF trimVars, mapVars, Slices, Map!MapItems
<1> QED
  BY <1>1, <1>2, <1>3, <1>4, <1>5, <1>6, Steps

-----------------------------------------------------------------------------
(***************************************************************************)
(* Types.                                                                  *)
(***************************************************************************)
LEMMA NextMapTypes ==
  ASSUME MapTypes, [TrimNext]_trimVars
  PROVE  MapTypes'
<1>0. call' = call /\ Slices' = Slices
  BY CallFrame
<1> USE DEF MapTypes
<1>1. CASE CancelCall
  BY <1>0, <1>1 DEF CancelCall, Map!Cancel
<1>2. CASE CallOnly
  BY <1>0, <1>2, CallOnlyFrame DEF mapVars
<1>3. CASE StartSlice
  BY <1>0, <1>3 DEF StartSlice, Map!Start, Map!ItemsLeft, Slices, Map!MapItems
<1>4. CASE FinishTrim \/ FinishValidate
  BY <1>0, <1>4 DEF FinishTrim, FinishValidate, Map!Finish, Map!MayFinish
<1>5. CASE \E i \in Slices : SliceStep(i)
  BY <1>0, <1>5, SliceStepMap
<1>6. CASE UNCHANGED trimVars
  BY <1>0, <1>6 DEF trimVars, mapVars
<1> QED
  BY <1>1, <1>2, <1>3, <1>4, <1>5, <1>6, Steps

LEMMA NextSliceTypes ==
  ASSUME SliceTypes, [TrimNext]_trimVars
  PROVE  SliceTypes'
<1>0. Slices' = Slices
  BY CallFrame
<1> USE DEF SliceTypes, FileStates, Outcomes, Verdicts, WithPath
<1>1. ASSUME UNCHANGED itemVars PROVE SliceTypes'
  BY <1>0, <1>1 DEF itemVars
<1>2. CASE CancelCall \/ StartSlice \/ FinishTrim \/ FinishValidate
  BY <1>1, <1>2 DEF CancelCall, StartSlice, FinishTrim, FinishValidate, others
<1>3. CASE CallOnly
  BY <1>1, <1>3, CallOnlyFrame
<1>4. ASSUME NEW i \in Slices, TrimDetect(i)
      PROVE  SliceTypes'
  BY <1>0, <1>4 DEF TrimDetect, EndTrim, Cause
<1>5. ASSUME NEW i \in Slices, TrimRender(i)
      PROVE  SliceTypes'
  BY <1>0, <1>5 DEF TrimRender, EndTrim, Cause
<1>6. ASSUME NEW i \in Slices, TrimProbe(i)
      PROVE  SliceTypes'
  BY <1>0, <1>6 DEF TrimProbe, EndTrim
<1>7. ASSUME NEW i \in Slices, Validate(i)
      PROVE  SliceTypes'
  BY <1>0, <1>7 DEF Validate, Checked
<1>8. ASSUME NEW i \in Slices, SettleSlice(i)
      PROVE  SliceTypes'
  BY <1>1, <1>8 DEF SettleSlice, others
<1>9. CASE UNCHANGED trimVars
  BY <1>1, <1>9 DEF trimVars
<1> QED
  BY <1>2, <1>3, <1>4, <1>5, <1>6, <1>7, <1>8, <1>9, Steps DEF SliceStep

-----------------------------------------------------------------------------
(***************************************************************************)
(* Induction, by way of the least member of a set of numbers.              *)
(***************************************************************************)
LEMMA LeastMember ==
  ASSUME NEW S \in SUBSET Nat, S # {}
  PROVE  \E m \in S : \A k \in S : m <= k
<1> DEFINE T == {0 .. k : k \in S}
<1>1. IsWellFoundedOn(StrictSubsetOrdering(Nat), FiniteSubsetsOf(Nat))
  BY FS_StrictSubsetOrderingWellFounded
<1>2. T \subseteq FiniteSubsetsOf(Nat) /\ T # {}
  <2>1. ASSUME NEW k \in S PROVE 0 .. k \in FiniteSubsetsOf(Nat)
    BY FS_Interval DEF FiniteSubsetsOf
  <2> QED
    BY <2>1
<1> HIDE DEF T
<1>3. PICK x \in T : \A y \in T : ~ (<<y, x>> \in StrictSubsetOrdering(Nat))
  BY <1>1, <1>2, WFMin
<1> USE DEF T
<1>4. PICK m \in S : x = 0 .. m
  OBVIOUS
<1>5. ASSUME NEW k \in S, k < m PROVE FALSE
  <2>1. 0 .. k \subseteq 0 .. m /\ 0 .. k # 0 .. m
    <3>1. k \in Nat /\ m \in Nat
      OBVIOUS
    <3>2. m \in 0 .. m /\ m \notin 0 .. k
      BY <1>5, <3>1
    <3> QED
      BY <1>5, <3>1, <3>2
  <2>2. <<0 .. k, x>> \in StrictSubsetOrdering(Nat)
    BY <2>1, <1>4 DEF StrictSubsetOrdering
  <2> QED
    BY <2>2, <1>3
<1> QED
  BY <1>5

LEMMA SetInduction ==
  ASSUME NEW S, 0 \in S, \A n \in Nat : n \in S => n + 1 \in S
  PROVE  Nat \subseteq S
<1> SUFFICES ASSUME Nat \ S # {} PROVE FALSE
  OBVIOUS
<1>1. PICK m \in Nat \ S : \A k \in Nat \ S : m <= k
  BY LeastMember
<1>2. m - 1 \in Nat /\ m - 1 \in S
  BY <1>1
<1> QED
  BY <1>2

-----------------------------------------------------------------------------
(***************************************************************************)
(* The loop that gathers the paths.                                        *)
(***************************************************************************)
\* paths after the first i slices, as upTo computes it from an earlier value.
Gathered(f, i) ==
  IF i = 0 THEN <<>>
  ELSE IF Valid(i) THEN Append(f[i - 1], i)
  ELSE f[i - 1]

LEMMA GatheredExists ==
  ASSUME NEW n \in Nat
  PROVE  \E f : f = [i \in 0 .. n |-> Gathered(f, i)]
<1> DEFINE S == {m \in Nat : \E f : f = [i \in 0 .. m |-> Gathered(f, i)]}
<1>1. 0 \in S
  <2> DEFINE f == [i \in 0 .. 0 |-> <<>>]
  <2>1. f = [i \in 0 .. 0 |-> Gathered(f, i)]
    BY DEF Gathered
  <2> QED
    BY <2>1
<1>2. ASSUME NEW m \in Nat, m \in S PROVE m + 1 \in S
  <2>1. PICK f : f = [i \in 0 .. m |-> Gathered(f, i)]
    BY <1>2
  <2> DEFINE g == [i \in 0 .. m + 1 |-> IF i <= m THEN f[i] ELSE Gathered(f, i)]
  <2>2. \A i \in 0 .. m : g[i] = f[i]
    OBVIOUS
  <2>3. \A i \in 0 .. m + 1 : Gathered(g, i) = Gathered(f, i)
    BY <2>2 DEF Gathered
  <2>4. \A i \in 0 .. m + 1 : g[i] = Gathered(g, i)
    <3> SUFFICES ASSUME NEW i \in 0 .. m + 1 PROVE g[i] = Gathered(f, i)
      BY <2>3
    <3>1. CASE i <= m
      BY <2>1, <3>1
    <3>2. CASE i = m + 1
      BY <3>2
    <3> QED
      BY <3>1, <3>2
  <2> HIDE DEF g
  <2>5. g = [i \in 0 .. m + 1 |-> Gathered(g, i)]
    <3>1. g = [i \in 0 .. m + 1 |-> g[i]]
      BY DEF g
    <3> QED
      BY <3>1, <2>4
  <2> QED
    BY <2>5
<1> HIDE DEF S
<1>3. Nat \subseteq S
  BY <1>1, <1>2, SetInduction
<1> QED
  BY <1>3 DEF S

\* s holds the valid ones of the first i slices, in order.
Gathers(s, i) ==
  /\ s \in Seq(1 .. i)
  /\ \A k \in DOMAIN s : Valid(s[k])
  /\ \A j, k \in DOMAIN s : j < k => s[j] < s[k]
  /\ \A v \in 1 .. i : Valid(v) => \E k \in DOMAIN s : s[k] = v

LEMMA GathersNext ==
  ASSUME NEW i \in Nat, NEW s, Gathers(s, i)
  PROVE  Gathers(IF Valid(i + 1) THEN Append(s, i + 1) ELSE s, i + 1)
<1>1. s \in Seq(1 .. i + 1) /\ s \in Seq(1 .. i) /\ Len(s) \in Nat /\ DOMAIN s = 1 .. Len(s)
  <2>1. s \in Seq(1 .. i) /\ 1 .. i \subseteq 1 .. i + 1
    BY DEF Gathers
  <2> QED
    BY <2>1, SeqMonotonic, LenProperties
<1>2. CASE Valid(i + 1)
  <2> DEFINE t == Append(s, i + 1)
  <2>1. /\ t \in Seq(1 .. i + 1) /\ DOMAIN t = 1 .. Len(s) + 1
        /\ \A k \in 1 .. Len(s) : t[k] = s[k]
        /\ t[Len(s) + 1] = i + 1
    BY <1>1, AppendProperties, LenProperties
  <2> HIDE DEF t
  <2>2. \A k \in 1 .. Len(s) : s[k] \in 1 .. i
    BY <1>1, ElementOfSeq
  <2>3. ASSUME NEW k \in DOMAIN t PROVE Valid(t[k])
    <3>1. CASE k \in 1 .. Len(s)
      BY <1>1, <2>1, <3>1 DEF Gathers
    <3>2. CASE k = Len(s) + 1
      BY <1>2, <2>1, <3>2
    <3> QED
      BY <1>1, <2>1, <3>1, <3>2
  <2>4. ASSUME NEW j \in DOMAIN t, NEW k \in DOMAIN t, j < k PROVE t[j] < t[k]
    <3>1. CASE k \in 1 .. Len(s)
      <4>1. j \in 1 .. Len(s)
        BY <1>1, <2>1, <2>4, <3>1
      <4> QED
        BY <1>1, <2>1, <2>4, <3>1, <4>1 DEF Gathers
    <3>2. CASE k = Len(s) + 1
      <4>1. j \in 1 .. Len(s) /\ s[j] \in 1 .. i
        BY <1>1, <2>1, <2>2, <2>4, <3>2
      <4> QED
        BY <2>1, <3>2, <4>1
    <3> QED
      BY <1>1, <2>1, <3>1, <3>2
  <2>5. ASSUME NEW v \in 1 .. i + 1, Valid(v) PROVE \E k \in DOMAIN t : t[k] = v
    <3>1. CASE v = i + 1
      BY <1>1, <2>1, <3>1
    <3>2. CASE v \in 1 .. i
      BY <1>1, <2>1, <2>5, <3>2 DEF Gathers
    <3> QED
      BY <3>1, <3>2
  <2> QED
    BY <1>2, <2>1, <2>3, <2>4, <2>5 DEF Gathers, t
<1>3. CASE ~ Valid(i + 1)
  <2>1. \A v \in 1 .. i + 1 : Valid(v) => v \in 1 .. i
    BY <1>3
  <2> QED
    BY <1>1, <1>3, <2>1 DEF Gathers
<1> QED
  BY <1>2, <1>3

\* The loop takes the valid slices, all of them and in order.
LEMMA PathsProperties ==
  ASSUME call.n \in Nat
  PROVE  Gathers(Paths, call.n)
<1> DEFINE upTo == CHOOSE f : f = [i \in 0 .. call.n |-> Gathered(f, i)]
<1>1. Paths = upTo[call.n]
  BY DEF Paths, Gathered
<1>2. upTo = [i \in 0 .. call.n |-> Gathered(upTo, i)]
  BY GatheredExists
<1> HIDE DEF upTo
<1>3. \A i \in 0 .. call.n : upTo[i] = Gathered(upTo, i)
  BY <1>2
<1> DEFINE S == {i \in Nat : i <= call.n => Gathers(upTo[i], i)}
<1>4. 0 \in S
  <2>1. upTo[0] = <<>>
    BY <1>3 DEF Gathered
  <2>2. Gathers(<<>>, 0)
    BY EmptySeq DEF Gathers
  <2> QED
    BY <2>1, <2>2
<1>5. ASSUME NEW i \in Nat, i \in S PROVE i + 1 \in S
  <2> SUFFICES ASSUME i + 1 <= call.n PROVE Gathers(upTo[i + 1], i + 1)
    OBVIOUS
  <2>1. Gathers(upTo[i], i)
    BY <1>5
  <2>2. upTo[i + 1] = IF Valid(i + 1) THEN Append(upTo[i], i + 1) ELSE upTo[i]
    BY <1>3 DEF Gathered
  <2> QED
    BY <2>1, <2>2, GathersNext
<1> HIDE DEF S
<1>6. Nat \subseteq S
  BY <1>4, <1>5, SetInduction
<1> QED
  BY <1>1, <1>6 DEF S

LEMMA PathsType ==
  ASSUME call.n \in Nat
  PROVE  Paths \in Seq(Nat)
<1>1. Paths \in Seq(1 .. call.n) /\ 1 .. call.n \subseteq Nat
  BY PathsProperties DEF Gathers
<1> QED
  BY <1>1, SeqMonotonic

-----------------------------------------------------------------------------
(***************************************************************************)
(* Returning and going on.                                                 *)
(***************************************************************************)
\* Whatever is returned, the directories that the call made are gone.
LEMMA LeaveEffect ==
  ASSUME TypeInv, NEW p \in {"input", "", "merged"}, NEW e \in {"nil", "own", "ctx"},
         Leave(p, e), configured' = configured,
         merged' \in [state : FileStates, slices : Seq(Nat)]
  PROVE  CallTypes' /\ DirInv'
<1>1. \A d : Kept(d, e) \in BOOLEAN /\ (~ configured => ~ Kept(d, e))
  BY DEF Kept
<1>2. /\ rootDir' \in BOOLEAN /\ runDir' \in BOOLEAN
      /\ ~ configured' => ~ rootDir' /\ ~ runDir'
  BY <1>1 DEF Leave
<1>3. /\ phase' = "returned"
      /\ ret' \in [path : {"none", "input", "", "merged"}, err : {"nil", "own", "ctx"}]
  BY DEF Leave
<1> QED
  BY <1>2, <1>3 DEF TypeInv, CallTypes, DirInv, Phases

\* A statement that comes after the directories were made keeps them.
LEMMA GoOnEffect ==
  ASSUME TypeInv, DirInv, phase \notin {"probe", "root", "run", "returned"},
         NEW p \in Phases \ {"returned"}, GoOn(p), configured' = configured,
         merged' \in [state : FileStates, slices : Seq(Nat)]
  PROVE  CallTypes' /\ DirInv'
BY DEF GoOn, TypeInv, CallTypes, DirInv, Phases, dirVars

LEMMA NextCallTypes ==
  ASSUME TypeInv, DirInv, [TrimNext]_trimVars
  PROVE  CallTypes' /\ DirInv'
<1>0. configured' = configured
  BY CallFrame
<1>m. merged \in [state : FileStates, slices : Seq(Nat)]
  BY DEF TypeInv, CallTypes
<1>f. ASSUME UNCHANGED <<dirVars, phase, merged, ret>>
      PROVE  CallTypes' /\ DirInv'
  BY <1>0, <1>f DEF TypeInv, CallTypes, DirInv, dirVars
<1>1. CASE CancelCall
  BY <1>1, <1>f DEF CancelCall, others
<1>2. CASE Probe
  <2>1. PICK e \in BackendErrors :
          IF e = "nil" THEN GoOn("root") ELSE Leave("input", e)
    BY <1>2 DEF Probe
  <2>2. merged' = merged /\ phase = "probe" /\ e \in {"nil", "own", "ctx"}
    BY <1>2 DEF Probe, BackendErrors
  <2>3. CASE e = "nil"
    BY <2>1, <2>2, <2>3, <1>0 DEF GoOn, TypeInv, CallTypes, DirInv, dirVars, Phases, Before1
  <2> QED
    BY <2>1, <2>2, <2>3, <1>0, <1>m, LeaveEffect
<1>3. CASE MakeRoot
  <2>1. merged' = merged
    BY <1>3 DEF MakeRoot
  <2>2. CASE Leave("input", "own")
    BY <2>1, <2>2, <1>0, <1>m, LeaveEffect
  <2>3. CASE phase' = "run" /\ rootDir' = TRUE /\ UNCHANGED <<runDir, ret>>
    BY <2>1, <2>3, <1>0, <1>3 DEF MakeRoot, TypeInv, CallTypes, DirInv, Phases, Before1
  <2> QED
    BY <1>3, <2>2, <2>3 DEF MakeRoot
<1>4. CASE MakeRunDir
  <2>1. merged' = merged
    BY <1>4 DEF MakeRunDir
  <2>2. CASE Leave("input", "own")
    BY <2>1, <2>2, <1>0, <1>m, LeaveEffect
  <2>3. CASE phase' = "dirs" /\ runDir' = TRUE /\ UNCHANGED <<rootDir, ret>>
    BY <2>1, <2>3, <1>0, <1>4 DEF MakeRunDir, TypeInv, CallTypes, DirInv, Phases, Before1
  <2> QED
    BY <1>4, <2>2, <2>3 DEF MakeRunDir
<1>5. CASE MakeSliceDirs
  <2>1. merged' = merged /\ phase = "dirs" /\ "split" \in Phases \ {"returned"}
    BY <1>5 DEF MakeSliceDirs, Phases, Before1
  <2>2. CASE Leave("input", "own")
    BY <2>1, <2>2, <1>0, <1>m, LeaveEffect
  <2>3. CASE GoOn("split")
    BY <2>1, <2>3, <1>0, <1>m, GoOnEffect
  <2> QED
    BY <1>5, <2>2, <2>3 DEF MakeSliceDirs
<1>6. CASE Split
  <2>1. PICK e \in BackendErrors :
          IF e # "nil" THEN Leave("input", e)
          ELSE IF call.n = 0 THEN Leave("", "nil") ELSE GoOn("trim")
    BY <1>6 DEF Split
  <2>2. /\ merged' = merged /\ phase = "split" /\ "trim" \in Phases \ {"returned"}
        /\ e \in {"nil", "own", "ctx"}
    BY <1>6 DEF Split, BackendErrors, Phases
  <2>3. CASE GoOn("trim")
    BY <2>2, <2>3, <1>0, <1>m, GoOnEffect
  <2>4. CASE \E p \in {"input", ""} : Leave(p, e)
    BY <2>2, <2>4, <1>0, <1>m, LeaveEffect
  <2> QED
    BY <2>1, <2>3, <2>4
<1>7. CASE StartSlice
  BY <1>7, <1>f DEF StartSlice, others
<1>8. CASE FinishTrim
  BY <1>0, <1>8 DEF FinishTrim, TypeInv, CallTypes, DirInv, dirVars, Phases
<1>9. CASE FinishValidate
  <2>1. /\ merged' = merged /\ phase = "validate" /\ GoOn("gather")
        /\ "gather" \in Phases \ {"returned"}
    BY <1>9 DEF FinishValidate, Phases, After1
  <2> QED
    BY <2>1, <1>0, <1>m, GoOnEffect
<1>10. CASE Gather
  <2>1. merged' = merged /\ phase = "gather" /\ "concat" \in Phases \ {"returned"}
    BY <1>10 DEF Gather, Phases, After1
  <2>2. CASE Leave("", "nil")
    BY <2>1, <2>2, <1>0, <1>m, LeaveEffect
  <2>3. CASE GoOn("concat")
    BY <2>1, <2>3, <1>0, <1>m, GoOnEffect
  <2> QED
    BY <1>10, <2>2, <2>3 DEF Gather
<1>11. CASE Concat
  <2>1. phase = "concat" /\ "report" \in Phases \ {"returned"}
    BY <1>11 DEF Concat, Phases, After1
  <2>2. CASE merged' = [state |-> "complete", slices |-> Paths] /\ GoOn("report")
    <3>1. merged' \in [state : FileStates, slices : Seq(Nat)]
      BY <2>2, PathsType DEF TypeInv, MapTypes, FileStates
    <3> QED
      BY <2>1, <2>2, <3>1, <1>0, GoOnEffect
  <2>3. CASE /\ merged' = [state |-> "bad", slices |-> <<>>]
             /\ Leave("input", IF cancelled THEN "ctx" ELSE "own")
    <3>1. merged' \in [state : FileStates, slices : Seq(Nat)]
      BY <2>3 DEF FileStates
    <3>2. (IF cancelled THEN "ctx" ELSE "own") \in {"nil", "own", "ctx"}
      OBVIOUS
    <3> QED
      BY <2>3, <3>1, <3>2, <1>0, LeaveEffect
  <2> QED
    BY <1>11, <2>2, <2>3 DEF Concat
<1>12. CASE Report
  BY <1>12, <1>0, <1>m, LeaveEffect DEF Report
<1>13. ASSUME NEW i \in Slices, SliceStep(i)
       PROVE  CallTypes' /\ DirInv'
  BY <1>13, <1>f DEF SliceStep, TrimDetect, TrimRender, TrimProbe, Validate, SettleSlice,
                     others
<1>14. CASE UNCHANGED trimVars
  BY <1>14, <1>f DEF trimVars
<1> QED
  BY <1>1, <1>2, <1>3, <1>4, <1>5, <1>6, <1>7, <1>8, <1>9, <1>10, <1>11, <1>12, <1>13, <1>14
     DEF TrimNext, CallStep, TrimFinished

-----------------------------------------------------------------------------
(***************************************************************************)
(* The slices.                                                             *)
(***************************************************************************)
\* A step that leaves a slice as it is.
LEMMA SliceFrame ==
  ASSUME NEW i \in Slices, SliceOK(i), phase' = phase,
         outcome'[i] = outcome[i], verdict'[i] = verdict[i],
         (i > started \/ i \in running) <=> (i > started' \/ i \in running'),
         cancelled => cancelled'
  PROVE  SliceOK(i)'
BY DEF SliceOK

LEMMA NextSliceInv ==
  ASSUME TypeInv, CallInv, SliceInv, [TrimNext]_trimVars
  PROVE  SliceInv'
<1> SUFFICES ASSUME NEW i \in Slices PROVE SliceOK(i)'
  BY CallFrame DEF SliceInv
<1> USE DEF TypeInv, MapTypes, SliceTypes
<1>i. SliceOK(i) /\ i \in 1 .. call.n /\ i \in Int /\ started \in Int
  BY DEF SliceInv, Slices, Map!MapItems
<1>1. CASE CancelCall
  BY <1>1, <1>i, SliceFrame DEF CancelCall, Map!Cancel, others, itemVars
<1>2. CASE Probe \/ MakeRoot \/ MakeRunDir \/ MakeSliceDirs
  BY <1>2, <1>i, CallOnlyFrame, CallOnlyPhases
     DEF CallOnly, SliceOK, Before1, After1, mapVars, itemVars
<1>3. CASE Split
  BY <1>3, <1>i, CallOnlyFrame, CallOnlyPhases
     DEF CallOnly, SliceOK, Before1, After1, mapVars, itemVars, CallInv
<1>4. CASE StartSlice
  <2>1. /\ started' = started + 1 /\ running' = running \cup {started + 1}
        /\ UNCHANGED <<cancelled, outcome, verdict, phase>>
    BY <1>4 DEF StartSlice, Map!Start, others, itemVars
  <2> QED
    BY <2>1, <1>i, SliceFrame
<1>5. CASE FinishTrim
  <2>1. /\ running = {} /\ started' = 0 /\ UNCHANGED <<cancelled, outcome, verdict, running>>
        /\ started = call.n \/ cancelled
    BY <1>5 DEF FinishTrim, Map!MayFinish, itemVars
  <2> QED
    BY <2>1, <1>5, <1>i, CallOnlyPhases DEF SliceOK, Before1, After1
<1>6. CASE FinishValidate
  <2>1. /\ running = {} /\ UNCHANGED <<cancelled, outcome, verdict>>
        /\ started = call.n \/ cancelled
    BY <1>6 DEF FinishValidate, Map!Finish, Map!MayFinish, itemVars
  <2> QED
    BY <2>1, <1>6, <1>i, CallOnlyPhases DEF SliceOK, Before1, After1
<1>7. CASE Gather \/ Concat \/ Report
  BY <1>7, <1>i, CallOnlyFrame, CallOnlyPhases
     DEF CallOnly, SliceOK, Before1, After1, mapVars, itemVars
<1>8. ASSUME NEW j \in Slices, TrimDetect(j) \/ TrimRender(j) \/ TrimProbe(j)
      PROVE  SliceOK(i)'
  <2>1. /\ phase = "trim" /\ phase' = "trim" /\ j \in running
        /\ UNCHANGED <<cancelled, started, verdict>>
    BY <1>8 DEF TrimDetect, TrimRender, TrimProbe, Trimming, EndTrim, Map!End, mapVars
  <2>2. CASE UNCHANGED <<running, outcome>>
    BY <2>1, <2>2, <1>i, SliceFrame
  <2>3. CASE \E o \in {"failedOwn", "failedCtx", "silent", "whole", "trimmed"} :
               EndTrim(j, o) /\ (o = "failedCtx" => cancelled)
    <3>1. PICK o \in {"failedOwn", "failedCtx", "silent", "whole", "trimmed"} :
            EndTrim(j, o) /\ (o = "failedCtx" => cancelled)
      BY <2>3
    <3>2. running' = running \ {j} /\ outcome' = [outcome EXCEPT ![j] = o]
      BY <3>1 DEF EndTrim, Map!End
    <3>3. CASE i = j
      BY <2>1, <3>1, <3>2, <3>3, <1>i DEF SliceOK, Before1, After1, WithPath
    <3>4. CASE i # j
      BY <2>1, <3>2, <3>4, <1>i, SliceFrame
    <3> QED
      BY <3>3, <3>4
  <2> QED
    BY <1>8, <2>2, <2>3 DEF TrimDetect, TrimRender, TrimProbe, Cause, mapVars
<1>9. ASSUME NEW j \in Slices, Validate(j)
      PROVE  SliceOK(i)'
  <2>1. /\ phase = "validate" /\ phase' = "validate" /\ j \in running
        /\ UNCHANGED <<cancelled, started, outcome>> /\ running' = running \ {j}
    BY <1>9 DEF Validate, Map!End
  <2>2. PICK v \in Checked(j) : verdict' = [verdict EXCEPT ![j] = v]
    BY <1>9 DEF Validate
  <2>3. CASE i = j
    BY <2>1, <2>2, <2>3, <1>i DEF SliceOK, Before1, After1, WithPath, Checked
  <2>4. CASE i # j
    BY <2>1, <2>2, <2>4, <1>i, SliceFrame
  <2> QED
    BY <2>3, <2>4
<1>10. ASSUME NEW j \in Slices, SettleSlice(j)
       PROVE  SliceOK(i)'
  BY <1>10, <1>i, SliceFrame DEF SettleSlice, Map!Settle, others, itemVars
<1>11. CASE UNCHANGED trimVars
  BY <1>11, <1>i, SliceFrame DEF trimVars, mapVars, itemVars
<1> QED
  BY <1>1, <1>2, <1>3, <1>4, <1>5, <1>6, <1>7, <1>8, <1>9, <1>10, <1>11
     DEF TrimNext, CallStep, SliceStep, TrimFinished

LEMMA NextFileInv ==
  ASSUME TypeInv, SliceInv, FileInv, [TrimNext]_trimVars
  PROVE  FileInv'
<1> SUFFICES ASSUME NEW i \in Slices
             PROVE  /\ stage'[i] = "probe" => trimmedWAV'[i] = "complete"
                    /\ outcome'[i] = "trimmed" => trimmedWAV'[i] = "complete"
  BY CallFrame DEF FileInv
<1> USE DEF TypeInv, SliceTypes, FileInv
<1>1. ASSUME UNCHANGED <<stage, trimmedWAV, outcome>>
      PROVE  /\ stage'[i] = "probe" => trimmedWAV'[i] = "complete"
             /\ outcome'[i] = "trimmed" => trimmedWAV'[i] = "complete"
  BY <1>1
<1>2. ASSUME NEW j \in Slices, TrimDetect(j) \/ TrimRender(j) \/ TrimProbe(j)
      PROVE  /\ stage'[i] = "probe" => trimmedWAV'[i] = "complete"
             /\ outcome'[i] = "trimmed" => trimmedWAV'[i] = "complete"
  <2>1. /\ stage[j] \in {"detect", "render", "probe"} /\ outcome[j] = "none"
        /\ \/ trimmedWAV' = trimmedWAV
           \/ stage[j] = "render" /\ \E f \in {"bad", "complete"} :
                trimmedWAV' = [trimmedWAV EXCEPT ![j] = f]
        /\ \/ /\ \E s \in {"render", "probe"} : stage' = [stage EXCEPT ![j] = s]
              /\ stage'[j] = "probe" => trimmedWAV'[j] = "complete"
              /\ outcome' = outcome
           \/ /\ stage' = [stage EXCEPT ![j] = "done"]
              /\ \E o \in Outcomes : outcome' = [outcome EXCEPT ![j] = o]
              /\ outcome'[j] = "trimmed" => stage[j] = "probe" /\ trimmedWAV' = trimmedWAV
    BY <1>2 DEF TrimDetect, TrimRender, TrimProbe, Trimming, EndTrim, Cause, Outcomes,
                WithPath, SliceInv, SliceOK
  <2>2. CASE i = j
    BY <2>1, <2>2
  <2>3. CASE i # j
    BY <2>1, <2>3
  <2> QED
    BY <2>2, <2>3
<1>3. ASSUME NEW j \in Slices, Validate(j) \/ SettleSlice(j)
      PROVE  UNCHANGED <<stage, trimmedWAV, outcome>>
  BY <1>3 DEF Validate, SettleSlice, others, itemVars
<1>4. CASE CancelCall \/ StartSlice \/ FinishTrim \/ FinishValidate
  BY <1>4, <1>1 DEF CancelCall, StartSlice, FinishTrim, FinishValidate, others, itemVars
<1>5. CASE CallOnly
  BY <1>5, <1>1, CallOnlyFrame DEF itemVars
<1>6. CASE UNCHANGED trimVars
  BY <1>6, <1>1 DEF trimVars, itemVars
<1> QED
  BY <1>1, <1>2, <1>3, <1>4, <1>5, <1>6, Steps DEF SliceStep

LEMMA NextCallInv ==
  ASSUME TypeInv, CallInv, [TrimNext]_trimVars
  PROVE  CallInv'
<1>1. CASE CancelCall
  BY <1>1, SliceStepFrame DEF CancelCall, Map!Cancel, CallInv
<1>2. CASE StartSlice
  BY <1>2, SliceStepFrame DEF StartSlice, InMap, CallInv, Before1
<1>3. CASE \E i \in Slices : SliceStep(i)
  <2>1. phase' = phase /\ ret' = ret
    BY <1>3, SliceStepFrame
  <2>2. phase \in {"trim", "validate"} /\ phase \notin Before1
    BY <1>3 DEF SliceStep, TrimDetect, TrimRender, TrimProbe, Trimming, Validate, SettleSlice,
                InMap, Before1
  <2> QED
    BY <2>1, <2>2 DEF CallInv
<1>4. CASE FinishTrim \/ FinishValidate
  <2>1. running' = {} /\ ret' = ret /\ phase' \in {"validate", "gather"} /\ phase # "returned"
    BY <1>4, CallOnlyPhases DEF FinishTrim, FinishValidate, Map!Finish, Map!MayFinish, GoOn
  <2> QED
    BY <2>1 DEF CallInv, Before1
<1>5. CASE CallOnly
  <2>1. started' = started /\ running' = running
    BY <1>5, CallOnlyFrame DEF mapVars
  <2>2. phase' # "returned" => ret' = ret
    BY <1>5 DEF CallOnly, Probe, MakeRoot, MakeRunDir, MakeSliceDirs, Split, Gather, Concat,
                Report, GoOn, Leave
  <2>3. /\ phase # "returned" /\ phase \notin {"trim", "validate"}
        /\ phase' \in Before1 => phase \in Before1
    BY <1>5, CallOnlyPhases DEF CallOnly, Before1, After1
  <2> QED
    BY <2>1, <2>2, <2>3 DEF CallInv
<1>6. CASE UNCHANGED trimVars
  BY <1>6 DEF trimVars, mapVars, CallInv
<1> QED
  BY <1>1, <1>2, <1>3, <1>4, <1>5, <1>6, Steps

-----------------------------------------------------------------------------
(***************************************************************************)
(* The merged file.                                                        *)
(***************************************************************************)
\* Once every slice was checked, only a cancellation can have left a trace.
LEMMA UntouchedUnlessCancelled ==
  ASSUME SliceInv, phase \in After1, ~ cancelled
  PROVE  Untouched
BY DEF SliceInv, SliceOK, Untouched, After1

LEMMA MergedFrame ==
  ASSUME MergedInv, UNCHANGED <<call, outcome, verdict, merged, ret, phase>>,
         ret.path = "" => cancelled' = cancelled
  PROVE  MergedInv'
<1>1. Slices' = Slices /\ Paths' = Paths /\ (\A i : Valid(i)' = Valid(i))
  BY DEF Slices, Map!MapItems, Paths, Valid
<1> QED
  BY <1>1 DEF MergedInv, Untouched

LEMMA NextMergedInv ==
  ASSUME TypeInv, SliceInv, CallInv, MergedInv, [TrimNext]_trimVars
  PROVE  MergedInv'
<1>0. call' = call /\ Slices' = Slices
  BY CallFrame
<1>1. CASE CancelCall
  BY <1>1, MergedFrame DEF CancelCall, Map!Cancel, others, itemVars, CallInv
<1>2. CASE phase \notin After1 \cup {"returned"} /\ merged' = merged /\ ret' = ret
  <2>1. merged.slices = <<>> /\ ret.path = "none" /\ phase # "report"
    BY <1>2 DEF MergedInv, CallInv, After1
  <2>2. phase' # "report"
    <3>1. ASSUME phase' = "report" PROVE Concat \/ phase' = phase
      BY <3>1, CallOnlyPhases, SliceStepFrame, <1>2
         DEF TrimNext, CallStep, TrimFinished, trimVars, Before1, Gather, Report, Leave, GoOn
    <3> QED
      BY <3>1, <2>1, <1>2 DEF Concat, After1
  <2> QED
    BY <1>2, <2>1, <2>2 DEF MergedInv
<1>3. CASE \/ Probe \/ MakeRoot \/ MakeRunDir \/ MakeSliceDirs
  <2>1. merged' = merged /\ phase' # "report" /\ phase # "returned"
    BY <1>3, CallOnlyPhases DEF Probe, MakeRoot, MakeRunDir, MakeSliceDirs, Before1
  <2>2. merged.slices = <<>>
    BY <1>3, CallOnlyPhases DEF MergedInv, Before1
  <2>3. ret' = ret \/ \E e : ret' = [path |-> "input", err |-> e]
    BY <1>3 DEF Probe, MakeRoot, MakeRunDir, MakeSliceDirs, Leave, GoOn
  <2>4. ret'.path \in {"none", "input"}
    BY <2>1, <2>3 DEF CallInv
  <2> QED
    BY <2>1, <2>2, <2>4 DEF MergedInv
<1>4. CASE Split
  <2>0. \/ ret' = ret
        \/ \E e : ret' = [path |-> "input", err |-> e]
        \/ call.n = 0 /\ ret' = [path |-> "", err |-> "nil"]
    BY <1>4 DEF Split, Leave, GoOn
  <2>f. merged' = merged
    BY <1>4 DEF Split
  <2>p. phase = "split" /\ phase' \in {"trim", "returned"} /\ ret.path = "none"
    BY <1>4, CallOnlyPhases DEF CallInv
  <2>1. /\ merged' = merged /\ ret'.path # "merged" /\ phase' # "report"
        /\ ret'.path = "" => call.n = 0
    <3>1. CASE ret' = ret
      BY <2>p, <2>f, <3>1
    <3>2. CASE \E e : ret' = [path |-> "input", err |-> e]
      BY <2>p, <2>f, <3>2
    <3>3. CASE call.n = 0 /\ ret' = [path |-> "", err |-> "nil"]
      <4>1. ret'.path = ""
        BY <3>3
      <4> QED
        BY <2>p, <2>f, <3>3, <4>1
    <3> QED
      BY <2>0, <3>1, <3>2, <3>3
  <2>2. merged.slices = <<>>
    BY <1>4, CallOnlyPhases DEF MergedInv, Before1
  <2>3. call.n = 0 => Slices' = {}
    BY <1>0 DEF Slices, Map!MapItems
  <2> QED
    BY <2>1, <2>2, <2>3 DEF MergedInv, Untouched
<1>5. CASE Gather
  <2>0. \/ ret' = ret /\ phase' = "concat"
        \/ Paths = <<>> /\ ret' = [path |-> "", err |-> "nil"] /\ phase' = "returned"
    BY <1>5 DEF Gather, Leave, GoOn
  <2>f. UNCHANGED <<cancelled, outcome, verdict, merged>>
    BY <1>5 DEF Gather, mapVars, itemVars
  <2>p. phase = "gather" /\ ret.path = "none"
    BY <1>5 DEF Gather, CallInv
  <2>1. /\ UNCHANGED <<cancelled, outcome, verdict, merged>> /\ phase = "gather"
        /\ ret'.path # "merged" /\ phase' # "report"
        /\ ret'.path = "" => Paths = <<>>
    <3>1. CASE ret' = ret /\ phase' = "concat"
      BY <2>p, <2>f, <3>1
    <3>2. CASE Paths = <<>> /\ ret' = [path |-> "", err |-> "nil"] /\ phase' = "returned"
      <4>1. ret'.path = ""
        BY <3>2
      <4> QED
        BY <2>p, <2>f, <3>2, <4>1
    <3> QED
      BY <2>0, <3>1, <3>2
  <2>2. merged.slices = <<>>
    BY <2>1 DEF MergedInv
  <2>3. Paths = <<>> => \A i \in Slices : ~ Valid(i)
    BY PathsProperties DEF Gathers, Slices, Map!MapItems, TypeInv, MapTypes
  <2>4. ~ cancelled => Untouched
    BY <2>1, UntouchedUnlessCancelled DEF After1
  <2> QED
    BY <1>0, <2>1, <2>2, <2>3, <2>4 DEF MergedInv, Untouched, Valid
<1>6. CASE Concat
  <2>1. UNCHANGED <<call, cancelled, outcome, verdict>> /\ phase = "concat"
    BY <1>6 DEF Concat, mapVars, itemVars
  <2>2. Paths' = Paths
    BY <2>1 DEF Paths, Valid
  <2>3. CASE /\ ~ cancelled /\ merged' = [state |-> "complete", slices |-> Paths]
             /\ GoOn("report")
    <3>1. ret'.path = "none" /\ phase' = "report"
      BY <2>1, <2>3 DEF GoOn, CallInv
    <3>2. Untouched
      BY <2>1, <2>3, UntouchedUnlessCancelled DEF After1
    <3> QED
      BY <1>0, <2>1, <2>2, <2>3, <3>1, <3>2 DEF MergedInv, Untouched
  <2>4. CASE merged'.slices = <<>> /\ phase' = "returned" /\ ret'.path = "input"
    BY <2>4 DEF MergedInv
  <2> QED
    BY <1>6, <2>3, <2>4 DEF Concat, ConcatMaySucceed, Leave
<1>7. CASE Report
  <2>1. /\ UNCHANGED <<call, cancelled, outcome, verdict, merged>> /\ phase = "report"
        /\ phase' = "returned" /\ ret'.path = "merged"
    BY <1>7 DEF Report, Leave, mapVars, itemVars
  <2>2. Paths' = Paths
    BY <2>1 DEF Paths, Valid
  <2> QED
    BY <1>0, <2>1, <2>2 DEF MergedInv, Untouched
<1>8. CASE StartSlice \/ FinishTrim \/ FinishValidate \/ \E i \in Slices : SliceStep(i)
  <2>1. phase \in {"trim", "validate"} /\ merged' = merged /\ ret' = ret
    BY <1>8, SliceStepFrame, CallOnlyPhases
       DEF StartSlice, FinishTrim, FinishValidate, GoOn, SliceStep, TrimDetect, TrimRender,
           TrimProbe, Trimming, Validate, SettleSlice, InMap
  <2> QED
    BY <1>2, <2>1 DEF After1
<1>9. CASE UNCHANGED trimVars
  BY <1>9, MergedFrame DEF trimVars, mapVars, itemVars
<1> QED
  BY <1>1, <1>3, <1>4, <1>5, <1>6, <1>7, <1>8, <1>9 DEF TrimNext, CallStep, TrimFinished

-----------------------------------------------------------------------------
(***************************************************************************)
(* The theorems.                                                           *)
(***************************************************************************)
LEMMA InitIInv == TrimInit => IInv
<1> SUFFICES ASSUME TrimInit PROVE IInv
  OBVIOUS
<1>1. call.n \in Nat /\ call \in [op : {"MapSettledOrdered"}, n : Nat]
  BY SlicesAssumption DEF TrimInit
<1>2. MapTypes
  <2>1. started = 0 /\ running = {} /\ failed = {} /\ cancelled = FALSE
    BY DEF TrimInit, Map!MapInit
  <2>2. 0 \in 0 .. call.n /\ {} \in SUBSET Slices
    BY <1>1
  <2> QED
    BY <1>1, <2>1, <2>2 DEF MapTypes
<1>3. SliceTypes
  BY DEF TrimInit, SliceTypes, FileStates, Outcomes, Verdicts
<1>4. CallTypes
  BY EmptySeq DEF TrimInit, CallTypes, Phases, Before1, FileStates
<1>5. SliceInv
  BY DEF TrimInit, SliceInv, SliceOK, After1
<1>6. FileInv /\ CallInv /\ DirInv /\ MergedInv
  BY DEF TrimInit, Map!MapInit, FileInv, CallInv, DirInv, MergedInv
<1> QED
  BY <1>2, <1>3, <1>4, <1>5, <1>6 DEF IInv, TypeInv

LEMMA NextIInv == IInv /\ [TrimNext]_trimVars => IInv'
BY NextMapTypes, NextSliceTypes, NextCallTypes, NextSliceInv, NextFileInv, NextCallInv,
   NextMergedInv DEF IInv, TypeInv

LEMMA Invariance == TrimSpec => []IInv
BY InitIInv, NextIInv, PTL DEF TrimSpec

\* A merged file that a call returns is complete, and no cancellation has taken a
\* slice out of it, for any number of slices (RemoveSilenceByFixedSlicesAndMerge).
THEOREM MergedFileIsWhole == TrimSpec => []MergedIsWhole
<1>1. IInv => MergedIsWhole
  BY DEF IInv, MergedInv, MergedIsWhole, Untouched
<1> QED
  BY <1>1, Invariance, PTL

\* "No speech" is the answer of a call that was not cancelled only if no slice
\* had speech to give (RemoveSilenceByFixedSlicesAndMerge).
THEOREM NoSpeechMeansNone == TrimSpec => []NoSpeechIsTrue
<1>1. IInv => NoSpeechIsTrue
  <2> SUFFICES ASSUME IInv, ret.path = "", ~ cancelled, NEW i \in Slices
               PROVE  \/ outcome[i] \in {"silent", "failedOwn"}
                      \/ verdict[i] \in {"short", "failedOwn"}
    BY DEF NoSpeechIsTrue
  <2>1. /\ outcome[i] \notin {"none", "failedCtx"} /\ verdict[i] \notin {"none", "failedCtx"}
        /\ verdict[i] # "valid"
    BY DEF IInv, MergedInv, Untouched, Valid
  <2>2. /\ outcome[i] \in Outcomes /\ verdict[i] \in Verdicts
        /\ verdict[i] = "noPath" => outcome[i] \notin WithPath
    BY DEF IInv, TypeInv, SliceTypes, SliceInv, SliceOK
  <2> QED
    BY <2>1, <2>2 DEF Outcomes, Verdicts, WithPath
<1> QED
  BY <1>1, Invariance, PTL

\* The temporary directory outlives the goroutines that write to it and does not
\* outlive the call, whichever statement returns (the deferred RemoveAll calls of
\* RemoveSilenceByFixedSlicesAndMerge).
THEOREM TempDirLivesAsLong == TrimSpec => []TempDirLife
<1>1. IInv => TempDirLife
  BY DEF IInv, CallInv, DirInv, TempDirLife, Returned, Phases
<1> QED
  BY <1>1, Invariance, PTL

-----------------------------------------------------------------------------
(***************************************************************************)
(* Names that have the same number of digits sort by number.               *)
(***************************************************************************)
LEMMA CompleteInduction ==
  ASSUME NEW S, \A n \in Nat : (\A m \in 0 .. n - 1 : m \in S) => n \in S
  PROVE  Nat \subseteq S
<1> SUFFICES ASSUME Nat \ S # {} PROVE FALSE
  OBVIOUS
<1>1. PICK n \in Nat \ S : \A k \in Nat \ S : n <= k
  BY LeastMember
<1>2. \A m \in 0 .. n - 1 : m \in S
  BY <1>1
<1> QED
  BY <1>1, <1>2

\* A number is its last digit and the number before it.
LEMMA DivMod ==
  ASSUME NEW n \in Nat
  PROVE  /\ n \div Radix \in Nat /\ n % Radix \in 0 .. Radix - 1
         /\ \E q, m \in Nat : q = n \div Radix /\ m = n % Radix /\ n = Radix * q + m
         /\ n < Radix => n \div Radix = 0 /\ n % Radix = n
         /\ n >= Radix => n \div Radix < n /\ n \div Radix >= 1
<1>1. PICK q \in Int, m \in Int : q = n \div Radix /\ m = n % Radix
  BY NamesAssumption
<1>2. n = Radix * q + m
  BY <1>1, NamesAssumption
<1>3. m \in 0 .. Radix - 1
  BY <1>1, NamesAssumption
<1>4. q \in Nat /\ (n < Radix => q = 0 /\ m = n)
  BY <1>1, <1>2, <1>3, NamesAssumption
<1>5. n >= Radix => q < n /\ q >= 1
  BY <1>2, <1>3, NamesAssumption
<1>6. q \in Nat /\ m \in Nat
  BY <1>3, <1>4, NamesAssumption
<1> QED
  BY <1>1, <1>2, <1>3, <1>4, <1>5, <1>6, Zenon

LEMMA DivOrder ==
  ASSUME NEW j \in Nat, NEW k \in Nat, j < k
  PROVE  \/ j \div Radix < k \div Radix
         \/ j \div Radix = k \div Radix /\ j % Radix < k % Radix
<1>1. PICK a, r \in Nat : a = j \div Radix /\ r = j % Radix /\ j = Radix * a + r
  BY DivMod
<1>2. PICK b, s \in Nat : b = k \div Radix /\ s = k % Radix /\ k = Radix * b + s
  BY DivMod
<1>3. Radix \in Nat /\ s < Radix
  <2>1. k % Radix \in 0 .. Radix - 1
    BY DivMod
  <2> QED
    BY <2>1, <1>2, NamesAssumption
<1>4. ASSUME a > b PROVE FALSE
  <2>1. PICK d \in Nat : a = b + 1 + d
    <3>1. a - b - 1 \in Nat /\ a = b + 1 + (a - b - 1)
      BY <1>4
    <3> QED
      BY <3>1
  <2>2. Radix * a = Radix * b + Radix + Radix * d /\ Radix * d \in Nat /\ Radix * b \in Nat
    BY <1>3, <2>1
  <2> QED
    BY <1>1, <1>2, <1>3, <2>2
<1>5. ASSUME a = b PROVE r < s
  BY <1>1, <1>2, <1>3, <1>5
<1>6. a < b \/ (a = b /\ r < s)
  BY <1>4, <1>5
<1> QED
  BY <1>1, <1>2, <1>6

DigitsFrom(f, n) ==
  IF n < Radix THEN <<n>> ELSE Append(f[n \div Radix], n % Radix)

LEMMA DigitsExist ==
  ASSUME NEW k \in Nat
  PROVE  \E f : f = [n \in 0 .. k |-> DigitsFrom(f, n)]
<1> DEFINE S == {m \in Nat : \E f : f = [n \in 0 .. m |-> DigitsFrom(f, n)]}
<1>1. 0 \in S
  <2> DEFINE f == [n \in 0 .. 0 |-> <<n>>]
  <2>1. f = [n \in 0 .. 0 |-> DigitsFrom(f, n)]
    BY NamesAssumption DEF DigitsFrom
  <2> QED
    BY <2>1
<1>2. ASSUME NEW m \in Nat, m \in S PROVE m + 1 \in S
  <2>1. PICK f : f = [n \in 0 .. m |-> DigitsFrom(f, n)]
    BY <1>2
  <2> DEFINE g == [n \in 0 .. m + 1 |-> IF n <= m THEN f[n] ELSE DigitsFrom(f, n)]
  <2>2. \A n \in 0 .. m : g[n] = f[n]
    OBVIOUS
  <2>3. ASSUME NEW n \in 0 .. m + 1 PROVE DigitsFrom(g, n) = DigitsFrom(f, n)
    <3>1. n >= Radix => n \div Radix \in 0 .. m
      BY DivMod
    <3> QED
      BY <2>2, <3>1, NamesAssumption DEF DigitsFrom
  <2>4. ASSUME NEW n \in 0 .. m + 1 PROVE g[n] = DigitsFrom(g, n)
    <3>1. CASE n <= m
      BY <2>1, <2>3, <3>1
    <3>2. CASE n = m + 1
      BY <2>3, <3>2
    <3> QED
      BY <3>1, <3>2
  <2> HIDE DEF g
  <2>5. g = [n \in 0 .. m + 1 |-> DigitsFrom(g, n)]
    <3>1. g = [n \in 0 .. m + 1 |-> g[n]]
      BY DEF g
    <3> QED
      BY <3>1, <2>4
  <2> QED
    BY <2>5
<1> HIDE DEF S
<1>3. Nat \subseteq S
  BY <1>1, <1>2, SetInduction
<1> QED
  BY <1>3 DEF S

\* The digits do not depend on how far the table of digits goes.
LEMMA DigitsUnique ==
  ASSUME NEW j \in Nat, NEW k \in Nat,
         NEW f, f = [n \in 0 .. j |-> DigitsFrom(f, n)],
         NEW g, g = [n \in 0 .. k |-> DigitsFrom(g, n)],
         NEW n \in Nat, n <= j, n <= k
  PROVE  f[n] = g[n]
<1> DEFINE S == {m \in Nat : m <= j /\ m <= k => f[m] = g[m]}
<1>1. ASSUME NEW m \in Nat, \A l \in 0 .. m - 1 : l \in S PROVE m \in S
  <2> SUFFICES ASSUME m <= j, m <= k PROVE f[m] = g[m]
    OBVIOUS
  <2>1. f[m] = DigitsFrom(f, m) /\ g[m] = DigitsFrom(g, m)
    <3>1. m \in 0 .. j /\ m \in 0 .. k
      OBVIOUS
    <3>2. f[m] = [l \in 0 .. j |-> DigitsFrom(f, l)][m]
      OBVIOUS
    <3>3. g[m] = [l \in 0 .. k |-> DigitsFrom(g, l)][m]
      OBVIOUS
    <3> QED
      BY <3>1, <3>2, <3>3
  <2>2. m >= Radix => f[m \div Radix] = g[m \div Radix]
    <3> SUFFICES ASSUME m >= Radix PROVE f[m \div Radix] = g[m \div Radix]
      OBVIOUS
    <3>1. /\ m \div Radix \in 0 .. m - 1 /\ m \div Radix \in Nat
          /\ m \div Radix <= j /\ m \div Radix <= k
      <4>1. m \div Radix \in Nat /\ m \div Radix < m
        BY DivMod
      <4> QED
        BY <4>1
    <3>2. m \div Radix \in S
      BY <3>1, <1>1
    <3> QED
      BY <3>1, <3>2
  <2> QED
    BY <2>1, <2>2, NamesAssumption DEF DigitsFrom
<1> HIDE DEF S
<1>2. Nat \subseteq S
  BY <1>1, CompleteInduction
<1> QED
  BY <1>2 DEF S

LEMMA DigitsOf ==
  ASSUME NEW n \in Nat
  PROVE  Digits(n) = IF n < Radix THEN <<n>> ELSE Append(Digits(n \div Radix), n % Radix)
<1> DEFINE table(k) == CHOOSE f : f = [m \in 0 .. k |-> DigitsFrom(f, m)]
<1>1. \A k \in Nat : Digits(k) = table(k)[k]
  BY DEF Digits, DigitsFrom
<1>2. ASSUME NEW k \in Nat PROVE table(k) = [m \in 0 .. k |-> DigitsFrom(table(k), m)]
  BY DigitsExist
<1> HIDE DEF table
<1>3. table(n)[n] = DigitsFrom(table(n), n)
  BY <1>2
<1>4. n >= Radix => table(n)[n \div Radix] = table(n \div Radix)[n \div Radix]
  <2> SUFFICES ASSUME n >= Radix
               PROVE  table(n)[n \div Radix] = table(n \div Radix)[n \div Radix]
    OBVIOUS
  <2>1. n \div Radix \in Nat /\ n \div Radix <= n
    BY DivMod
  <2> QED
    BY <1>2, <2>1, DigitsUnique
<1>5. n >= Radix => Digits(n \div Radix) = table(n \div Radix)[n \div Radix]
  BY <1>1, DivMod
<1>6. CASE n < Radix
  BY <1>1, <1>3, <1>6 DEF DigitsFrom
<1>7. CASE n >= Radix
  <2>1. ~ (n < Radix)
    BY <1>7, NamesAssumption
  <2> QED
    BY <1>1, <1>3, <1>4, <1>5, <1>7, <2>1 DEF DigitsFrom
<1> QED
  BY <1>6, <1>7, NamesAssumption

LEMMA DigitsType ==
  ASSUME NEW k \in Nat
  PROVE  Digits(k) \in Seq(Nat) /\ Len(Digits(k)) \in Nat \ {0}
<1> DEFINE S == {n \in Nat : Digits(n) \in Seq(Nat) /\ Len(Digits(n)) \in Nat \ {0}}
<1>1. ASSUME NEW n \in Nat, \A m \in 0 .. n - 1 : m \in S PROVE n \in S
  <2>1. CASE n < Radix
    <3>1. Digits(n) = <<n>>
      BY <2>1, DigitsOf
    <3>2. <<n>> \in Seq(Nat) /\ Len(<<n>>) \in Nat \ {0}
      OBVIOUS
    <3> QED
      BY <3>1, <3>2
  <2>2. CASE n >= Radix
    <3>1. n \div Radix \in 0 .. n - 1 /\ n % Radix \in Nat
      BY <2>2, DivMod, NamesAssumption
    <3>2. Digits(n \div Radix) \in Seq(Nat)
      BY <3>1, <1>1
    <3>0. ~ (n < Radix)
      BY <2>2, NamesAssumption
    <3>3. Digits(n) = Append(Digits(n \div Radix), n % Radix)
      BY <3>0, DigitsOf
    <3> QED
      BY <3>1, <3>2, <3>3, AppendProperties, LenProperties
  <2> QED
    BY <2>1, <2>2, NamesAssumption
<1> HIDE DEF S
<1>2. Nat \subseteq S
  BY <1>1, CompleteInduction
<1> QED
  BY <1>2 DEF S

\* The digit at place p, counted from the right and from 0; 0 where n has none.
DigitAt(n, p) ==
  IF p < Len(Digits(n)) THEN Digits(n)[Len(Digits(n)) - p] ELSE 0

LEMMA DigitAtType ==
  ASSUME NEW n \in Nat, NEW p \in Nat
  PROVE  DigitAt(n, p) \in Nat
<1>1. CASE p < Len(Digits(n))
  <2>0. Digits(n) \in Seq(Nat) /\ Len(Digits(n)) \in Nat
    BY DigitsType
  <2>1. Len(Digits(n)) - p \in 1 .. Len(Digits(n))
    BY <1>1, <2>0
  <2> QED
    BY <1>1, <2>0, <2>1, ElementOfSeq DEF DigitAt
<1>2. CASE ~ (p < Len(Digits(n)))
  BY <1>2 DEF DigitAt
<1> QED
  BY <1>1, <1>2

LEMMA DigitAtOf ==
  ASSUME NEW n \in Nat
  PROVE  /\ DigitAt(n, 0) = n % Radix
         /\ \A p \in Nat : DigitAt(n, p + 1) = DigitAt(n \div Radix, p)
<1>1. CASE n < Radix
  <2>1. Digits(n) = <<n>> /\ Len(Digits(n)) = 1 /\ n % Radix = n /\ n \div Radix = 0
    BY <1>1, DigitsOf, DivMod
  <2>2. Digits(0) = <<0>> /\ Len(Digits(0)) = 1
    BY DigitsOf, NamesAssumption
  <2> QED
    BY <2>1, <2>2 DEF DigitAt
<1>2. CASE n >= Radix
  <2> DEFINE d == Digits(n \div Radix)
  <2>0. ~ (n < Radix)
    BY <1>2, NamesAssumption
  <2>1. n \div Radix \in Nat /\ n % Radix \in Nat /\ Digits(n) = Append(d, n % Radix)
    <3>1. n \div Radix \in Nat /\ n % Radix \in Nat
      BY DivMod, NamesAssumption
    <3> QED
      BY <2>0, <3>1, DigitsOf
  <2>2. d \in Seq(Nat) /\ Len(d) \in Nat \ {0}
    BY <2>1, DigitsType
  <2>3. /\ Len(Digits(n)) = Len(d) + 1 /\ Digits(n)[Len(d) + 1] = n % Radix
        /\ \A i \in 1 .. Len(d) : Digits(n)[i] = d[i]
    BY <2>1, <2>2, AppendProperties
  <2>4. DigitAt(n, 0) = n % Radix
    BY <2>2, <2>3 DEF DigitAt
  <2>5. ASSUME NEW p \in Nat PROVE DigitAt(n, p + 1) = DigitAt(n \div Radix, p)
    <3>1. CASE p < Len(d)
      <4>1. Len(Digits(n)) - (p + 1) = Len(d) - p /\ Len(d) - p \in 1 .. Len(d)
        BY <2>2, <2>3, <3>1
      <4> QED
        BY <2>2, <2>3, <3>1, <4>1 DEF DigitAt
    <3>2. CASE ~ (p < Len(d))
      BY <2>2, <2>3, <3>2 DEF DigitAt
    <3> QED
      BY <3>1, <3>2
  <2> QED
    BY <2>4, <2>5
<1> QED
  BY <1>1, <1>2, NamesAssumption

\* The larger of two numbers has the larger digit where they differ first.
LEMMA FirstDifference ==
  ASSUME NEW k \in Nat, NEW j \in Nat, j < k
  PROVE  \E p \in Nat : /\ DigitAt(j, p) < DigitAt(k, p)
                        /\ \A q \in Nat : q > p => DigitAt(j, q) = DigitAt(k, q)
<1> DEFINE Differ(l, n) ==
      \E p \in Nat : /\ DigitAt(l, p) < DigitAt(n, p)
                     /\ \A q \in Nat : q > p => DigitAt(l, q) = DigitAt(n, q)
           S == {n \in Nat : \A l \in Nat : l < n => Differ(l, n)}
<1>1. ASSUME NEW n \in Nat, \A m \in 0 .. n - 1 : m \in S PROVE n \in S
  <2> SUFFICES ASSUME NEW l \in Nat, l < n PROVE Differ(l, n)
    OBVIOUS
  <2>1. l \div Radix \in Nat /\ n \div Radix \in Nat
    BY DivMod
  <2>0. \A q \in Nat : q > 0 => q - 1 \in Nat /\ q = (q - 1) + 1
    OBVIOUS
  <2>2. CASE l \div Radix < n \div Radix
    <3>1. n \div Radix \in 0 .. n - 1
      BY <2>1, <2>2, DivMod, NamesAssumption
    <3>2. Differ(l \div Radix, n \div Radix)
      BY <1>1, <2>1, <2>2, <3>1
    <3>3. PICK p \in Nat :
            /\ DigitAt(l \div Radix, p) < DigitAt(n \div Radix, p)
            /\ \A q \in Nat : q > p => DigitAt(l \div Radix, q) = DigitAt(n \div Radix, q)
      BY <3>2
    <3>4. DigitAt(l, p + 1) < DigitAt(n, p + 1)
      BY <3>3, DigitAtOf
    <3>5. ASSUME NEW q \in Nat, q > p + 1 PROVE DigitAt(l, q) = DigitAt(n, q)
      <4>1. q - 1 \in Nat /\ q - 1 > p /\ q = (q - 1) + 1
        BY <3>5
      <4>2. /\ DigitAt(l, (q - 1) + 1) = DigitAt(l \div Radix, q - 1)
            /\ DigitAt(n, (q - 1) + 1) = DigitAt(n \div Radix, q - 1)
        BY <4>1, DigitAtOf
      <4> QED
        BY <3>3, <4>1, <4>2
    <3> QED
      BY <3>4, <3>5
  <2>3. CASE l \div Radix = n \div Radix /\ l % Radix < n % Radix
    <3>1. DigitAt(l, 0) < DigitAt(n, 0)
      BY <2>3, DigitAtOf
    <3>2. ASSUME NEW q \in Nat, q > 0 PROVE DigitAt(l, q) = DigitAt(n, q)
      <4>1. q - 1 \in Nat /\ q = (q - 1) + 1
        BY <3>2
      <4>2. /\ DigitAt(l, (q - 1) + 1) = DigitAt(l \div Radix, q - 1)
            /\ DigitAt(n, (q - 1) + 1) = DigitAt(n \div Radix, q - 1)
        BY <4>1, DigitAtOf
      <4> QED
        BY <2>3, <4>1, <4>2
    <3> QED
      BY <3>1, <3>2
  <2> QED
    BY <2>2, <2>3, DivOrder
<1> HIDE DEF S
<1>2. Nat \subseteq S
  BY <1>1, CompleteInduction
<1> QED
  BY <1>2 DEF S

\* A name of Width digits has them from the left.
LEMMA NameDigits ==
  ASSUME NEW k \in Nat, Len(Name(k)) = Width
  PROVE  /\ Len(Digits(k)) <= Width
         /\ \A q \in 1 .. Width : Name(k)[q] = DigitAt(k, Width - q)
<1> DEFINE d == Digits(k)
           z == [j \in 1 .. Width - Len(d) |-> 0]
<1>1. d \in Seq(Nat) /\ Len(d) \in Nat \ {0} /\ Width \in Nat
  BY DigitsType, NamesAssumption
<1>2. Name(k) = z \o d
  BY DEF Name
<1>3. CASE Width - Len(d) < 0
  <2>1. z = <<>>
    <3>1. 1 .. Width - Len(d) = {}
      BY <1>1, <1>3
    <3> QED
      BY <3>1
  <2>2. Name(k) = d
    BY <1>1, <1>2, <2>1, ConcatEmptySeq
  <2> QED
    BY <1>1, <1>3, <2>2
<1>4. CASE Width - Len(d) >= 0
  <2>1. Width - Len(d) \in Nat /\ z \in Seq(Nat) /\ Len(z) = Width - Len(d)
    BY <1>1, <1>4
  <2>2. \A q \in 1 .. Len(z) + Len(d) :
          Name(k)[q] = IF q <= Len(z) THEN z[q] ELSE d[q - Len(z)]
    BY <1>1, <1>2, <2>1, ConcatProperties
  <2> HIDE DEF d
  <2>3. ASSUME NEW q \in 1 .. Width PROVE Name(k)[q] = DigitAt(k, Width - q)
    <3>1. CASE q <= Len(z)
      <4>1. Name(k)[q] = 0 /\ ~ (Width - q < Len(d))
        BY <1>1, <2>1, <2>2, <3>1
      <4> QED
        BY <4>1 DEF DigitAt, d
    <3>2. CASE q > Len(z)
      <4>1. /\ Name(k)[q] = d[q - Len(z)] /\ Width - q < Len(d)
            /\ q - Len(z) = Len(d) - (Width - q)
        BY <1>1, <2>1, <2>2, <3>2
      <4> QED
        BY <4>1 DEF DigitAt, d
    <3> QED
      BY <3>1, <3>2, <2>1
  <2> QED
    BY <1>1, <1>4, <2>3 DEF d
<1> QED
  BY <1>1, <1>3, <1>4

\* strcmp puts the lower of two numbers first, and no other order.
LEMMA NamesSortByNumber ==
  ASSUME NEW j \in Nat, NEW k \in Nat, Len(Name(j)) = Width, Len(Name(k)) = Width
  PROVE  Before(Name(j), Name(k)) <=> j < k
<1>0. Width \in Nat
  BY NamesAssumption
<1>1. \A n \in {j, k} : \A q \in 1 .. Width :
        Name(n)[q] = DigitAt(n, Width - q) /\ Name(n)[q] \in Nat
  <2> SUFFICES ASSUME NEW n \in {j, k}, NEW q \in 1 .. Width
               PROVE  Name(n)[q] = DigitAt(n, Width - q) /\ Name(n)[q] \in Nat
    OBVIOUS
  <2>1. n \in Nat /\ Len(Name(n)) = Width /\ Width - q \in Nat
    BY <1>0
  <2> QED
    BY <2>1, NameDigits, DigitAtType
<1>2. ASSUME NEW l \in {j, k}, NEW n \in {j, k}, l < n
      PROVE  Before(Name(l), Name(n))
  <2>1. PICK p \in Nat : /\ DigitAt(l, p) < DigitAt(n, p)
                         /\ \A q \in Nat : q > p => DigitAt(l, q) = DigitAt(n, q)
    BY <1>2, FirstDifference
  <2>2. p < Width
    <3>1. DigitAt(l, p) \in Nat /\ Len(Digits(n)) \in Nat /\ Len(Digits(n)) <= Width
      BY DigitAtType, DigitsType, NameDigits
    <3>2. DigitAt(n, p) # 0
      BY <2>1, <3>1
    <3> QED
      BY <3>1, <3>2, <1>0 DEF DigitAt
  <2>3. Width - p \in 1 .. Width /\ Width - (Width - p) = p
    BY <1>0, <2>2
  <2>4. \A q \in 1 .. (Width - p) - 1 : Name(l)[q] = Name(n)[q]
    <3> SUFFICES ASSUME NEW q \in 1 .. (Width - p) - 1 PROVE Name(l)[q] = Name(n)[q]
      OBVIOUS
    <3>1. q \in 1 .. Width /\ Width - q \in Nat /\ Width - q > p
      BY <1>0, <2>3
    <3> QED
      BY <1>1, <2>1, <3>1
  <2>5. Name(l)[Width - p] < Name(n)[Width - p]
    BY <1>1, <2>1, <2>3
  <2>6. Len(Name(l)) = Width /\ Len(Name(n)) = Width
    OBVIOUS
  <2> QED
    BY <1>0, <2>3, <2>4, <2>5, <2>6 DEF Before
<1>3. ASSUME Before(Name(j), Name(k)), ~ (j < k) PROVE FALSE
  <2>1. PICK p \in 1 .. Width : /\ \A q \in 1 .. p - 1 : Name(j)[q] = Name(k)[q]
                                /\ Name(j)[p] < Name(k)[p]
    BY <1>0, <1>3 DEF Before
  <2>2. CASE j = k
    BY <1>1, <2>1, <2>2
  <2>3. CASE k < j
    <3>1. PICK r \in 1 .. Width : /\ \A q \in 1 .. r - 1 : Name(k)[q] = Name(j)[q]
                                  /\ Name(k)[r] < Name(j)[r]
      BY <1>0, <1>2, <2>3 DEF Before
    <3>2. p \in Nat /\ r \in Nat /\ (p < r \/ p = r \/ r < p)
      BY <1>0
    <3> QED
      BY <1>1, <2>1, <3>1, <3>2
  <2> QED
    BY <1>3, <2>2, <2>3
<1> QED
  BY <1>2, <1>3

\* Slices whose names have the same width come back in the order of their numbers,
\* whatever the width and the radix (sa_collect_segment_paths).
THEOREM ByNameIsByNumber ==
  ASSUME NEW n \in Nat, \A k \in 0 .. n - 1 : Len(Name(k)) = Width,
         NEW place \in 1 .. n
  PROVE  ByName(n)[place] = place - 1
<1> DEFINE Lower(k) == {j \in 0 .. n - 1 : Before(Name(j), Name(k))}
<1>1. ASSUME NEW k \in 0 .. n - 1 PROVE Cardinality(Lower(k)) = k
  <2>1. Lower(k) = 0 .. k - 1
    <3>1. \A j \in 0 .. n - 1 : j \in Nat /\ k \in Nat /\ (Before(Name(j), Name(k)) <=> j < k)
      BY NamesSortByNumber
    <3> QED
      BY <3>1
  <2>2. Cardinality(0 .. k - 1) = IF 0 > k - 1 THEN 0 ELSE (k - 1) - 0 + 1
    <3>1. 0 \in Int /\ k - 1 \in Int
      OBVIOUS
    <3> QED
      BY <3>1, FS_Interval
  <2>3. Cardinality(0 .. k - 1) = k
    BY <2>2
  <2> QED
    BY <2>1, <2>3
<1>2. place - 1 \in 0 .. n - 1
  OBVIOUS
<1>3. ByName(n)[place] = CHOOSE k \in 0 .. n - 1 : Cardinality(Lower(k)) = place - 1
  BY DEF ByName
<1> HIDE DEF Lower
<1>4. \E k \in 0 .. n - 1 : Cardinality(Lower(k)) = place - 1
  BY <1>1, <1>2
<1>5. ByName(n)[place] \in 0 .. n - 1 /\ Cardinality(Lower(ByName(n)[place])) = place - 1
  BY <1>3, <1>4
<1> QED
  BY <1>1, <1>5

\* The merged file has complete and checked slices only, in the order of the
\* recording as far as the numbers fit the width of the names
\* (RemoveSilenceByFixedSlicesAndMerge, sa_collect_segment_paths).
THEOREM MergedFileInOrder == TrimSpec => []MergedInOrder
<1>1. ASSUME IInv PROVE MergedInOrder
  <2>0. call.n \in Nat
    BY <1>1 DEF IInv, TypeInv, MapTypes
  <2>1. CASE merged.slices = <<>>
    BY <2>1 DEF MergedInOrder
  <2>2. CASE merged.slices # <<>>
    <3>1. merged.slices = Paths /\ Gathers(merged.slices, call.n)
      BY <2>0, <2>2, <1>1, PathsProperties DEF IInv, MergedInv
    <3> DEFINE s == merged.slices
    <3>2. /\ s \in Seq(1 .. call.n) /\ DOMAIN s = 1 .. Len(s)
          /\ \A k \in DOMAIN s : s[k] \in 1 .. call.n /\ Valid(s[k])
          /\ \A j, k \in DOMAIN s : j < k => s[j] < s[k]
      BY <3>1, LenProperties, ElementOfSeq DEF Gathers
    <3> HIDE DEF s
    <3>3. ASSUME \A k \in 0 .. call.n - 1 : Len(Name(k)) = Width,
                 NEW j \in DOMAIN s, NEW k \in DOMAIN s, j < k
          PROVE  ByName(call.n)[s[j]] < ByName(call.n)[s[k]]
      <4>1. s[j] \in 1 .. call.n /\ s[k] \in 1 .. call.n /\ s[j] < s[k]
        BY <3>2, <3>3
      <4>2. /\ ByName(call.n)[s[j]] = s[j] - 1
            /\ ByName(call.n)[s[k]] = s[k] - 1
        BY <2>0, <3>3, <4>1, ByNameIsByNumber
      <4> QED
        BY <2>0, <4>1, <4>2
    <3>4. ASSUME NEW k \in DOMAIN s
          PROVE  /\ verdict[s[k]] = "valid"
                 /\ outcome[s[k]] = "trimmed" => trimmedWAV[s[k]] = "complete"
      <4>1. s[k] \in Slices /\ Valid(s[k])
        BY <3>2 DEF Slices, Map!MapItems
      <4> QED
        BY <4>1, <1>1 DEF IInv, FileInv, Valid
    <3> QED
      BY <3>3, <3>4 DEF MergedInOrder, s
  <2> QED
    BY <2>1, <2>2
<1> QED
  BY <1>1, Invariance, PTL
=============================================================================
