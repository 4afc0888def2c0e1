------------------------ MODULE TargetServer_proofs ------------------------
(***************************************************************************)
(* The invariants of a target, for any number and mix of handlers at work  *)
(* together.                                                               *)
(*                                                                         *)
(* A step of a handler is of one of four forms: it goes on, leaves steps   *)
(* out, returns, or stays.  What a handler has made, run and changed       *)
(* follows from where it is in its script, which is orderly; each part of  *)
(* IInv is kept by every step of these forms.  The goroutines of Read and  *)
(* the certificates, which handlers share, have parts of their own.        *)
(*                                                                         *)
(* The file that handlers share has an invariant of its own, FileInv, on   *)
(* top of IInv: eight steps of the scripts touch it, and each has a lemma. *)
(***************************************************************************)
EXTENDS TargetScripts_proofs

\* The script of a handler at work.
LEMMA ScriptLayout ==
    ASSUME ControlOK, NEW r \in Rpcs
    PROVE  /\ Len(Script(r)) \in Nat /\ DOMAIN Script(r) = 1..Len(Script(r))
           /\ Orderly(h[r], Script(r))
<1>1. h[r] \in DOMAIN Scripts
  BY DEF ControlOK, Rpcs
<1> QED BY <1>1, ScriptsOrderly DEF Script, Orderly

----------------------------------------------------------------------------
(* What a step does to the control state of a handler.                     *)

\* It goes on to its next step,
Goes(r) ==
    /\ Active(r) /\ at' = [at EXCEPT ![r] = @ + 1] /\ res' = res
    /\ temp' = IF Cur(r).do = "temp" THEN [temp EXCEPT ![r] = TRUE]
               ELSE IF Cur(r).do \in {"commit", "replace"} THEN [temp EXCEPT ![r] = FALSE]
               ELSE temp
    /\ guard' = IF Cur(r).do = "defer" THEN [guard EXCEPT ![r] = Cur(r).when] ELSE guard
    /\ blob' = IF Cur(r).do = "bucket" THEN [blob EXCEPT ![r] = "open"]
               ELSE IF Cur(r).do = "upload" THEN [blob EXCEPT ![r] = "whole"]
               ELSE blob
\* leaves some out,
Leaps(r) ==
    /\ Active(r) /\ UNCHANGED <<res, temp, guard, blob>>
    /\ \/ Cur(r).do = "maybe" /\ at' = [at EXCEPT ![r] = @ + 1 + Cur(r).n]
       \/ Cur(r).do = "check" /\ at' = [at EXCEPT ![r] = @ + 3]
       \/ Cur(r).do = "tryLoad" /\ at' = [at EXCEPT ![r] = @ + 2]
\* returns,
Returns(r) ==
    /\ res[r] = "run" /\ (Active(r) => Cur(r).do \notin {"defer", "store"})
    /\ \/ Return(r, "ok") /\ at[r] > Len(Script(r))
       \/ Return(r, "failed") \/ Return(r, "panic")
       \/ Return(r, "refused") /\ Active(r) /\ Refusing(Cur(r))
\* or stays where it is.
Stays == UNCHANGED <<at, res, temp, guard, blob>>

Shape(r) == h' = h /\ (Goes(r) \/ Leaps(r) \/ Returns(r) \/ Stays)

\* A step that has nothing to do with certificates or a directory.
Apart(r) == h' = h /\ (Goes(r) \/ Leaps(r) \/ Returns(r))
            /\ (Active(r) => Cur(r).do \notin CertSteps /\ Cur(r).do # "read")

\* What a step does to what a handler has run and changed.
Says(r) ==
    \/ UNCHANGED <<changed, ran, told>>
    \/ /\ Active(r) /\ Acting(Cur(r)) /\ at' = [at EXCEPT ![r] = @ + 1]
       /\ changed' = [changed EXCEPT ![r] = @ + 1] /\ UNCHANGED <<ran, told>>
    \/ Runs(r) \/ Waits(r)

\* Where a handler is, by the step it is at.
LEMMA AtCur ==
    ASSUME NEW r
    PROVE  /\ \A w : At(r, w) <=> Active(r) /\ Cur(r).do = w
           /\ Active(r) => res[r] = "run"
BY DEF At, Cur, Active

\* A handler at work is at a step of its script.
LEMMA ActivePosition ==
    ASSUME ControlOK, NEW r \in Rpcs, Active(r)
    PROVE  at[r] \in DOMAIN Script(r) /\ Cur(r) = Script(r)[at[r]]
<1>1. at[r] \in Nat \ {0} /\ at[r] <= Len(Script(r))
  BY DEF ControlOK, Active
<1>2. at[r] \in DOMAIN Script(r)
  BY <1>1, ScriptLayout
<1> QED BY <1>2 DEF Cur

\* Every step of a script is of one of these forms.
LEMMA ScriptStepShape ==
    ASSUME ControlOK, NEW r \in Rpcs, ScriptStep(r)
    PROVE  Apart(r) /\ Says(r)
<1> USE AtCur DEF Apart, Says, Goes, Leaps, Returns, Continue, CertSteps, Refusing,
                 rpcVars, saidVars
<1>1. CASE Finish(r)
  <2>1. ~Active(r)
    BY <1>1, ScriptLayout DEF Finish, Active, ControlOK
  <2> QED BY <1>1, <2>1 DEF Finish
<1>2. CASE Checks(r)
  BY <1>2 DEF Checks
<1>3. CASE Calls(r)
  BY <1>3 DEF Calls
<1>4. CASE Fails(r)
  BY <1>4 DEF Fails
<1>5. CASE Serves(r)
  BY <1>5 DEF Serves
<1>6. CASE Changes(r)
  BY <1>6 DEF Changes, Acting
<1>7. CASE Skips(r)
  BY <1>7 DEF Skips
<1>8. CASE Makes(r)
  BY <1>8 DEF Makes
<1>9. CASE Defers(r)
  BY <1>9 DEF Defers
<1>10. CASE Runs(r)
  BY <1>10 DEF Runs
<1>11. CASE Parses(r)
  BY <1>11 DEF Parses
<1>12. CASE OpensBucket(r)
  BY <1>12 DEF OpensBucket
<1>13. CASE Uploads(r)
  BY <1>13 DEF Uploads
<1>14. CASE Awaits(r)
  BY <1>14 DEF Awaits
<1>15. CASE Kernel(r)
  BY <1>15 DEF Kernel
<1>16. CASE Compiles(r)
  BY <1>16 DEF Compiles
<1>17. CASE Receives(r)
  BY <1>17 DEF Receives
<1>18. CASE Closes(r)
  BY <1>18 DEF Closes
<1>19. CASE Exists(r)
  BY <1>19 DEF Exists
<1>20. CASE Commits(r)
  BY <1>20 DEF Commits, Acting
<1>21. CASE LoadsConf(r)
  BY <1>21 DEF LoadsConf
<1>22. CASE ReplacesConf(r)
  BY <1>22 DEF ReplacesConf, Acting
<1>23. CASE Looks(r)
  BY <1>23 DEF Looks
<1>24. CASE OpensFile(r)
  BY <1>24 DEF OpensFile
<1>25. CASE Locks(r)
  BY <1>25 DEF Locks
<1>26. CASE ReadsIn(r)
  BY <1>26 DEF ReadsIn
<1>27. CASE Truncates(r)
  BY <1>27 DEF Truncates
<1>28. CASE Writes(r)
  <2>1. /\ At(r, "write") /\ UNCHANGED <<h, ran, told>>
        /\ \/ changed' = [changed EXCEPT ![r] = @ + 1] /\ Continue(r)
           \/ Return(r, "failed") /\ UNCHANGED changed
    BY <1>28, Zenon DEF Writes, rpcVars
  <2> QED BY <2>1 DEF Acting
<1>29. CASE CopiesCreds(r)
  BY <1>29 DEF CopiesCreds
<1>30. CASE FillsCreds(r)
  BY <1>30 DEF FillsCreds
<1> QED BY <1>1, <1>2, <1>3, <1>4, <1>5, <1>6, <1>7, <1>8, <1>9, <1>10, <1>11, <1>12, <1>13,
           <1>14, <1>15, <1>16, <1>17, <1>18, <1>19, <1>20, <1>21, <1>22, <1>23, <1>24, <1>25,
           <1>26, <1>27, <1>28, <1>29, <1>30 DEF ScriptStep

\* The same, seen at the handler that takes the step.
LEMMA GoesHere ==
    ASSUME ControlOK, NEW r \in Rpcs, h' = h, Goes(r)
    PROVE  /\ Script(r)' = Script(r) /\ at[r] \in DOMAIN Script(r) /\ at'[r] = at[r] + 1
           /\ Cur(r) = Script(r)[at[r]] /\ res[r] = "run" /\ res'[r] = "run"
           /\ temp'[r] = IF Cur(r).do = "temp" THEN TRUE
                         ELSE IF Cur(r).do \in {"commit", "replace"} THEN FALSE ELSE temp[r]
           /\ guard'[r] = IF Cur(r).do = "defer" THEN Cur(r).when ELSE guard[r]
           /\ blob'[r] = IF Cur(r).do = "bucket" THEN "open"
                         ELSE IF Cur(r).do = "upload" THEN "whole" ELSE blob[r]
<1>1. Script(r)' = Script(r) /\ Cur(r) = Script(r)[at[r]]
  BY DEF Script, Cur
<1>2. at[r] \in DOMAIN Script(r) /\ at'[r] = at[r] + 1 /\ res[r] = "run" /\ res'[r] = "run"
  BY ScriptLayout DEF Goes, Active, ControlOK
<1> HIDE DEF Cur
<1>3. temp'[r] = IF Cur(r).do = "temp" THEN TRUE
                 ELSE IF Cur(r).do \in {"commit", "replace"} THEN FALSE ELSE temp[r]
  BY DEF Goes, ControlOK
<1>4. guard'[r] = IF Cur(r).do = "defer" THEN Cur(r).when ELSE guard[r]
  BY DEF Goes, ControlOK
<1>5. blob'[r] = IF Cur(r).do = "bucket" THEN "open"
                 ELSE IF Cur(r).do = "upload" THEN "whole" ELSE blob[r]
  BY DEF Goes, ControlOK
<1> QED BY <1>1, <1>2, <1>3, <1>4, <1>5

\* Steps that are left out are none that the others rely on.
LEMMA LeapsHere ==
    ASSUME ControlOK, NEW r \in Rpcs, h' = h, Leaps(r)
    PROVE  /\ Script(r)' = Script(r) /\ at[r] \in DOMAIN Script(r)
           /\ at'[r] \in Nat /\ at'[r] > at[r] /\ res[r] = "run"
           /\ UNCHANGED <<res, temp, guard, blob>>
           /\ Cur(r) = Script(r)[at[r]]
           /\ \A i \in DOMAIN Script(r) : at[r] <= i /\ i < at'[r] =>
                 Script(r)[i].do \notin {"commit", "defer", "upload"}
<1> DEFINE s == Script(r)
           k == at[r]
<1>1. Script(r)' = Script(r) /\ Cur(r) = s[k]
  BY DEF Script, Cur
<1>2. k \in DOMAIN s /\ res[r] = "run" /\ UNCHANGED <<res, temp, guard, blob>> /\ k \in Nat
  BY ScriptLayout DEF Leaps, Active, ControlOK
<1>3. SkipsSafely(s) /\ ReloadsInOrder(s) /\ DOMAIN s = 1..Len(s) /\ Len(s) \in Nat
  BY ScriptLayout DEF Orderly
<1>4. \/ s[k].do = "maybe" /\ at'[r] = k + 1 + s[k].n
      \/ s[k].do = "check" /\ at'[r] = k + 3
      \/ s[k].do = "tryLoad" /\ at'[r] = k + 2
  BY <1>1 DEF Leaps, ControlOK
<1> HIDE DEF s, k
<1>5. CASE s[k].do = "maybe" /\ at'[r] = k + 1 + s[k].n
  <2>1. s[k].n \in Nat /\ \A j \in DOMAIN s : k < j /\ j <= k + s[k].n =>
              s[j].do \notin {"commit", "defer", "upload"}
    BY <1>2, <1>3, <1>5 DEF SkipsSafely
  <2>2. \A i \in DOMAIN s : k <= i /\ i < at'[r] => s[i].do \notin {"commit", "defer", "upload"}
    BY <1>2, <1>3, <1>5, <2>1
  <2> QED BY <1>1, <1>2, <1>5, <2>1, <2>2 DEF s, k
<1>6. CASE s[k].do = "check" /\ at'[r] = k + 3
  <2>1. k = 1 /\ 4 \in DOMAIN s /\ s[4].do \in {"shake", "clone", "pick"}
    BY <1>2, <1>3, <1>6 DEF ReloadsInOrder
  <2>2. s[3].do = "store" /\ 3 \in DOMAIN s /\ 2 \in DOMAIN s
    BY <2>1, <1>3 DEF ReloadsInOrder
  <2>3. s[2].do \in {"load", "tryLoad"}
    BY <2>2, <1>3 DEF ReloadsInOrder
  <2>4. \A i \in DOMAIN s : k <= i /\ i < at'[r] => s[i].do \notin {"commit", "defer", "upload"}
    BY <1>3, <1>6, <2>1, <2>2, <2>3
  <2> QED BY <1>1, <1>2, <1>6, <2>4 DEF s, k
<1>7. CASE s[k].do = "tryLoad" /\ at'[r] = k + 2
  <2>1. s[k + 1].do = "store"
    BY <1>2, <1>3, <1>7 DEF ReloadsInOrder
  <2>2. \A i \in DOMAIN s : k <= i /\ i < at'[r] => s[i].do \notin {"commit", "defer", "upload"}
    BY <1>2, <1>3, <1>7, <2>1
  <2> QED BY <1>1, <1>2, <1>7, <2>2 DEF s, k
<1> QED BY <1>4, <1>5, <1>6, <1>7

\* A return: where from, and what it removes.
LEMMA ReturnsHere ==
    ASSUME ControlOK, NEW r \in Rpcs, h' = h, Returns(r)
    PROVE  /\ Script(r)' = Script(r) /\ at' = at /\ guard' = guard /\ res[r] = "run"
           /\ res'[r] \in {"ok", "failed", "refused", "panic"}
           /\ res'[r] = "ok" => at[r] > Len(Script(r))
           /\ res'[r] = "refused" => at[r] \in DOMAIN Script(r) /\ Refusing(Script(r)[at[r]])
           /\ at[r] \in DOMAIN Script(r) => Script(r)[at[r]].do \notin {"defer", "store"}
           /\ temp'[r] => /\ temp[r] /\ guard[r] # "always"
                          /\ guard[r] = "error" => res'[r] = "ok"
           /\ blob'[r] \in {"open", "partial"} => blob[r] \in {"open", "partial"}
<1>1. PICK result \in {"ok", "failed", "refused", "panic"} :
         /\ Return(r, result)
         /\ result = "ok" => at[r] > Len(Script(r))
         /\ result = "refused" => Active(r) /\ Refusing(Cur(r))
  BY DEF Returns
<1>2. res'[r] = result /\ at' = at /\ guard' = guard
  BY <1>1 DEF Return, ControlOK
<1>3. temp'[r] <=> temp[r] /\ ~(guard[r] = "always" \/ (guard[r] = "error" /\ result # "ok"))
  BY <1>1 DEF Return, ControlOK
<1>4. blob'[r] = IF blob[r] = "open" THEN "partial" ELSE blob[r]
  BY <1>1 DEF Return, ControlOK
<1>5. Active(r) <=> res[r] = "run" /\ at[r] \in DOMAIN Script(r)
  BY ScriptLayout DEF Active, ControlOK
<1>6. res[r] = "run" /\ (Active(r) => Cur(r).do \notin {"defer", "store"})
  BY DEF Returns
<1>7. Script(r)' = Script(r) /\ Cur(r) = Script(r)[at[r]]
  BY DEF Script, Cur
<1> QED BY <1>1, <1>2, <1>3, <1>4, <1>5, <1>6, <1>7

\* The other handlers stay where they are.
LEMMA Elsewhere ==
    ASSUME ControlOK, NEW r \in Rpcs, Shape(r), NEW o \in Rpcs, o # r
    PROVE  /\ at'[o] = at[o] /\ res'[o] = res[o] /\ temp'[o] = temp[o]
           /\ guard'[o] = guard[o] /\ blob'[o] = blob[o] /\ Script(o)' = Script(o)
<1>1. Script(o)' = Script(o) /\ h' = h
  BY DEF Script, Shape
<1>2. CASE Goes(r)
  BY <1>1, <1>2 DEF Goes, ControlOK
<1>3. CASE Leaps(r)
  BY <1>1, <1>3 DEF Leaps, ControlOK
<1>4. CASE Returns(r)
  BY <1>1, <1>4 DEF Returns, Return, ControlOK
<1>5. CASE Stays
  BY <1>1, <1>5 DEF Stays
<1> QED BY <1>2, <1>3, <1>4, <1>5 DEF Shape

\* Types of the control state.
LEMMA ControlStep ==
    ASSUME ControlOK, NEW r \in Rpcs, Shape(r), Says(r)
    PROVE  ControlOK'
<1>1. h' = h /\ h' \in Seq(DOMAIN Scripts) /\ Rpcs' = Rpcs
  BY DEF Shape, ControlOK, Rpcs
<1>2. /\ at' \in [Rpcs -> Nat \ {0}]
      /\ res' \in [Rpcs -> {"run", "ok", "failed", "refused", "panic"}]
      /\ temp' \in [Rpcs -> BOOLEAN] /\ guard' \in [Rpcs -> {"none", "always", "error"}]
      /\ blob' \in [Rpcs -> {"none", "open", "partial", "whole"}]
  <2>1. CASE Goes(r)
    <3>1. Cur(r).do = "defer" => Cur(r).when \in {"always", "error"}
      <4>1. at[r] \in DOMAIN Script(r) /\ Cur(r) = Script(r)[at[r]]
        BY <2>1, <1>1, GoesHere
      <4>2. TempsGuarded(h[r], Script(r))
        BY ScriptLayout DEF Orderly
      <4> QED BY <4>1, <4>2 DEF TempsGuarded
    <3> QED BY <2>1, <3>1 DEF Goes, ControlOK
  <2>2. CASE Leaps(r)
    <3>1. Cur(r).do = "maybe" => Cur(r).n \in Nat
      BY <2>2, <1>1, LeapsHere, ScriptLayout DEF Orderly, SkipsSafely
    <3>2. UNCHANGED <<res, temp, guard, blob>>
      BY <2>2 DEF Leaps
    <3>3. PICK k : k \in Nat \ {0} /\ at' = [at EXCEPT ![r] = k]
      <4>1. at[r] \in Nat \ {0}
        BY DEF ControlOK
      <4>2. CASE Cur(r).do = "maybe" /\ at' = [at EXCEPT ![r] = @ + 1 + Cur(r).n]
        <5> DEFINE k == at[r] + 1 + Cur(r).n
        <5>1. k \in Nat \ {0} /\ at' = [at EXCEPT ![r] = k]
          BY <3>1, <4>1, <4>2
        <5> QED BY <5>1
      <4>3. CASE at' = [at EXCEPT ![r] = @ + 3]
        <5> DEFINE k == at[r] + 3
        <5>1. k \in Nat \ {0} /\ at' = [at EXCEPT ![r] = k]
          BY <4>1, <4>3
        <5> QED BY <5>1
      <4>4. CASE at' = [at EXCEPT ![r] = @ + 2]
        <5> DEFINE k == at[r] + 2
        <5>1. k \in Nat \ {0} /\ at' = [at EXCEPT ![r] = k]
          BY <4>1, <4>4
        <5> QED BY <5>1
      <4> QED BY <2>2, <4>2, <4>3, <4>4 DEF Leaps
    <3>4. at' \in [Rpcs -> Nat \ {0}]
      BY <3>3 DEF ControlOK
    <3> QED BY <3>2, <3>4 DEF ControlOK
  <2>3. CASE Returns(r)
    BY <2>3 DEF Returns, Return, ControlOK
  <2>4. CASE Stays
    BY <2>4 DEF Stays, ControlOK
  <2> QED BY <2>1, <2>2, <2>3, <2>4 DEF Shape
<1> DEFINE Entry == [rule : {"strict", "quiet", "hint", "code"}, acts : BOOLEAN,
                     out : Outcomes, noise : BOOLEAN]
<1>3. changed' \in [Rpcs -> Nat] /\ DOMAIN told' = Rpcs /\ ran' \in [Rpcs -> Seq(Entry)]
  <2>1. changed \in [Rpcs -> Nat] /\ DOMAIN told = Rpcs /\ ran \in [Rpcs -> Seq(Entry)]
    BY DEF ControlOK
  <2> HIDE DEF Entry
  <2>2. CASE UNCHANGED <<changed, ran, told>>
    BY <2>1, <2>2
  <2>3. CASE changed' = [changed EXCEPT ![r] = @ + 1] /\ UNCHANGED <<ran, told>>
    BY <2>1, <2>3
  <2>4. CASE Runs(r)
    <3>1. PICK out \in Outcomes, noise \in BOOLEAN :
             ran' = [ran EXCEPT ![r] = Append(@, [rule |-> Cur(r).rule, acts |-> Cur(r).acts,
                                                  out |-> out, noise |-> noise])]
      BY <2>4, Zenon DEF Runs
    <3>2. Cur(r).rule \in {"strict", "quiet", "hint", "code"} /\ Cur(r).acts \in BOOLEAN
      <4>1. at[r] \in DOMAIN Script(r) /\ Cur(r) = Script(r)[at[r]] /\ Cur(r).do = "run"
        <5>1. At(r, "run")
          BY <2>4 DEF Runs
        <5> QED BY <5>1, AtCur, ActivePosition
      <4> QED BY <4>1, ScriptLayout DEF Orderly, TellsLast
    <3>3. [rule |-> Cur(r).rule, acts |-> Cur(r).acts, out |-> out, noise |-> noise] \in Entry
      BY <3>2 DEF Entry
    <3>4. ran' \in [Rpcs -> Seq(Entry)]
      BY <2>1, <3>1, <3>3
    <3>5. changed' = changed /\ DOMAIN told' = DOMAIN told
      BY <2>4 DEF Runs
    <3> QED BY <2>1, <3>4, <3>5
  <2>5. CASE Waits(r)
    <3>1. PICK out \in Outcomes :
             ran' = [ran EXCEPT ![r] = <<[rule |-> "code", acts |-> TRUE, out |-> out,
                                          noise |-> FALSE]>>]
      BY <2>5, Zenon DEF Waits
    <3>2. [rule |-> "code", acts |-> TRUE, out |-> out, noise |-> FALSE] \in Entry
      BY DEF Entry
    <3>3. ran' \in [Rpcs -> Seq(Entry)]
      BY <2>1, <3>1, <3>2
    <3>4. changed' = changed /\ DOMAIN told' = DOMAIN told
      BY <2>5 DEF Waits
    <3> QED BY <2>1, <3>3, <3>4
  <2> QED BY <2>2, <2>3, <2>4, <2>5 DEF Says
<1> QED BY <1>1, <1>2, <1>3 DEF ControlOK

----------------------------------------------------------------------------
(* The invariant, part by part.                                            *)

\* Handlers return where they may.
LEMMA ReturnStep ==
    ASSUME ControlOK, ReturnInv, NEW r \in Rpcs, Shape(r)
    PROVE  ReturnInv'
<1> SUFFICES ASSUME NEW o \in Rpcs
             PROVE  /\ res'[o] = "ok" => at'[o] > Len(Script(o)')
                    /\ res'[o] = "refused" =>
                          at'[o] \in DOMAIN (Script(o)') /\ Refusing(Script(o)'[at'[o]])
                    /\ res'[o] # "run" /\ at'[o] \in DOMAIN (Script(o)') =>
                          Script(o)'[at'[o]].do # "defer"
  BY DEF ReturnInv, Rpcs, Shape, Done, Cur, Refusing
<1>1. CASE o # r
  BY <1>1, Elsewhere DEF ReturnInv, Done, Cur
<1>2. CASE o = r /\ Goes(r)
  BY <1>2, GoesHere DEF Shape
<1>3. CASE o = r /\ Leaps(r)
  BY <1>3, LeapsHere DEF Shape
<1>4. CASE o = r /\ Returns(r)
  BY <1>4, ReturnsHere DEF Shape
<1>5. CASE o = r /\ Stays
  <2>1. Script(o)' = Script(o) /\ at' = at /\ res' = res
    BY <1>5 DEF Script, Shape, Stays
  <2> QED BY <2>1 DEF ReturnInv, Done, Cur
<1> QED BY <1>1, <1>2, <1>3, <1>4, <1>5 DEF Shape

\* What is before a handler that moves from k to m.
LEMMA BeforeMoves ==
    ASSUME NEW s, NEW n \in Nat, DOMAIN s = 1..n, NEW k \in 1..n, NEW m \in Nat, k < m, NEW what
    PROVE  /\ (\E i \in DOMAIN s : i < k /\ s[i].do = what) =>
                 \E i \in DOMAIN s : i < m /\ s[i].do = what
           /\ (\E i \in DOMAIN s : i < m /\ s[i].do = what) =>
                 \/ \E i \in DOMAIN s : i < k /\ s[i].do = what
                 \/ \E i \in DOMAIN s : k <= i /\ i < m /\ s[i].do = what
           /\ s[k].do = what => \E i \in DOMAIN s : i < m /\ s[i].do = what
           /\ m = k + 1 => \A i \in DOMAIN s : k <= i /\ i < m => i = k
<1>1. \A i \in DOMAIN s : i \in Nat
  OBVIOUS
<1>2. \A i \in DOMAIN s : i < k => i < m
  BY <1>1
<1>3. \A i \in DOMAIN s : i < m => i < k \/ (k <= i /\ i < m)
  BY <1>1
<1>4. m = k + 1 => \A i \in DOMAIN s : k <= i /\ i < m => i = k
  BY <1>1
<1> QED BY <1>1, <1>2, <1>3, <1>4

\* What is made is removed, committed, or not under a defer yet.
LEMMA CleanStep ==
    ASSUME ControlOK, ControlOK', CleanInv, NEW r \in Rpcs, Shape(r)
    PROVE  CleanInv'
<1> DEFINE Bef(s, k, what) == \E i \in DOMAIN s : i < k /\ s[i].do = what
           Def(s, g) == \E i \in DOMAIN s : s[i].do = "defer" /\ s[i].when = g
           Clean(s, k, t, g, x) ==
              /\ t => Bef(s, k, "temp") /\ ~Bef(s, k, "commit")
              /\ g = "none" => ~Bef(s, k, "defer")
              /\ g # "none" => Def(s, g)
              /\ x # "run" /\ t => g # "always" /\ (g = "error" => x = "ok")
<1>0. \A o \in Rpcs : Clean(Script(o), at[o], temp[o], guard[o], res[o])
  BY DEF CleanInv, Before, Done
<1> SUFFICES ASSUME NEW o \in Rpcs
             PROVE  Clean(Script(o)', at'[o], temp'[o], guard'[o], res'[o])
  BY DEF CleanInv, Before, Done, Rpcs, Shape
<1>1. CASE o # r
  <2> HIDE DEF Clean
  <2> QED BY <1>0, <1>1, Elsewhere
<1>2. CASE o = r /\ Stays
  <2>1. Script(o)' = Script(o) /\ at' = at /\ res' = res /\ temp' = temp /\ guard' = guard
    BY <1>2 DEF Script, Shape, Stays
  <2> HIDE DEF Clean
  <2> QED BY <1>0, <2>1
<1>3. CASE o = r /\ Returns(r)
  <2>1. Clean(Script(r), at[r], temp[r], guard[r], res[r])
    BY <1>0
  <2>2. /\ Script(r)' = Script(r) /\ at' = at /\ guard' = guard /\ res[r] = "run"
        /\ temp'[r] => temp[r] /\ guard[r] # "always" /\ (guard[r] = "error" => res'[r] = "ok")
    BY <1>3, ReturnsHere DEF Shape
  <2> HIDE DEF Bef, Def
  <2> QED BY <1>3, <2>1, <2>2
<1> DEFINE s == Script(r)
           k == at[r]
           m == at'[r]
<1>5. CASE o = r /\ Goes(r)
  <2>1. Clean(s, k, temp[r], guard[r], res[r])
    BY <1>0
  <2>2. /\ Script(r)' = s /\ k \in DOMAIN s /\ m = k + 1 /\ res'[r] = "run"
        /\ temp'[r] = IF s[k].do = "temp" THEN TRUE
                      ELSE IF s[k].do \in {"commit", "replace"} THEN FALSE ELSE temp[r]
        /\ guard'[r] = IF s[k].do = "defer" THEN s[k].when ELSE guard[r]
    BY <1>5, GoesHere DEF Shape
  <2>3. Len(s) \in Nat /\ DOMAIN s = 1..Len(s) /\ TempsGuarded(h[r], s)
    BY ScriptLayout DEF Orderly
  <2> HIDE DEF s, k, m
  <2>4. k \in 1..Len(s) /\ m \in Nat /\ k < m
    BY <2>2, <2>3
  <2>5. \A what : /\ Bef(s, k, what) => Bef(s, m, what)
                  /\ Bef(s, m, what) => Bef(s, k, what) \/ s[k].do = what
                  /\ s[k].do = what => Bef(s, m, what)
    BY <2>2, <2>3, <2>4, BeforeMoves
  <2>6. s[k].do = "temp" => ~Bef(s, k, "commit")
    BY <2>2, <2>3 DEF TempsGuarded
  <2>7. s[k].do = "defer" => Def(s, s[k].when) /\ s[k].when # "none"
    BY <2>2, <2>3 DEF TempsGuarded
  <2> HIDE DEF Bef, Def
  <2>8. temp'[r] => Bef(s, m, "temp") /\ ~Bef(s, m, "commit")
    BY <2>1, <2>2, <2>5, <2>6
  <2>9. guard'[r] = "none" => ~Bef(s, m, "defer")
    BY <2>1, <2>2, <2>5, <2>7
  <2>10. guard'[r] # "none" => Def(s, guard'[r])
    BY <2>1, <2>2, <2>7
  <2> QED BY <1>5, <2>2, <2>8, <2>9, <2>10 DEF m
<1>6. CASE o = r /\ Leaps(r)
  <2>1. Clean(s, k, temp[r], guard[r], res[r])
    BY <1>0
  <2>2. /\ Script(r)' = s /\ k \in DOMAIN s /\ m \in Nat /\ m > k
        /\ res' = res /\ temp' = temp /\ guard' = guard
        /\ \A i \in DOMAIN s : k <= i /\ i < m => s[i].do \notin {"commit", "defer", "upload"}
    BY <1>6, LeapsHere DEF Shape
  <2>3. Len(s) \in Nat /\ DOMAIN s = 1..Len(s)
    BY ScriptLayout
  <2> HIDE DEF s, k, m
  <2>4. \A what : /\ Bef(s, k, what) => Bef(s, m, what)
                  /\ Bef(s, m, what) => Bef(s, k, what)
                                        \/ \E i \in DOMAIN s : k <= i /\ i < m /\ s[i].do = what
    BY <2>2, <2>3, BeforeMoves
  <2>5. Bef(s, m, "commit") => Bef(s, k, "commit")
    BY <2>2, <2>4
  <2>6. Bef(s, m, "defer") => Bef(s, k, "defer")
    BY <2>2, <2>4
  <2> HIDE DEF Bef, Def
  <2> QED BY <1>6, <2>1, <2>2, <2>4, <2>5, <2>6 DEF m
<1> QED BY <1>1, <1>2, <1>3, <1>5, <1>6 DEF Shape

\* An upload that is begun is ended or given up.
LEMMA UploadStep ==
    ASSUME ControlOK, ControlOK', UploadInv, NEW r \in Rpcs, Shape(r)
    PROVE  UploadInv'
<1> DEFINE Bef(s, k, what) == \E i \in DOMAIN s : i < k /\ s[i].do = what
           Up2(s, k, b) == b \in {"open", "partial"} => Bef(s, k, "bucket") /\ ~Bef(s, k, "upload")
<1>0. \A o \in Rpcs : Up2(Script(o), at[o], blob[o])
  BY DEF UploadInv, Before
<1> SUFFICES ASSUME NEW o \in Rpcs
             PROVE  Up2(Script(o)', at'[o], blob'[o])
  BY DEF UploadInv, Before, Rpcs, Shape
<1>1. CASE o # r
  <2> HIDE DEF Up2
  <2> QED BY <1>0, <1>1, Elsewhere
<1>2. CASE o = r /\ Stays
  <2>1. Script(o)' = Script(o) /\ at' = at /\ blob' = blob
    BY <1>2 DEF Script, Shape, Stays
  <2> HIDE DEF Up2
  <2> QED BY <1>0, <2>1
<1>3. CASE o = r /\ Returns(r)
  <2>1. Up2(Script(r), at[r], blob[r])
    BY <1>0
  <2>2. /\ Script(r)' = Script(r) /\ at' = at
        /\ blob'[r] \in {"open", "partial"} => blob[r] \in {"open", "partial"}
    BY <1>3, ReturnsHere DEF Shape
  <2> HIDE DEF Bef
  <2> QED BY <1>3, <2>1, <2>2
<1> DEFINE s == Script(r)
           k == at[r]
           m == at'[r]
<1>5. CASE o = r /\ Goes(r)
  <2>1. Up2(s, k, blob[r])
    BY <1>0
  <2>2. /\ Script(r)' = s /\ k \in DOMAIN s /\ m = k + 1
        /\ blob'[r] = IF s[k].do = "bucket" THEN "open"
                      ELSE IF s[k].do = "upload" THEN "whole" ELSE blob[r]
    BY <1>5, GoesHere DEF Shape
  <2>3. Len(s) \in Nat /\ DOMAIN s = 1..Len(s) /\ UploadsEnd(s)
    BY ScriptLayout DEF Orderly
  <2> HIDE DEF s, k, m
  <2>4. k \in 1..Len(s) /\ m \in Nat /\ k < m
    BY <2>2, <2>3
  <2>5. \A what : /\ Bef(s, k, what) => Bef(s, m, what)
                  /\ Bef(s, m, what) => Bef(s, k, what) \/ s[k].do = what
                  /\ s[k].do = what => Bef(s, m, what)
    BY <2>2, <2>3, <2>4, BeforeMoves
  <2>6. s[k].do = "bucket" => ~Bef(s, k, "upload")
    BY <2>2, <2>3 DEF UploadsEnd
  <2> HIDE DEF Bef
  <2> QED BY <1>5, <2>1, <2>2, <2>5, <2>6 DEF m
<1>6. CASE o = r /\ Leaps(r)
  <2>1. Up2(s, k, blob[r])
    BY <1>0
  <2>2. /\ Script(r)' = s /\ k \in DOMAIN s /\ m \in Nat /\ m > k /\ blob' = blob
        /\ \A i \in DOMAIN s : k <= i /\ i < m => s[i].do \notin {"commit", "defer", "upload"}
    BY <1>6, LeapsHere DEF Shape
  <2>3. Len(s) \in Nat /\ DOMAIN s = 1..Len(s)
    BY ScriptLayout
  <2> HIDE DEF s, k, m
  <2>4. \A what : /\ Bef(s, k, what) => Bef(s, m, what)
                  /\ Bef(s, m, what) => Bef(s, k, what)
                                        \/ \E i \in DOMAIN s : k <= i /\ i < m /\ s[i].do = what
    BY <2>2, <2>3, BeforeMoves
  <2>5. Bef(s, m, "upload") => Bef(s, k, "upload")
    BY <2>2, <2>4
  <2> HIDE DEF Bef
  <2> QED BY <1>6, <2>1, <2>2, <2>4, <2>5 DEF m
<1> QED BY <1>1, <1>2, <1>3, <1>5, <1>6 DEF Shape

\* Who has changed the host is at or past a step that does.
LEMMA ActsStep ==
    ASSUME ControlOK, ControlOK', ActsInv, NEW r \in Rpcs, Shape(r), Says(r)
    PROVE  ActsInv'
<1> DEFINE Past(s, k) == \E i \in DOMAIN s : i <= k /\ Acting(s[i])
           Touched(c, l) == c # 0 \/ \E i \in DOMAIN l : l[i].acts
<1>0. \A o \in Rpcs : Touched(changed[o], ran[o]) => Past(Script(o), at[o])
  BY DEF ActsInv
<1> SUFFICES ASSUME NEW o \in Rpcs, Touched(changed'[o], ran'[o])
             PROVE  Past(Script(o)', at'[o])
  BY DEF ActsInv, Rpcs, Shape, Acting
<1>1. Script(o)' = Script(o) /\ at[o] \in Nat /\ at'[o] \in Nat /\ at[o] <= at'[o]
  <2>1. h' = h /\ at[o] \in Nat /\ at'[o] \in Nat
    BY DEF Shape, ControlOK, Rpcs
  <2>2. CASE o # r
    BY <2>1, <2>2, Elsewhere
  <2>3. CASE o = r /\ Goes(r)
    <3>1. Script(r)' = Script(r) /\ at'[r] = at[r] + 1
      BY <2>1, <2>3, GoesHere
    <3> QED BY <2>1, <2>3, <3>1
  <2>4. CASE o = r /\ Leaps(r)
    BY <2>1, <2>4, LeapsHere
  <2>5. CASE at' = at
    BY <2>1, <2>5 DEF Script
  <2> QED BY <2>1, <2>2, <2>3, <2>4, <2>5, ReturnsHere DEF Shape, Stays
<1>2. \A i \in DOMAIN Script(o) : i \in Nat
  BY ScriptLayout
<1>3. Past(Script(o), at[o]) => Past(Script(o)', at'[o])
  BY <1>1, <1>2
<1>4. CASE Touched(changed[o], ran[o])
  <2> HIDE DEF Past, Touched
  <2> QED BY <1>0, <1>3, <1>4
<1>5. CASE ~Touched(changed[o], ran[o])
  <2>1. o = r /\ Active(r) /\ Acting(Cur(r))
    <3>1. changed[o] = 0 /\ \A i \in DOMAIN ran[o] : ~ran[o][i].acts
      BY <1>5
    <3>2. changed \in [Rpcs -> Nat] /\ DOMAIN ran = Rpcs
      BY DEF ControlOK
    <3>3. CASE UNCHANGED <<changed, ran, told>>
      BY <3>1, <3>3
    <3>4. CASE /\ Active(r) /\ Acting(Cur(r))
               /\ changed' = [changed EXCEPT ![r] = @ + 1] /\ UNCHANGED <<ran, told>>
      BY <3>1, <3>2, <3>4
    <3>5. CASE Runs(r)
      <4>1. PICK out \in Outcomes, noise \in BOOLEAN :
               ran' = [ran EXCEPT ![r] = Append(@, [rule |-> Cur(r).rule, acts |-> Cur(r).acts,
                                                    out |-> out, noise |-> noise])]
        BY <3>5, Zenon DEF Runs
      <4> DEFINE e == [rule |-> Cur(r).rule, acts |-> Cur(r).acts, out |-> out, noise |-> noise]
      <4>2. e.acts = Cur(r).acts
        OBVIOUS
      <4>3. changed' = changed /\ Active(r) /\ Cur(r).do = "run"
        BY <3>5, AtCur DEF Runs
      <4> HIDE DEF e
      <4>4. ran' = [ran EXCEPT ![r] = Append(@, e)]
        BY <4>1 DEF e
      <4>5. o = r
        BY <3>1, <3>2, <4>3, <4>4
      <4>6. PICK i \in DOMAIN ran'[r] : ran'[r][i].acts
        BY <3>1, <4>3, <4>5
      <4>7. ran'[r] = Append(ran[r], e) /\ \E S : ran[r] \in Seq(S)
        BY <3>2, <4>4 DEF ControlOK
      <4>8. ran'[r][i] = e
        BY <3>1, <4>5, <4>6, <4>7
      <4>9. Cur(r).acts = TRUE
        <5>1. at[r] \in DOMAIN Script(r) /\ Cur(r) = Script(r)[at[r]]
          BY <4>3, ScriptLayout DEF Active, ControlOK, Cur
        <5>2. Cur(r).acts \in BOOLEAN
          BY <4>3, <5>1, ScriptLayout DEF Orderly, TellsLast
        <5> QED BY <4>2, <4>6, <4>8, <5>2
      <4> QED BY <4>3, <4>5, <4>9 DEF Acting
    <3>6. CASE Waits(r)
      <4>1. changed' = changed /\ Active(r) /\ Cur(r).do = "wait"
        BY <3>6, AtCur DEF Waits
      <4>2. o # r => ran'[o] = ran[o]
        BY <3>2, <3>6 DEF Waits
      <4> QED BY <3>1, <4>1, <4>2 DEF Acting
    <3> QED BY <3>3, <3>4, <3>5, <3>6 DEF Says
  <2>2. at[r] \in DOMAIN Script(r) /\ Cur(r) = Script(r)[at[r]]
    BY <2>1, ScriptLayout DEF Active, ControlOK, Cur
  <2> QED BY <1>1, <1>2, <2>1, <2>2
<1> QED BY <1>4, <1>5

\* Who goes on has had its commands succeed, and tells the last one's status.
LEMMA StatusStep ==
    ASSUME ControlOK, ControlOK', StatusInv, NEW r \in Rpcs, Shape(r), Says(r)
    PROVE  StatusInv'
<1> DEFINE Past(s, k) == \E i \in DOMAIN s : i < k /\ Telling(s[i])
           Passed(l, t) == \A i \in DOMAIN l :
               /\ l[i].rule \in {"strict", "quiet"} => l[i].out = "zero"
               /\ l[i].rule = "quiet" => ~l[i].noise
               /\ l[i].rule = "code" => t = l[i].out
           Coded(l) == \E i \in DOMAIN l : l[i].rule = "code"
           Fine(l, t, s, k) == Passed(l, t) /\ (Coded(l) => Past(s, k))
<1>0. \A o \in Rpcs : res[o] \in {"run", "ok"} => Fine(ran[o], told[o], Script(o), at[o])
  BY DEF StatusInv, CommandsPassed
<1> SUFFICES ASSUME NEW o \in Rpcs, res'[o] \in {"run", "ok"}
             PROVE  Fine(ran'[o], told'[o], Script(o)', at'[o])
  BY DEF StatusInv, CommandsPassed, Rpcs, Shape, Telling
<1>1. /\ Script(o)' = Script(o) /\ at[o] \in Nat /\ at'[o] \in Nat /\ at[o] <= at'[o]
      /\ res[o] \in {"run", "ok"}
  <2>1. h' = h /\ at[o] \in Nat /\ at'[o] \in Nat
    BY DEF Shape, ControlOK, Rpcs
  <2>2. CASE o # r
    BY <2>1, <2>2, Elsewhere
  <2>3. CASE o = r /\ Goes(r)
    <3>1. Script(r)' = Script(r) /\ at'[r] = at[r] + 1 /\ res[r] = "run"
      BY <2>1, <2>3, GoesHere
    <3> QED BY <2>1, <2>3, <3>1
  <2>4. CASE o = r /\ Leaps(r)
    BY <2>1, <2>4, LeapsHere
  <2>5. CASE o = r /\ Returns(r)
    BY <2>1, <2>5, ReturnsHere
  <2>6. CASE o = r /\ Stays
    BY <2>1, <2>6 DEF Script, Stays
  <2> QED BY <2>1, <2>2, <2>3, <2>4, <2>5, <2>6 DEF Shape
<1>2. \A i \in DOMAIN Script(o) : i \in Nat
  BY ScriptLayout
<1>3. Past(Script(o), at[o]) => Past(Script(o)', at'[o])
  BY <1>1, <1>2
<1>4. Fine(ran[o], told[o], Script(o), at[o])
  <2> HIDE DEF Fine
  <2> QED BY <1>0, <1>1
<1>5. CASE ran'[o] = ran[o] /\ told'[o] = told[o]
  <2> HIDE DEF Past, Passed, Coded
  <2> QED BY <1>3, <1>4, <1>5
<1>6. DOMAIN ran = Rpcs /\ DOMAIN told = Rpcs
  BY DEF ControlOK
<1>7. CASE Runs(r) /\ o = r
  <2>1. PICK out \in Outcomes, noise \in BOOLEAN :
           /\ ran' = [ran EXCEPT ![r] = Append(@, [rule |-> Cur(r).rule, acts |-> Cur(r).acts,
                                                   out |-> out, noise |-> noise])]
           /\ told' = [told EXCEPT ![r] = Tells(Cur(r).rule, out, @)]
           /\ IF RunPasses(Cur(r).rule, out, noise) THEN Continue(r) ELSE Return(r, "failed")
    BY <1>7, Zenon DEF Runs
  <2> DEFINE e == [rule |-> Cur(r).rule, acts |-> Cur(r).acts, out |-> out, noise |-> noise]
             rule == Cur(r).rule
  <2>2. /\ at[r] \in DOMAIN Script(r) /\ Cur(r) = Script(r)[at[r]] /\ Cur(r).do = "run"
        /\ TellsLast(Script(r))
    <3>1. at[r] \in DOMAIN Script(r) /\ Cur(r) = Script(r)[at[r]] /\ Cur(r).do = "run"
      <4>1. At(r, "run")
        BY <1>7 DEF Runs
      <4> QED BY <4>1, AtCur, ActivePosition
    <3> QED BY <3>1, ScriptLayout DEF Orderly
  <2>3. Cur(r).rule \in {"strict", "quiet", "hint", "code"}
    BY <2>2 DEF TellsLast
  <2>4. RunPasses(Cur(r).rule, out, noise) /\ Continue(r)
    <3>1. Return(r, "failed") => res'[r] = "failed"
      BY DEF Return, ControlOK
    <3> QED BY <1>7, <2>1, <3>1
  <2>5. ran'[r] = Append(ran[r], e) /\ told'[r] = Tells(Cur(r).rule, out, told[r])
    BY <1>6, <2>1
  <2>6. /\ Cur(r).rule \in {"strict", "quiet"} => out = "zero"
        /\ Cur(r).rule = "quiet" => noise = FALSE
        /\ Cur(r).rule = "code" => told'[r] = out
    <3>1. /\ Cur(r).rule \in {"strict", "quiet"} => out = "zero"
          /\ Cur(r).rule = "quiet" => noise = FALSE
          /\ Cur(r).rule = "code" => Tells(Cur(r).rule, out, told[r]) = out
      BY <2>3, <2>4 DEF RunPasses, Tells, Outcomes
    <3> QED BY <2>5, <3>1
  <2>7. e.rule = rule /\ e.out = out /\ e.noise = noise
    OBVIOUS
  <2>8. ~Past(Script(r), at[r])
    BY <2>2 DEF TellsLast
  <2>9. Passed(ran[r], told[r]) /\ ~Coded(ran[r])
    <3> HIDE DEF Past, Passed, Coded
    <3> QED BY <1>4, <1>7, <2>8
  <2>10. \E S : ran[r] \in Seq(S)
    BY DEF ControlOK
  <2> HIDE DEF e, rule
  <2>11. \A i \in DOMAIN ran'[r] : ran'[r][i] = e \/ (i \in DOMAIN ran[r] /\ ran'[r][i] = ran[r][i])
    BY <2>5, <2>10
  <2>12. Passed(ran'[r], told'[r])
    BY <2>6, <2>7, <2>9, <2>11 DEF rule
  <2>13. Coded(ran'[r]) => rule = "code"
    BY <2>7, <2>9, <2>11
  <2>14. rule = "code" => Past(Script(r)', at'[r])
    <3>1. rule = "code" => Telling(Script(r)[at[r]])
      BY <2>2 DEF Telling, rule
    <3>2. at'[r] = at[r] + 1
      BY <2>4 DEF Continue, ControlOK
    <3> QED BY <1>1, <1>7, <2>2, <3>1, <3>2
  <2> HIDE DEF Past, Passed, Coded
  <2> QED BY <1>7, <2>12, <2>13, <2>14
<1>8. CASE Waits(r) /\ o = r
  <2>1. PICK out \in Outcomes :
           /\ ran' = [ran EXCEPT ![r] = <<[rule |-> "code", acts |-> TRUE, out |-> out,
                                           noise |-> FALSE]>>]
           /\ \/ Continue(r) /\ told' = [told EXCEPT ![r] = out]
              \/ Return(r, "failed")
    BY <1>8, Zenon DEF Waits
  <2> DEFINE e == [rule |-> "code", acts |-> TRUE, out |-> out, noise |-> FALSE]
  <2>2. at[r] \in DOMAIN Script(r) /\ Cur(r) = Script(r)[at[r]] /\ Cur(r).do = "wait"
    BY <1>8, AtCur, ScriptLayout DEF Waits, Active, ControlOK, Cur
  <2>3. Continue(r) /\ told' = [told EXCEPT ![r] = out]
    <3>1. Return(r, "failed") => res'[r] = "failed"
      BY DEF Return, ControlOK
    <3> QED BY <1>8, <2>1, <3>1
  <2>4. ran'[r] = <<e>> /\ told'[r] = out
    BY <1>6, <2>1, <2>3
  <2>5. e.rule = "code" /\ e.out = out
    OBVIOUS
  <2> HIDE DEF e
  <2>6. Passed(ran'[r], told'[r])
    BY <2>4, <2>5
  <2>7. Past(Script(r)', at'[r])
    <3>1. at'[r] = at[r] + 1
      BY <2>3 DEF Continue, ControlOK
    <3> QED BY <1>1, <1>8, <2>2, <3>1 DEF Telling
  <2> HIDE DEF Past, Passed, Coded
  <2> QED BY <1>8, <2>6, <2>7
<1>9. CASE ~(Runs(r) /\ o = r) /\ ~(Waits(r) /\ o = r)
  <2>1. CASE UNCHANGED <<ran, told>>
    BY <1>5, <2>1
  <2>2. CASE Runs(r) /\ o # r
    <3>1. ran'[o] = ran[o] /\ told'[o] = told[o]
      BY <1>6, <2>2 DEF Runs
    <3> QED BY <1>5, <3>1
  <2>3. CASE Waits(r) /\ o # r
    <3>1. ran'[o] = ran[o] /\ told'[o] = told[o]
      BY <1>6, <2>3 DEF Waits
    <3> QED BY <1>5, <3>1
  <2> HIDE DEF Fine
  <2> QED BY <1>9, <2>1, <2>2, <2>3 DEF Says
<1> HIDE DEF Fine
<1> QED BY <1>7, <1>8, <1>9

----------------------------------------------------------------------------
(* The goroutines of Read.                                                 *)

\* The steps of a handler that start goroutines or wait for them.
LEMMA ThreadedShape ==
    ASSUME ControlOK, NEW r \in Rpcs
    PROVE  /\ EndsRead(r) => Shape(r) /\ Says(r)
           /\ StartsErrs(r) \/ SendsStdout(r) \/ Waits(r) => Apart(r) /\ Says(r)
<1> USE AtCur DEF Apart, Shape, Says, Goes, Returns, Continue, CertSteps, Refusing,
                 rpcVars, saidVars
<1>1. ASSUME EndsRead(r) PROVE Shape(r) /\ Says(r)
  BY <1>1 DEF EndsRead
<1>2. ASSUME StartsErrs(r) PROVE Apart(r) /\ Says(r)
  BY <1>2 DEF StartsErrs
<1>3. ASSUME SendsStdout(r) PROVE Apart(r) /\ Says(r)
  BY <1>3 DEF SendsStdout
<1>4. ASSUME Waits(r) PROVE Apart(r) /\ Says(r)
  <2>1. At(r, "wait") /\ h' = h /\ (Continue(r) \/ Return(r, "failed"))
    BY <1>4 DEF Waits
  <2> QED BY <1>4, <2>1
<1> QED BY <1>1, <1>2, <1>3, <1>4

\* A handler of a directory is at or before the step that reads it.
LEMMA ReadPosition ==
    ASSUME ControlOK, NEW r \in Rpcs, h[r] = "Read"
    PROVE  /\ Script(r)[1].do = "refuse" /\ Script(r)[2].do = "read" /\ Len(Script(r)) = 2
           /\ At(r, "read") => at[r] = 2
<1>1. Read[1].do = "refuse" /\ Read[2].do = "read" /\ Len(Read) = 2
  BY NamedKinds, StepKinds DEF Read
<1>2. Script(r) = Read
  BY DEF Script, Scripts
<1>3. at[r] \in Nat \ {0}
  BY DEF ControlOK
<1>4. At(r, "read") => at[r] <= 2 /\ Read[at[r]].do = "read"
  BY <1>1, <1>2 DEF At, Active
<1> QED BY <1>1, <1>2, <1>3, <1>4

\* A step that leaves the goroutines alone, and is not the one they belong to.
LEMMA ApartReads ==
    ASSUME ControlOK, ControlOK', ReadInv, NEW r \in Rpcs, Shape(r), UNCHANGED readVars,
           Active(r) => Cur(r).do # "read"
    PROVE  ReadInv'
<1>1. h' = h /\ Rpcs' = Rpcs
  BY DEF Shape, Rpcs
<1>2. ASSUME NEW o \in Rpcs, h[o] = "Read", at'[o] > 2 PROVE at[o] > 2
  <2>1. at[o] \in Nat \ {0} /\ at'[o] \in Nat \ {0}
    BY <1>1 DEF ControlOK
  <2>2. CASE o # r
    BY <1>2, <2>2, Elsewhere
  <2>3. CASE o = r /\ Goes(r)
    <3>1. at'[r] = at[r] + 1 /\ Cur(r) = Script(r)[at[r]] /\ Active(r)
      BY <1>1, <2>3, GoesHere DEF Goes
    <3>2. at[r] # 2
      BY <1>2, <2>3, <3>1, ReadPosition
    <3> QED BY <1>2, <2>1, <2>3, <3>1, <3>2
  <2>4. CASE o = r /\ Leaps(r)
    <3>1. at[r] \in 1..2 /\ Cur(r) = Script(r)[at[r]]
      BY <1>1, <1>2, <2>4, LeapsHere, ReadPosition, ScriptLayout
    <3>2. Cur(r).do \in {"refuse", "read"}
      BY <1>2, <2>4, <3>1, ReadPosition
    <3> QED BY <2>4, <3>2 DEF Leaps
  <2>5. CASE at' = at
    BY <1>2, <2>5
  <2> QED BY <1>1, <2>2, <2>3, <2>4, <2>5, ReturnsHere DEF Shape, Stays
<1> QED BY <1>1, <1>2 DEF ReadInv, readVars

\* A reader of r's moves.
LEMMA ReaderMoves ==
    ASSUME ReadInv, NEW r \in Rpcs, NEW i \in parallelism, NEW what, Becomes(r, i, what)
    PROVE  /\ DOMAIN reader' = Rpcs /\ DOMAIN reader'[r] = parallelism
           /\ \A o \in Rpcs : o # r => reader'[o] = reader[o]
           /\ \A j \in parallelism : reader'[r][j] = IF j = i THEN what ELSE reader[r][j]
BY DEF Becomes, ReadInv

\* The goroutines and the handler that waits for them.
LEMMA ReadStep ==
    ASSUME ControlOK, ReadInv, NEW r \in Rpcs,
           \/ StartsRead(r) \/ EndsRead(r) \/ Lists(r) \/ ListingEnds(r)
           \/ \E i \in parallelism : Takes(r, i) \/ ReadsFile(r, i) \/ SendsFile(r, i)
    PROVE  ReadInv'
<1> DEFINE Typed == /\ DOMAIN lister = Rpcs /\ fileChan \in [Rpcs -> Nat] /\ DOMAIN names = Rpcs
                    /\ DOMAIN reader = Rpcs
           Part(o) == /\ DOMAIN reader[o] = parallelism
                      /\ lister[o] = "ok" => names[o] = 0
                      /\ \A i \in parallelism : reader[o][i] = "ok" =>
                            fileChan[o] = 0 /\ lister[o] \in {"ok", "failed"}
                      /\ h[o] = "Read" /\ at[o] > 2 =>
                            lister[o] = "ok" /\ \A i \in parallelism : reader[o][i] = "ok"
<1>1. Typed /\ \A o \in Rpcs : Part(o)
  BY DEF ReadInv
<1>2. h' = h
  BY DEF StartsRead, EndsRead, Lists, ListingEnds, Takes, ReadsFile, SendsFile, hdVars, rpcVars
<1>3. Rpcs' = Rpcs
  BY <1>2 DEF Rpcs
<1>4. 1 \in parallelism /\ 2 \in parallelism
  BY DEF parallelism
<1>5. SUFFICES Typed' /\ \A o \in Rpcs : Part(o)'
  BY <1>3 DEF ReadInv
<1>6. CASE StartsRead(r)
  <2>1. /\ at' = at /\ UNCHANGED <<names, fileChan>>
        /\ lister' = [lister EXCEPT ![r] = "on"]
        /\ reader' = [reader EXCEPT ![r] = [i \in parallelism |-> "take"]]
    BY <1>6 DEF StartsRead, hdVars, ctlVars
  <2>2. h[r] = "Read" => at[r] = 2
    BY <1>6, ReadPosition DEF StartsRead
  <2> QED BY <1>1, <1>2, <1>3, <2>1, <2>2
<1>7. CASE EndsRead(r)
  <2>1. UNCHANGED <<names, fileChan, lister, reader>>
    BY <1>7 DEF EndsRead, readVars
  <2>2. \/ Return(r, "failed") /\ at' = at
        \/ /\ at' = [at EXCEPT ![r] = @ + 1] /\ lister[r] = "ok"
           /\ \A i \in parallelism : reader[r][i] = "ok"
    BY <1>7 DEF EndsRead, Continue, Return
  <2>3. DOMAIN at = Rpcs
    BY DEF ControlOK
  <2> QED BY <1>1, <1>2, <1>3, <2>1, <2>2, <2>3
<1>8. CASE Lists(r)
  <2>1. /\ at' = at /\ UNCHANGED <<lister, reader>> /\ lister[r] = "on"
        /\ names' = [names EXCEPT ![r] = @ - 1] /\ fileChan' = [fileChan EXCEPT ![r] = @ + 1]
    BY <1>8 DEF Lists, hdVars, ctlVars
  <2> QED BY <1>1, <1>2, <1>3, <2>1
<1>9. CASE ListingEnds(r)
  <2>1. /\ at' = at /\ UNCHANGED <<names, fileChan, reader>> /\ lister[r] = "on"
        /\ \/ names[r] = 0 /\ lister' = [lister EXCEPT ![r] = "ok"]
           \/ lister' = [lister EXCEPT ![r] = "failed"]
    BY <1>9 DEF ListingEnds, hdVars, ctlVars
  <2> QED BY <1>1, <1>2, <1>3, <2>1
<1>10. ASSUME NEW i \in parallelism, Takes(r, i) PROVE Typed' /\ \A o \in Rpcs : Part(o)'
  <2>1. /\ at' = at /\ UNCHANGED <<names, lister>> /\ reader[r][i] = "take"
        /\ \/ /\ fileChan[r] > 0 /\ fileChan' = [fileChan EXCEPT ![r] = @ - 1]
              /\ Becomes(r, i, "read")
           \/ /\ fileChan[r] = 0 /\ lister[r] \in {"ok", "failed"}
              /\ Becomes(r, i, "ok") /\ UNCHANGED fileChan
    BY <1>10 DEF Takes, hdVars, ctlVars
  <2>2. CASE /\ fileChan[r] > 0 /\ fileChan' = [fileChan EXCEPT ![r] = @ - 1]
             /\ Becomes(r, i, "read")
    BY <1>1, <1>2, <1>3, <2>1, <2>2, ReaderMoves
  <2>3. CASE /\ fileChan[r] = 0 /\ lister[r] \in {"ok", "failed"}
             /\ Becomes(r, i, "ok") /\ UNCHANGED fileChan
    BY <1>1, <1>2, <1>3, <2>1, <2>3, ReaderMoves
  <2> QED BY <2>1, <2>2, <2>3
<1>11. ASSUME NEW i \in parallelism, ReadsFile(r, i) \/ SendsFile(r, i)
       PROVE  Typed' /\ \A o \in Rpcs : Part(o)'
  <2>1. /\ at' = at /\ UNCHANGED <<names, lister, fileChan>> /\ reader[r][i] # "ok"
        /\ Becomes(r, i, "sending") \/ Becomes(r, i, "failed") \/ Becomes(r, i, "take")
    BY <1>11 DEF ReadsFile, SendsFile, hdVars, ctlVars
  <2> QED BY <1>1, <1>2, <1>3, <2>1, ReaderMoves
<1> QED BY <1>6, <1>7, <1>8, <1>9, <1>10, <1>11

----------------------------------------------------------------------------
(* What is listed.                                                         *)

\* A step that parses, or that leaves alone what was parsed.
Listed(r) == \/ Parses(r) \/ Kernel(r)
             \/ UNCHANGED <<output, recs>> /\ (Active(r) => Cur(r).do # "parse")

\* Only the parsers and the kernel's log make records.
LEMMA ScriptStepLists ==
    ASSUME ControlOK, NEW r \in Rpcs, ScriptStep(r)
    PROVE  Listed(r)
<1> USE AtCur DEF Listed, saidVars
<1>1. CASE Finish(r)
  <2>1. ~Active(r)
    BY <1>1, ScriptLayout DEF Finish, Active, ControlOK
  <2> QED BY <1>1, <2>1 DEF Finish
<1>2. CASE Checks(r)
  BY <1>2 DEF Checks
<1>3. CASE Calls(r)
  BY <1>3 DEF Calls
<1>4. CASE Fails(r)
  BY <1>4 DEF Fails
<1>5. CASE Serves(r)
  BY <1>5 DEF Serves
<1>6. CASE Changes(r)
  BY <1>6 DEF Changes
<1>7. CASE Skips(r)
  BY <1>7 DEF Skips
<1>8. CASE Makes(r)
  BY <1>8 DEF Makes
<1>9. CASE Defers(r)
  BY <1>9 DEF Defers
<1>10. CASE Runs(r)
  BY <1>10 DEF Runs
<1>11. CASE OpensBucket(r)
  BY <1>11 DEF OpensBucket
<1>12. CASE Uploads(r)
  BY <1>12 DEF Uploads
<1>13. CASE Awaits(r)
  BY <1>13 DEF Awaits
<1>14. CASE Compiles(r)
  BY <1>14 DEF Compiles
<1>15. CASE Receives(r)
  BY <1>15 DEF Receives
<1>16. CASE Closes(r)
  BY <1>16 DEF Closes
<1>17. CASE Exists(r)
  BY <1>17 DEF Exists
<1>18. CASE Commits(r)
  BY <1>18 DEF Commits
<1>19. CASE LoadsConf(r)
  BY <1>19 DEF LoadsConf
<1>20. CASE ReplacesConf(r)
  BY <1>20 DEF ReplacesConf
<1>21. CASE Looks(r)
  BY <1>21 DEF Looks
<1>22. CASE OpensFile(r)
  BY <1>22 DEF OpensFile
<1>23. CASE Locks(r)
  BY <1>23 DEF Locks
<1>24. CASE ReadsIn(r)
  BY <1>24 DEF ReadsIn
<1>25. CASE Truncates(r)
  BY <1>25 DEF Truncates
<1>26. CASE Writes(r)
  BY <1>26 DEF Writes
<1>27. CASE CopiesCreds(r)
  BY <1>27 DEF CopiesCreds
<1>28. CASE FillsCreds(r)
  BY <1>28 DEF FillsCreds
<1>29. CASE Parses(r) \/ Kernel(r)
  BY <1>29
<1> QED BY <1>1, <1>2, <1>3, <1>4, <1>5, <1>6, <1>7, <1>8, <1>9, <1>10, <1>11, <1>12, <1>13,
           <1>14, <1>15, <1>16, <1>17, <1>18, <1>19, <1>20, <1>21, <1>22, <1>23, <1>24,
           <1>25, <1>26, <1>27, <1>28, <1>29 DEF ScriptStep

\* A handler that lists checks the request, runs the command, and parses what it put out.
LEMMA ListPosition ==
    ASSUME ControlOK, NEW r \in Rpcs, h[r] \in Listers
    PROVE  /\ Len(Script(r)) = 3 /\ Script(r)[1].do = "refuse" /\ Script(r)[2].do = "run"
           /\ Script(r)[3].do = "parse" /\ Script(r)[3].kind = KindOf(h[r])
<1>1. /\ Len(RepoList) = 3 /\ RepoList[1] = Refuse /\ RepoList[2] = Ask
      /\ RepoList[3] = Parse("records")
      /\ Len(GetStacks) = 3 /\ GetStacks[1] = Refuse /\ GetStacks[2] = Quiet
      /\ GetStacks[3] = Parse("stacks")
      /\ Len(GetJavaStacks) = 3 /\ GetJavaStacks[1] = Refuse /\ GetJavaStacks[2] = Ask
      /\ GetJavaStacks[3] = Parse("stacks")
      /\ Len(ListInstalled) = 3 /\ ListInstalled[1] = Refuse /\ ListInstalled[2] = Ask
      /\ ListInstalled[3] = Parse("fields")
  BY DEF RepoList, GetStacks, GetJavaStacks, ListInstalled
<1>2. /\ h[r] = "RepoList" => Script(r) = RepoList
      /\ h[r] = "GetStacks" => Script(r) = GetStacks
      /\ h[r] = "GetJavaStacks" => Script(r) = GetJavaStacks
      /\ h[r] = "ListInstalled" => Script(r) = ListInstalled
  BY DEF Script, Scripts
<1>3. \A k : Parse(k).kind = k
  BY DEF Parse
<1> QED BY <1>1, <1>2, <1>3, NamedKinds, RunKinds, FormKinds DEF Listers, KindOf

\* A handler that lists gets past its last step only by parsing.
LEMMA ListMoves ==
    ASSUME ControlOK, ControlOK', NEW r \in Rpcs, Shape(r), NEW o \in Rpcs, h[o] \in Listers,
           at'[o] > 3, o = r => (Active(r) => Cur(r).do # "parse")
    PROVE  at[o] > 3
<1>1. at[o] \in Nat \ {0} /\ at'[o] \in Nat \ {0} /\ h' = h /\ Rpcs' = Rpcs
  BY DEF ControlOK, Shape, Rpcs
<1>2. CASE o # r
  BY <1>2, Elsewhere
<1>3. CASE o = r /\ Goes(r) /\ Cur(r).do # "parse"
  <2>1. at'[r] = at[r] + 1 /\ Cur(r) = Script(r)[at[r]]
    BY <1>1, <1>3, GoesHere
  <2>2. at[r] # 3
    BY <1>3, <2>1, ListPosition
  <2> QED BY <1>1, <1>3, <2>1, <2>2
<1>4. CASE o = r /\ Leaps(r)
  <2>1. at[r] \in 1..3 /\ Cur(r) = Script(r)[at[r]]
    BY <1>1, <1>4, LeapsHere, ListPosition, ScriptLayout
  <2>2. Cur(r).do \in {"refuse", "run", "parse"}
    BY <1>4, <2>1, ListPosition
  <2> QED BY <1>4, <2>2 DEF Leaps
<1>5. CASE at' = at
  BY <1>5
<1>6. Goes(r) => Active(r)
  BY DEF Goes
<1> QED BY <1>1, <1>2, <1>3, <1>4, <1>5, <1>6, ReturnsHere DEF Shape, Stays

\* What is listed stays what the parser made of the output.
LEMMA ListStep ==
    ASSUME ControlOK, ControlOK', ListInv, NEW r \in Rpcs, Shape(r), Listed(r)
    PROVE  ListInv'
<1> DEFINE Right(name, ls, rs) == /\ ls \in Lines(KindOf(name))
                                  /\ rs = Parsed(KindOf(name), ls) /\ rs.ok
<1>1. h' = h /\ Rpcs' = Rpcs
  BY DEF Shape, Rpcs
<1>2. /\ DOMAIN output = Rpcs /\ DOMAIN recs = Rpcs
      /\ \A o \in Rpcs : h[o] \in Listers /\ at[o] > 3 => Right(h[o], output[o], recs[o])
  BY DEF ListInv
<1>3. SUFFICES /\ DOMAIN output' = Rpcs /\ DOMAIN recs' = Rpcs
               /\ \A o \in Rpcs : h[o] \in Listers /\ at'[o] > 3 =>
                     Right(h[o], output'[o], recs'[o])
  BY <1>1 DEF ListInv, Lines, Parsed
<1> HIDE DEF Right
<1>4. CASE UNCHANGED <<output, recs>> /\ (Active(r) => Cur(r).do # "parse")
  BY <1>2, <1>4, ListMoves
<1>5. CASE Kernel(r)
  <2>1. At(r, "kmsg") /\ Cur(r).do = "kmsg"
    BY <1>5, AtCur DEF Kernel
  <2>2. PICK ls, rs : output' = [output EXCEPT ![r] = ls] /\ recs' = [recs EXCEPT ![r] = rs]
    BY <1>5 DEF Kernel
  <2>3. h[r] \notin Listers
    <3>1. at[r] \in DOMAIN Script(r) /\ Cur(r) = Script(r)[at[r]]
      BY <2>1, AtCur, ActivePosition
    <3>2. h[r] \in Listers => at[r] \in 1..3
      BY <3>1, ScriptLayout, ListPosition
    <3> QED BY <2>1, <3>1, <3>2, ListPosition
  <2>4. \A o \in Rpcs : o # r => output'[o] = output[o] /\ recs'[o] = recs[o]
    BY <1>2, <2>2
  <2> QED BY <1>2, <2>2, <2>3, <2>4, ListMoves
<1>6. CASE Parses(r)
  <2>1. At(r, "parse") /\ Cur(r).do = "parse" /\ Active(r)
    BY <1>6, AtCur DEF Parses
  <2>2. PICK ls \in Lines(Cur(r).kind) :
           /\ output' = [output EXCEPT ![r] = ls]
           /\ recs' = [recs EXCEPT ![r] = Parsed(Cur(r).kind, ls)]
           /\ \/ Parsed(Cur(r).kind, ls).ok /\ Continue(r)
              \/ Return(r, "failed")
              \/ Return(r, "panic")
    BY <1>6, Zenon DEF Parses
  <2>3. /\ \A o \in Rpcs : o # r => output'[o] = output[o] /\ recs'[o] = recs[o]
        /\ output'[r] = ls /\ recs'[r] = Parsed(Cur(r).kind, ls)
        /\ DOMAIN output' = Rpcs /\ DOMAIN recs' = Rpcs
    BY <1>2, <2>2
  <2>4. ASSUME h[r] \in Listers, at'[r] > 3 PROVE Right(h[r], output'[r], recs'[r])
    <3>1. at[r] \in DOMAIN Script(r) /\ Cur(r) = Script(r)[at[r]]
      BY <2>1, ActivePosition
    <3>2. at[r] \in 1..3
      BY <2>4, <3>1, ScriptLayout, ListPosition
    <3>3. at[r] = 3 /\ Cur(r).kind = KindOf(h[r])
      BY <2>1, <2>4, <3>1, <3>2, ListPosition
    <3>4. Parsed(Cur(r).kind, ls).ok
      BY <2>2, <2>4, <3>3 DEF Return
    <3> QED BY <2>3, <3>3, <3>4 DEF Right
  <2> QED BY <1>2, <2>3, <2>4, ListMoves
<1> QED BY <1>4, <1>5, <1>6 DEF Listed

----------------------------------------------------------------------------
(* The certificates.                                                       *)

\* A handler is about to use the certificates.
Using(r) == At(r, "shake") \/ At(r, "clone") \/ At(r, "pick")

\* A step that has nothing to do with them.
Leaves(r) == /\ Shape(r) /\ UNCHANGED <<seen, creds, loaded, used, began, kept, overlapped>>
             /\ gen' \in gen..MaxGen
             /\ Stays \/ (Active(r) => Cur(r).do \notin CertSteps)

\* Where a handler of certificates is in its script.
LEMMA CertPosition ==
    ASSUME ControlOK, NEW r \in Rpcs, Active(r)
    PROVE  /\ at[r] \in DOMAIN Script(r) /\ at[r] \in Nat \ {0} /\ Cur(r) = Script(r)[at[r]]
           /\ Cur(r).do = "check" => /\ at[r] = 1
                                     /\ Script(r)[2].do \in {"load", "tryLoad"}
                                     /\ Script(r)[4].do \in {"shake", "clone", "pick"}
           /\ Cur(r).do \in {"load", "tryLoad"} =>
                 at[r] + 1 \in DOMAIN Script(r) /\ Script(r)[at[r] + 1].do = "store"
           /\ Cur(r).do = "tryLoad" => Script(r)[at[r] + 2].do \in {"clone", "pick"}
           /\ Cur(r).do \in {"shake", "clone", "pick"} => at[r] > 1 /\ Script(r)[1].do = "check"
           /\ Cur(r).do = "maybe" => \A j \in DOMAIN Script(r) : Script(r)[j].do \notin CertSteps
<1> DEFINE s == Script(r)
           k == at[r]
<1>1. k \in DOMAIN s /\ k \in Nat \ {0} /\ Cur(r) = s[k]
  BY ScriptLayout DEF Active, ControlOK, Cur
<1>2. SkipsSafely(s) /\ ReloadsInOrder(s) /\ DOMAIN s = 1..Len(s) /\ Len(s) \in Nat
  BY ScriptLayout DEF Orderly
<1> HIDE DEF s, k
<1>3. s[k].do = "check" => /\ k = 1 /\ s[2].do \in {"load", "tryLoad"}
                           /\ s[4].do \in {"shake", "clone", "pick"}
  <2> SUFFICES ASSUME s[k].do = "check"
               PROVE  /\ k = 1 /\ s[2].do \in {"load", "tryLoad"}
                      /\ s[4].do \in {"shake", "clone", "pick"}
    OBVIOUS
  <2>1. k = 1 /\ 4 \in DOMAIN s /\ s[4].do \in {"shake", "clone", "pick"}
    BY <1>1, <1>2 DEF ReloadsInOrder
  <2>2. s[3].do = "store" /\ 3 \in DOMAIN s
    BY <2>1, <1>2 DEF ReloadsInOrder
  <2>3. s[2].do \in {"load", "tryLoad"}
    BY <2>2, <1>2 DEF ReloadsInOrder
  <2> QED BY <2>1, <2>3
<1>4. /\ s[k].do \in {"load", "tryLoad"} => k + 1 \in DOMAIN s /\ s[k + 1].do = "store"
      /\ s[k].do = "tryLoad" => s[k + 2].do \in {"clone", "pick"}
      /\ s[k].do \in {"shake", "clone", "pick"} => k > 1 /\ s[1].do = "check"
  BY <1>1, <1>2 DEF ReloadsInOrder
<1>5. s[k].do = "maybe" => \A j \in DOMAIN s : s[j].do \notin CertSteps
  BY <1>1, <1>2 DEF SkipsSafely
<1> QED BY <1>1, <1>3, <1>4, <1>5 DEF s, k

\* Where its next step brings it: what is loaded is stored at once, and then used.
LEMMA NextPosition ==
    ASSUME ControlOK, NEW r \in Rpcs, h' = h, Active(r), UNCHANGED res,
           at' = [at EXCEPT ![r] = @ + 1]
    PROVE  /\ At(r, "store")' <=> Cur(r).do \in {"load", "tryLoad"}
           /\ Using(r)' => Cur(r).do = "store"
<1> DEFINE s == Script(r)
           k == at[r]
<1>1. k \in DOMAIN s /\ k \in Nat \ {0} /\ Cur(r) = s[k] /\ res[r] = "run"
  BY CertPosition DEF Active
<1>2. ReloadsInOrder(s) /\ DOMAIN s = 1..Len(s) /\ Len(s) \in Nat
  BY ScriptLayout DEF Orderly
<1>3. at'[r] = k + 1 /\ Script(r)' = s
  BY DEF ControlOK, Script
<1>4. \A w : At(r, w)' <=> k + 1 <= Len(s) /\ s[k + 1].do = w
  BY <1>1, <1>3 DEF At, Active
<1> HIDE DEF s, k
<1>5. At(r, "store")' <=> s[k].do \in {"load", "tryLoad"}
  <2>1. s[k].do \in {"load", "tryLoad"} => k + 1 \in DOMAIN s /\ s[k + 1].do = "store"
    BY <1>1, <1>2 DEF ReloadsInOrder
  <2>2. k + 1 \in DOMAIN s /\ s[k + 1].do = "store" => s[k + 1 - 1].do \in {"load", "tryLoad"}
    BY <1>1, <1>2 DEF ReloadsInOrder
  <2>3. k + 1 - 1 = k /\ (k + 1 \in DOMAIN s <=> k + 1 <= Len(s))
    BY <1>1, <1>2
  <2> QED BY <1>4, <2>1, <2>2, <2>3
<1>6. Using(r)' => s[k].do = "store"
  <2>1. Using(r)' => k + 1 \in DOMAIN s /\ s[k + 1].do \in {"shake", "clone", "pick"}
    BY <1>1, <1>2, <1>4 DEF Using
  <2>2. k + 1 \in DOMAIN s /\ s[k + 1].do \in {"shake", "clone", "pick"} =>
           s[k + 1 - 1].do = "store"
    BY <1>1, <1>2 DEF ReloadsInOrder
  <2>3. k + 1 - 1 = k
    BY <1>1
  <2> QED BY <2>1, <2>2, <2>3
<1> QED BY <1>1, <1>5, <1>6

\* The others stay where they are.
LEMMA CertElsewhere ==
    ASSUME ControlOK, NEW r \in Rpcs, Shape(r), NEW o \in Rpcs, o # r
    PROVE  /\ At(o, "store")' <=> At(o, "store")
           /\ Using(o)' <=> Using(o)
           /\ at'[o] = at[o] /\ Script(o)' = Script(o)
<1>1. at'[o] = at[o] /\ res'[o] = res[o] /\ Script(o)' = Script(o)
  BY Elsewhere
<1>2. \A w : At(o, w)' <=> At(o, w)
  BY <1>1 DEF At, Active
<1> QED BY <1>1, <1>2 DEF Using

\* A step apart from certificates brings nobody to a store or a use, or past a check.
LEMMA LeavesPositions ==
    ASSUME ControlOK, NEW r \in Rpcs, Leaves(r), NEW o \in Rpcs
    PROVE  /\ At(o, "store")' <=> At(o, "store")
           /\ Using(o)' => Using(o)
           /\ Script(o)' = Script(o) /\ at'[o] \in Nat /\ at'[o] >= at[o]
           /\ at'[o] > 1 /\ Script(o)[1].do = "check" => at[o] > 1
<1>1. Script(o)' = Script(o) /\ h' = h /\ at[o] \in Nat \ {0} /\ Shape(r)
  BY DEF Script, Leaves, Shape, ControlOK
<1>2. CASE o # r
  BY <1>1, <1>2, CertElsewhere
<1>3. CASE Stays
  BY <1>1, <1>3 DEF Stays, At, Active, Using
<1>4. CASE o = r /\ Goes(r) /\ Cur(r).do \notin CertSteps
  <2>1. Active(r) /\ UNCHANGED res /\ at' = [at EXCEPT ![r] = @ + 1] /\ at'[r] = at[r] + 1
    BY <1>1, <1>4, GoesHere DEF Goes
  <2>2. Cur(r) = Script(r)[at[r]]
    BY DEF Cur
  <2>3. at[r] = 1 => Script(r)[1].do # "check"
    BY <1>4, <2>2 DEF CertSteps
  <2>4. ~At(r, "store") /\ ~At(r, "store")' /\ ~Using(r)'
    BY <1>1, <1>4, <2>1, NextPosition, AtCur DEF CertSteps
  <2> QED BY <1>1, <1>4, <2>1, <2>3, <2>4
<1>5. CASE o = r /\ Leaps(r) /\ Cur(r).do \notin CertSteps
  <2>1. Active(r) /\ Cur(r).do = "maybe" /\ at'[r] \in Nat /\ at'[r] > at[r]
    BY <1>1, <1>5, LeapsHere DEF Leaps, CertSteps
  <2>2. \A j \in DOMAIN Script(r) : Script(r)[j].do \notin CertSteps
    BY <2>1, CertPosition
  <2>3. DOMAIN Script(r) = 1..Len(Script(r)) /\ Len(Script(r)) \in Nat
    BY ScriptLayout
  <2>4. \A w \in CertSteps : ~At(r, w) /\ ~At(r, w)'
    BY <1>1, <1>5, <2>1, <2>2, <2>3 DEF At, Active
  <2>5. 1 <= Len(Script(r))
    BY <1>1, <1>5, <2>1, <2>3 DEF Active
  <2>6. Script(r)[1].do # "check"
    BY <2>2, <2>3, <2>5 DEF CertSteps
  <2> QED BY <1>1, <1>5, <2>1, <2>4, <2>6 DEF Using, CertSteps
<1>6. CASE o = r /\ Returns(r) /\ (Active(r) => Cur(r).do \notin CertSteps)
  <2>1. res'[r] # "run" /\ at' = at
    BY <1>1, <1>6, ReturnsHere
  <2>2. \A w : ~At(r, w)'
    BY <2>1 DEF At, Active
  <2>3. ~At(r, "store")
    BY <1>6, AtCur DEF CertSteps
  <2> QED BY <1>1, <1>6, <2>1, <2>2, <2>3 DEF Using
<1>7. (Goes(r) => Active(r)) /\ (Leaps(r) => Active(r))
  BY DEF Goes, Leaps
<1>8. Goes(r) \/ Leaps(r) \/ Returns(r) \/ Stays
  BY <1>1 DEF Shape
<1>9. Stays \/ (Active(r) => Cur(r).do \notin CertSteps)
  BY DEF Leaves
<1> QED BY <1>2, <1>3, <1>4, <1>5, <1>6, <1>7, <1>8, <1>9

\* A step apart from certificates keeps what is known of them.
LEMMA LeavesStep ==
    ASSUME ControlOK, CertsOK, ReloadInv, FreshInv, NEW r \in Rpcs, Leaves(r)
    PROVE  CertsOK' /\ ReloadInv' /\ FreshInv'
<1>1. Rpcs' = Rpcs /\ h' = h
  BY DEF Leaves, Shape, Rpcs
<1>2. /\ UNCHANGED <<seen, creds, loaded, used, began, kept, overlapped>>
      /\ gen' \in gen..MaxGen /\ gen \in 0..MaxGen
  BY DEF Leaves, CertsOK
<1>3. CertsOK'
  <2>1. MaxGen \in Nat
    BY CredsAssumption
  <2>2. 0..gen \subseteq 0..gen'
    BY <1>2, <2>1
  <2>3. None' = None
    BY DEF None
  <2> QED BY <1>1, <1>2, <2>1, <2>2, <2>3 DEF CertsOK
<1>4. ReloadInv'
  <2>1. \A o \in Rpcs : At(o, "store")' <=> At(o, "store")
    BY LeavesPositions
  <2>2. None' = None
    BY DEF None
  <2> QED BY <1>1, <1>2, <2>1, <2>2 DEF ReloadInv
<1>5. ASSUME NEW o \in Rpcs PROVE Fresh(o)'
  <2>1. /\ Using(o)' => Using(o)
        /\ Script(o)' = Script(o) /\ at'[o] \in Nat /\ at'[o] >= at[o] /\ at[o] \in Nat
        /\ at'[o] > 1 /\ Script(o)[1].do = "check" => at[o] > 1
    BY LeavesPositions DEF ControlOK
  <2>2. Fresh(o) /\ None' = None
    BY DEF FreshInv, None
  <2> QED BY <1>2, <2>1, <2>2 DEF Fresh, Using
<1> QED BY <1>1, <1>3, <1>4, <1>5 DEF FreshInv

\* The steps of a handler of certificates.
LEMMA CertStepShape ==
    ASSUME ControlOK, NEW r \in Rpcs, CertStep(r)
    PROVE  /\ Shape(r) /\ UNCHANGED saidVars
           /\ Active(r) /\ Cur(r).do \notin {"read", "parse"}
<1> USE AtCur DEF Shape, Goes, Leaps, Returns, Continue, rpcVars, saidVars
<1>1. CASE ChecksCerts(r)
  <2>1. CASE CertsRefreshed
    BY <1>1, <2>1 DEF ChecksCerts
  <2>2. CASE ~CertsRefreshed
    BY <1>1, <2>2 DEF ChecksCerts
  <2> QED BY <2>1, <2>2
<1>2. CASE LoadsCerts(r)
  BY <1>2 DEF LoadsCerts
<1>3. CASE StoresCerts(r)
  BY <1>3 DEF StoresCerts
<1>4. CASE Shakes(r)
  BY <1>4 DEF Shakes
<1>5. CASE Shaken(r)
  BY <1>5 DEF Shaken
<1>6. CASE TakesCerts(r)
  BY <1>6 DEF TakesCerts
<1> QED BY <1>1, <1>2, <1>3, <1>4, <1>5, <1>6 DEF CertStep

\* None is no certificate.
LEMMA NoneApart == MaxGen \in Nat /\ None \notin 0..MaxGen /\ None' = None
BY CredsAssumption DEF None

\* What a step of r's must leave of the others' freshness.
LEMMA FreshElsewhere ==
    ASSUME ControlOK, CertsOK, FreshInv, NEW r \in Rpcs, Shape(r), NEW o \in Rpcs, o # r,
           loaded'[o] = loaded[o], used'[o] = used[o], began'[o] = began[o],
           o \in kept => o \in kept', overlapped => overlapped',
           creds' \in Nat, ~overlapped' => creds' >= creds
    PROVE  Fresh(o)'
<1>1. /\ Using(o)' <=> Using(o)
      /\ at'[o] = at[o] /\ Script(o)' = Script(o)
  BY CertElsewhere
<1>2. Fresh(o) /\ None' = None /\ creds \in Nat
  BY NoneApart DEF FreshInv, CertsOK
<1>3. began[o] # None => began[o] \in Nat
  BY NoneApart DEF CertsOK
<1> QED BY <1>1, <1>2, <1>3 DEF Fresh, Using

\* checkRefresh: without news what is in use is what the source last gave.
LEMMA ChecksFresh ==
    ASSUME ControlOK, CertsOK, ReloadInv, FreshInv, NEW r \in Rpcs, ChecksCerts(r)
    PROVE  CertsOK' /\ ReloadInv' /\ FreshInv'
<1>1. At(r, "check") /\ Active(r) /\ Cur(r).do = "check" /\ Shape(r)
  BY AtCur, CertStepShape DEF ChecksCerts, CertStep
<1>2. /\ began' = [began EXCEPT ![r] = gen] /\ overlapped' = (overlapped \/ Reloading(r))
      /\ at' = [at EXCEPT ![r] = IF CertsRefreshed THEN @ + 1 ELSE @ + 3]
      /\ UNCHANGED <<h, res, gen, seen, creds, loaded, used, kept>>
  BY DEF ChecksCerts, rpcVars
<1>3. Rpcs' = Rpcs /\ None' = None /\ MaxGen \in Nat /\ None \notin 0..MaxGen
  BY <1>2, NoneApart DEF Rpcs
<1>4. CertsOK'
  BY <1>2, <1>3 DEF CertsOK, Reloading
<1>5. at[r] = 1 /\ at'[r] = IF CertsRefreshed THEN 2 ELSE 4
  <2>1. at[r] = 1
    BY <1>1, CertPosition
  <2>2. at'[r] = IF CertsRefreshed THEN at[r] + 1 ELSE at[r] + 3
    BY <1>2 DEF ControlOK
  <2> QED BY <2>1, <2>2
<1>6. /\ ~At(r, "store")' /\ (Using(r)' => ~CertsRefreshed)
      /\ ~At(r, "store") /\ loaded[r] = None /\ used[r] = None
  <2>1. Script(r)' = Script(r) /\ \A w : At(r, w)' => Script(r)[at'[r]].do = w
    BY <1>2 DEF Script, At
  <2>2. /\ Script(r)[2].do \in {"load", "tryLoad"}
        /\ Script(r)[4].do \in {"shake", "clone", "pick"}
    BY <1>1, CertPosition
  <2>3. Fresh(r) /\ (loaded[r] # None <=> At(r, "store"))
    BY DEF FreshInv, ReloadInv
  <2>4. ~At(r, "store")
    BY <1>1, AtCur
  <2>5. used[r] = None
    BY <1>5, <2>3 DEF Fresh
  <2> QED BY <1>5, <2>1, <2>2, <2>3, <2>4, <2>5 DEF Using
<1>7. \A o \in Rpcs : At(o, "store")' <=> At(o, "store")
  BY <1>1, <1>6, CertElsewhere
<1>8. ReloadInv'
  BY <1>2, <1>3, <1>7 DEF ReloadInv
<1>9. Fresh(r)'
  <2>1. /\ began'[r] = gen /\ gen \in 0..MaxGen /\ seen \in 0..gen /\ creds \in 0..seen
        /\ loaded'[r] = None /\ used'[r] = None
    BY <1>2, <1>6 DEF CertsOK
  <2>2. ASSUME ~overlapped', Using(r)' PROVE creds >= gen
    <3>1. ~overlapped /\ \A o \in Rpcs : loaded[o] = None
      BY <1>2, <1>6, <2>2 DEF Reloading
    <3>2. creds = seen
      BY <3>1 DEF ReloadInv
    <3>3. ~(seen < gen)
      BY <1>6, <2>2 DEF CertsRefreshed
    <3> QED BY <2>1, <3>2, <3>3
  <2>3. creds' = creds /\ at'[r] > 1
    BY <1>2, <1>5
  <2> QED BY <1>3, <2>1, <2>2, <2>3 DEF Fresh, Using
<1>10. ASSUME NEW o \in Rpcs, o # r PROVE Fresh(o)'
  <2>1. began'[o] = began[o] /\ creds' \in Nat /\ creds' >= creds
    BY <1>2, <1>3, <1>10 DEF CertsOK
  <2> QED BY <1>1, <1>2, <1>10, <2>1, FreshElsewhere
<1> QED BY <1>3, <1>4, <1>8, <1>9, <1>10 DEF FreshInv

\* The loader gives the newest there is, fails, or its failure is passed over.
LEMMA LoadsFresh ==
    ASSUME ControlOK, CertsOK, ReloadInv, FreshInv, NEW r \in Rpcs, LoadsCerts(r)
    PROVE  CertsOK' /\ ReloadInv' /\ FreshInv'
<1>1. Active(r) /\ Cur(r).do \in {"load", "tryLoad"} /\ Shape(r)
  BY AtCur, CertStepShape DEF LoadsCerts, CertStep
<1>2. /\ overlapped' = (overlapped \/ Reloading(r))
      /\ UNCHANGED <<h, gen, creds, used, began>>
  BY DEF LoadsCerts, rpcVars
<1>3. Rpcs' = Rpcs /\ None' = None /\ MaxGen \in Nat /\ None \notin 0..MaxGen
  BY <1>2, NoneApart DEF Rpcs
<1>4. \/ loaded' = [loaded EXCEPT ![r] = gen] /\ seen' = gen /\ Continue(r) /\ UNCHANGED kept
      \/ Return(r, "failed") /\ UNCHANGED <<loaded, seen, kept>>
      \/ /\ Cur(r).do = "tryLoad" /\ kept' = kept \cup {r} /\ at' = [at EXCEPT ![r] = @ + 2]
         /\ UNCHANGED <<res, loaded, seen>>
  BY AtCur DEF LoadsCerts
<1>5. Script(r)' = Script(r) /\ Cur(r) = Script(r)[at[r]] /\ at[r] \in Nat \ {0}
  BY <1>2 DEF Script, Cur, ControlOK
<1>6. at[r] = 1 => Script(r)[1].do # "check"
  BY <1>1, <1>5
<1>7. /\ gen \in 0..MaxGen /\ seen \in 0..gen /\ creds \in 0..seen
      /\ began[r] # None => began[r] \in 0..gen
      /\ used[r] # None => used[r] \in 0..seen
      /\ DOMAIN loaded = Rpcs
  BY DEF CertsOK
<1>8. ~At(r, "store") /\ loaded[r] = None /\ Fresh(r)
  BY <1>1, AtCur DEF ReloadInv, FreshInv
<1>9. \A o \in Rpcs : o # r => At(o, "store")' <=> At(o, "store")
  BY <1>1, CertElsewhere
<1>10. ~overlapped' => ~overlapped /\ \A o \in Rpcs : loaded[o] = None
  BY <1>2, <1>8 DEF Reloading
<1>11. creds' \in Nat /\ creds' >= creds
  BY <1>2, <1>3, <1>7
<1>12. CASE loaded' = [loaded EXCEPT ![r] = gen] /\ seen' = gen /\ Continue(r) /\ UNCHANGED kept
  <2>1. loaded'[r] = gen /\ \A o \in Rpcs : o # r => loaded'[o] = loaded[o]
    BY <1>7, <1>12
  <2>2. at' = [at EXCEPT ![r] = @ + 1] /\ at'[r] = at[r] + 1 /\ UNCHANGED res
    BY <1>12 DEF Continue, ControlOK
  <2>3. At(r, "store")' /\ ~Using(r)'
    BY <1>1, <1>2, <2>2, NextPosition
  <2>4. CertsOK'
    <3>1. 0..seen \subseteq 0..seen' /\ gen \in 0..seen'
      BY <1>7, <1>12
    <3> QED BY <1>2, <1>3, <1>7, <1>12, <3>1 DEF CertsOK, Reloading
  <2>5. ReloadInv'
    <3>1. \A o \in Rpcs : loaded'[o] # None <=> At(o, "store")'
      BY <1>3, <1>7, <1>9, <2>1, <2>3 DEF ReloadInv
    <3>2. gen # None
      BY <1>3, <1>7
    <3> QED BY <1>3, <1>10, <1>12, <2>1, <3>1, <3>2 DEF ReloadInv
  <2>6. Fresh(r)'
    <3>1. began'[r] # None => gen >= began[r]
      BY <1>2, <1>7
    <3>2. at'[r] > 1 /\ (Script(r)[1].do = "check" => at[r] > 1)
      BY <1>5, <1>6, <2>2
    <3> QED BY <1>2, <1>3, <1>5, <1>8, <1>10, <1>12, <2>1, <2>3, <3>1, <3>2 DEF Fresh, Using
  <2>7. ASSUME NEW o \in Rpcs, o # r PROVE Fresh(o)'
    BY <1>1, <1>2, <1>11, <1>12, <2>1, <2>7, FreshElsewhere
  <2> QED BY <1>3, <2>4, <2>5, <2>6, <2>7 DEF FreshInv
<1>13. CASE Return(r, "failed") /\ UNCHANGED <<loaded, seen, kept>>
  <2>1. at' = at /\ res'[r] = "failed"
    BY <1>13 DEF Return, ControlOK
  <2>2. ~At(r, "store")' /\ ~Using(r)'
    BY <2>1 DEF At, Active, Using
  <2>3. CertsOK'
    BY <1>2, <1>3, <1>13 DEF CertsOK, Reloading
  <2>4. ReloadInv'
    BY <1>2, <1>3, <1>8, <1>9, <1>10, <1>13, <2>2 DEF ReloadInv
  <2>5. Fresh(r)'
    BY <1>2, <1>3, <1>5, <1>8, <1>10, <1>13, <2>1, <2>2 DEF Fresh, Using
  <2>6. ASSUME NEW o \in Rpcs, o # r PROVE Fresh(o)'
    BY <1>1, <1>2, <1>11, <1>13, <2>6, FreshElsewhere
  <2> QED BY <1>3, <2>3, <2>4, <2>5, <2>6 DEF FreshInv
<1>14. CASE /\ Cur(r).do = "tryLoad" /\ kept' = kept \cup {r} /\ at' = [at EXCEPT ![r] = @ + 2]
            /\ UNCHANGED <<res, loaded, seen>>
  <2>1. at'[r] = at[r] + 2
    BY <1>14 DEF ControlOK
  <2>2. ~At(r, "store")'
    <3>1. Script(r)[at[r] + 2].do \in {"clone", "pick"}
      BY <1>1, <1>14, CertPosition
    <3>2. At(r, "store")' => Script(r)[at[r] + 2].do = "store"
      BY <1>5, <2>1 DEF At
    <3> QED BY <3>1, <3>2
  <2>3. CertsOK'
    BY <1>2, <1>3, <1>14 DEF CertsOK, Reloading
  <2>4. ReloadInv'
    BY <1>2, <1>3, <1>8, <1>9, <1>10, <1>14, <2>2 DEF ReloadInv
  <2>5. Fresh(r)'
    <3>1. at'[r] > 1 /\ (Script(r)[1].do = "check" => at[r] > 1) /\ r \in kept'
      BY <1>5, <1>6, <1>14, <2>1
    <3> QED BY <1>2, <1>3, <1>5, <1>8, <3>1 DEF Fresh
  <2>6. ASSUME NEW o \in Rpcs, o # r PROVE Fresh(o)'
    BY <1>1, <1>2, <1>11, <1>14, <2>6, FreshElsewhere
  <2> QED BY <1>3, <2>3, <2>4, <2>5, <2>6 DEF FreshInv
<1> QED BY <1>4, <1>12, <1>13, <1>14

\* What a lone reload stores is the newest the source has given.
LEMMA StoresFresh ==
    ASSUME ControlOK, CertsOK, ReloadInv, FreshInv, NEW r \in Rpcs, StoresCerts(r)
    PROVE  CertsOK' /\ ReloadInv' /\ FreshInv'
<1>1. Active(r) /\ Cur(r).do = "store" /\ Shape(r)
  BY AtCur, CertStepShape DEF StoresCerts, CertStep
<1>2. /\ creds' = loaded[r] /\ loaded' = [loaded EXCEPT ![r] = None] /\ UNCHANGED res
      /\ at' = [at EXCEPT ![r] = @ + 1] /\ UNCHANGED <<h, gen, seen, used, began, kept, overlapped>>
  BY DEF StoresCerts, NewCreds, Continue, rpcVars
<1>3. Rpcs' = Rpcs /\ None' = None /\ MaxGen \in Nat /\ None \notin 0..MaxGen
  BY <1>2, NoneApart DEF Rpcs
<1>4. /\ gen \in 0..MaxGen /\ seen \in 0..gen /\ creds \in 0..seen
      /\ began[r] # None => began[r] \in 0..gen
      /\ loaded[r] # None /\ loaded[r] \in 0..seen
      /\ DOMAIN loaded = Rpcs /\ Fresh(r)
  BY <1>1, AtCur DEF CertsOK, ReloadInv, FreshInv
<1>5. loaded'[r] = None /\ \A o \in Rpcs : o # r => loaded'[o] = loaded[o]
  BY <1>2, <1>4
<1>6. ~At(r, "store")'
  BY <1>1, <1>2, NextPosition
<1>7. \A o \in Rpcs : o # r => At(o, "store")' <=> At(o, "store")
  BY <1>1, CertElsewhere
<1>8. ~overlapped => creds' = seen /\ \A o \in Rpcs : loaded'[o] = None
  BY <1>2, <1>4, <1>5 DEF ReloadInv
<1>9. CertsOK'
  BY <1>2, <1>3, <1>4 DEF CertsOK
<1>10. ReloadInv'
  <2>1. \A o \in Rpcs : loaded'[o] # None <=> At(o, "store")'
    BY <1>5, <1>6, <1>7 DEF ReloadInv
  <2> QED BY <1>2, <1>3, <1>8, <2>1 DEF ReloadInv
<1>11. Fresh(r)'
  <2>1. at[r] \in Nat \ {0} /\ at'[r] = at[r] + 1 /\ Script(r)' = Script(r)
    BY <1>2 DEF ControlOK, Script
  <2>2. at[r] = 1 => Script(r)[1].do # "check"
    BY <1>1 DEF Cur
  <2>3. at'[r] > 1 /\ (Script(r)[1].do = "check" => at[r] > 1)
    BY <2>1, <2>2
  <2> QED BY <1>2, <1>3, <1>4, <1>5, <2>1, <2>3 DEF Fresh
<1>12. ASSUME NEW o \in Rpcs, o # r PROVE Fresh(o)'
  <2>1. creds' \in Nat /\ (~overlapped' => creds' >= creds)
    BY <1>2, <1>4, <1>8
  <2> QED BY <1>1, <1>2, <1>5, <1>12, <2>1, FreshElsewhere
<1> QED BY <1>3, <1>9, <1>10, <1>11, <1>12 DEF FreshInv

\* What is used is what is in use, after the check and the reload.
LEMMA UsesFresh ==
    ASSUME ControlOK, CertsOK, ReloadInv, FreshInv, NEW r \in Rpcs, Shakes(r) \/ TakesCerts(r)
    PROVE  CertsOK' /\ ReloadInv' /\ FreshInv'
<1>1. /\ Active(r) /\ Cur(r).do \in {"shake", "clone", "pick"} /\ Using(r)
      /\ Shape(r)
  BY AtCur, CertStepShape DEF Shakes, TakesCerts, CertStep, Using
<1>2. /\ used' = [used EXCEPT ![r] = creds] /\ at' = [at EXCEPT ![r] = @ + 1]
      /\ UNCHANGED <<h, res, gen, seen, creds, loaded, began, kept, overlapped>>
  BY DEF Shakes, TakesCerts, Continue, rpcVars
<1>3. Rpcs' = Rpcs /\ None' = None /\ MaxGen \in Nat /\ None \notin 0..MaxGen
  BY <1>2, NoneApart DEF Rpcs
<1>4. creds \in 0..seen /\ seen \in Nat /\ DOMAIN used = Rpcs
  BY DEF CertsOK
<1>5. used'[r] = creds /\ \A o \in Rpcs : o # r => used'[o] = used[o]
  BY <1>2, <1>4
<1>6. ~At(r, "store")' /\ ~Using(r)' /\ ~At(r, "store")
  <2>1. Cur(r).do \notin {"store", "load", "tryLoad"}
    BY <1>1
  <2>2. ~At(r, "store")
    BY <2>1, AtCur
  <2>3. Shape(r) /\ h' = h
    BY <1>1 DEF Shape
  <2> QED BY <1>1, <1>2, <2>1, <2>2, <2>3, NextPosition
<1>7. \A o \in Rpcs : At(o, "store")' <=> At(o, "store")
  BY <1>1, <1>6, CertElsewhere
<1>8. CertsOK'
  BY <1>2, <1>3, <1>4 DEF CertsOK
<1>9. ReloadInv'
  BY <1>2, <1>3, <1>7 DEF ReloadInv
<1>10. Fresh(r)'
  <2>1. /\ at[r] > 1 /\ at[r] \in Nat /\ Script(r)[1].do = "check"
        /\ Script(r)' = Script(r) /\ at'[r] = at[r] + 1
    BY <1>1, <1>2, CertPosition DEF ControlOK, Script
  <2>2. Fresh(r) /\ at'[r] > 1
    BY <2>1 DEF FreshInv
  <2>3. began[r] # None
    BY <2>1, <2>2 DEF Fresh
  <2>4. ~overlapped /\ r \notin kept =>
           creds >= began[r] /\ (loaded[r] # None => loaded[r] >= began[r])
    BY <1>1, <2>2, <2>3 DEF Fresh, Using
  <2> QED BY <1>2, <1>3, <1>5, <1>6, <2>1, <2>2, <2>3, <2>4 DEF Fresh, Using
<1>11. ASSUME NEW o \in Rpcs, o # r PROVE Fresh(o)'
  <2>1. creds \in Nat /\ creds >= creds
    BY <1>4
  <2> QED BY <1>1, <1>2, <1>5, <1>11, <2>1, FreshElsewhere
<1> QED BY <1>3, <1>8, <1>9, <1>10, <1>11 DEF FreshInv

\* Every step of a handler of certificates.
LEMMA CertsStep ==
    ASSUME ControlOK, CertsOK, ReloadInv, FreshInv, NEW r \in Rpcs, CertStep(r)
    PROVE  CertsOK' /\ ReloadInv' /\ FreshInv'
<1>1. CASE Shaken(r)
  <2>1. Shape(r) /\ Active(r) /\ Cur(r).do = "shaken"
    BY <1>1, AtCur, CertStepShape DEF Shaken, CertStep
  <2>2. UNCHANGED <<gen, seen, creds, loaded, used, began, kept, overlapped>>
    BY <1>1 DEF Shaken
  <2>3. gen' \in gen..MaxGen
    BY <2>2, NoneApart DEF CertsOK
  <2>4. Leaves(r)
    BY <2>1, <2>2, <2>3 DEF Leaves, CertSteps
  <2> QED BY <2>4, LeavesStep
<1> QED BY <1>1, ChecksFresh, LoadsFresh, StoresFresh, UsesFresh DEF CertStep

----------------------------------------------------------------------------
(* The invariant.                                                          *)

\* At the start.
LEMMA InitInv == TsInit => IInv
<1> SUFFICES ASSUME TsInit PROVE IInv
  OBVIOUS
<1>1. /\ h \in Seq(DOMAIN Scripts) /\ at = [r \in Rpcs |-> 1] /\ res = [r \in Rpcs |-> "run"]
      /\ temp = [r \in Rpcs |-> FALSE] /\ guard = [r \in Rpcs |-> "none"]
      /\ ran = [r \in Rpcs |-> <<>>] /\ changed = [r \in Rpcs |-> 0]
      /\ told = [r \in Rpcs |-> "nothing"] /\ blob = [r \in Rpcs |-> "none"]
  BY LoadsAssumption DEF TsInit, HdInit, Rpcs
<1>2. ControlOK
  BY <1>1 DEF ControlOK
<1>3. \A r \in Rpcs : \A i \in DOMAIN Script(r) : ~(i < at[r])
  BY <1>1, <1>2, ScriptLayout
<1>4. ReturnInv /\ ActsInv /\ StatusInv
  BY <1>1 DEF ReturnInv, ActsInv, StatusInv, CommandsPassed, Done
<1>5. CleanInv /\ UploadInv
  BY <1>1, <1>3 DEF CleanInv, UploadInv, Before, Done
<1>6. ReadInv /\ ListInv
  BY <1>1 DEF TsInit, HdInit, ReadInv, ListInv, Rpcs
<1>7. /\ gen = 0 /\ seen = 0 /\ creds = 0 /\ overlapped = FALSE
      /\ loaded = [r \in Rpcs |-> None] /\ used = [r \in Rpcs |-> None]
      /\ began = [r \in Rpcs |-> None]
  BY DEF TsInit, CertInit, Rpcs
<1>8. CertsOK
  <2>1. gen \in 0..MaxGen /\ seen \in 0..gen /\ creds \in 0..seen
    BY <1>7, NoneApart
  <2>2. overlapped \in BOOLEAN
    BY <1>7
  <2>3. /\ loaded \in [Rpcs -> 0..seen \cup {None}] /\ used \in [Rpcs -> 0..seen \cup {None}]
        /\ began \in [Rpcs -> 0..gen \cup {None}]
    BY <1>7
  <2> QED BY <2>1, <2>2, <2>3 DEF CertsOK
<1>9. ReloadInv
  <2>1. ASSUME NEW r \in Rpcs PROVE ~At(r, "store")
    <3>1. /\ ReloadsInOrder(Script(r))
          /\ DOMAIN Script(r) = 1..Len(Script(r)) /\ Len(Script(r)) \in Nat
      BY <1>2, ScriptLayout DEF Orderly
    <3>2. at[r] = 1
      BY <1>1
    <3> QED BY <3>1, <3>2 DEF At, Active, ReloadsInOrder
  <2> QED BY <1>7, <2>1 DEF ReloadInv
<1>10. FreshInv
  BY <1>1, <1>7 DEF FreshInv, Fresh
<1> QED BY <1>2, <1>4, <1>5, <1>6, <1>8, <1>9, <1>10 DEF IInv

\* What every step of a handler keeps.
LEMMA HandlerParts ==
    ASSUME IInv, NEW r \in Rpcs, Shape(r), Says(r),
           Listed(r) \/ (Stays /\ UNCHANGED <<output, recs>>)
    PROVE  /\ ControlOK' /\ ReturnInv' /\ CleanInv' /\ UploadInv' /\ ActsInv' /\ StatusInv'
           /\ ListInv'
<1>1. /\ ControlOK /\ ReturnInv /\ CleanInv /\ UploadInv /\ ActsInv /\ StatusInv
      /\ ListInv
  BY DEF IInv
<1>2. ControlOK'
  BY <1>1, ControlStep
<1>3. ListInv'
  <2>1. CASE Stays /\ UNCHANGED <<output, recs>>
    BY <1>1, <2>1 DEF ListInv, Stays, Shape, Rpcs, Lines, Parsed
  <2> QED BY <1>1, <1>2, <2>1, ListStep
<1> QED BY <1>1, <1>2, <1>3, ReturnStep, CleanStep, UploadStep, ActsStep, StatusStep

\* A step that has to do neither with certificates nor with a directory.
LEMMA ApartStep ==
    ASSUME IInv, NEW r \in Rpcs, Apart(r), Says(r), Listed(r), UNCHANGED <<readVars, certVars>>
    PROVE  IInv'
<1>1. Shape(r) /\ (Active(r) => Cur(r).do # "read")
  BY DEF Apart, Shape
<1>2. /\ ControlOK' /\ ReturnInv' /\ CleanInv' /\ UploadInv' /\ ActsInv' /\ StatusInv'
      /\ ListInv'
  BY <1>1, HandlerParts
<1>3. ReadInv'
  BY <1>1, <1>2, ApartReads DEF IInv
<1>4. Leaves(r)
  <2>1. gen' \in gen..MaxGen
    BY NoneApart DEF IInv, CertsOK, certVars
  <2> QED BY <1>1, <2>1 DEF Leaves, Apart, certVars
<1>5. CertsOK' /\ ReloadInv' /\ FreshInv'
  BY <1>4, LeavesStep DEF IInv
<1> QED BY <1>2, <1>3, <1>5 DEF IInv

\* A step that no handler takes.
LEMMA StillStep ==
    ASSUME IInv, NEW r \in Rpcs, UNCHANGED hdVars, ReadInv',
           UNCHANGED <<seen, creds, loaded, used, began, kept, overlapped>>, gen' \in gen..MaxGen
    PROVE  IInv'
<1>1. Shape(r) /\ Says(r) /\ Stays /\ UNCHANGED <<output, recs>>
  BY DEF Shape, Says, Stays, hdVars, rpcVars, ctlVars, saidVars
<1>2. /\ ControlOK' /\ ReturnInv' /\ CleanInv' /\ UploadInv' /\ ActsInv' /\ StatusInv'
      /\ ListInv'
  BY <1>1, HandlerParts
<1>3. CertsOK' /\ ReloadInv' /\ FreshInv'
  BY <1>1, LeavesStep DEF IInv, Leaves
<1> QED BY <1>2, <1>3 DEF IInv

\* Every step of a handler,
LEMMA HandleStep ==
    ASSUME IInv, NEW r \in Rpcs, Handle(r)
    PROVE  IInv'
<1>1. ControlOK /\ ReadInv /\ CertsOK /\ ReloadInv /\ FreshInv
  BY DEF IInv
<1>2. CASE ScriptStep(r) /\ UNCHANGED <<readVars, execVars, certVars>>
  BY <1>1, <1>2, ScriptStepShape, ScriptStepLists, ApartStep
<1>3. CASE CertStep(r) /\ UNCHANGED <<readVars, execVars>>
  <2>1. Shape(r) /\ Says(r) /\ Listed(r) /\ (Active(r) => Cur(r).do # "read")
    BY <1>1, <1>3, CertStepShape DEF Says, Listed, saidVars
  <2>2. /\ ControlOK' /\ ReturnInv' /\ CleanInv' /\ UploadInv' /\ ActsInv' /\ StatusInv'
        /\ ListInv'
    BY <2>1, HandlerParts
  <2>3. ReadInv'
    BY <1>1, <1>3, <2>1, <2>2, ApartReads
  <2>4. CertsOK' /\ ReloadInv' /\ FreshInv'
    BY <1>1, <1>3, CertsStep
  <2> QED BY <2>2, <2>3, <2>4 DEF IInv
<1>4. CASE StartsRead(r)
  <2>1. UNCHANGED <<hdVars, certVars>> /\ ReadInv'
    BY <1>1, <1>4, ReadStep DEF StartsRead
  <2>2. gen' \in gen..MaxGen
    BY <1>1, <2>1, NoneApart DEF CertsOK, certVars
  <2> QED BY <2>1, <2>2, StillStep DEF certVars
<1>5. CASE EndsRead(r)
  <2>1. Shape(r) /\ Says(r) /\ Listed(r)
    BY <1>1, <1>5, ThreadedShape, AtCur DEF EndsRead, Listed, saidVars
  <2>2. /\ ControlOK' /\ ReturnInv' /\ CleanInv' /\ UploadInv' /\ ActsInv' /\ StatusInv'
        /\ ListInv'
    BY <2>1, HandlerParts
  <2>3. ReadInv'
    BY <1>1, <1>5, ReadStep
  <2>4. Leaves(r)
    <3>1. UNCHANGED certVars /\ Cur(r).do = "read"
      BY <1>5, AtCur DEF EndsRead
    <3>2. gen' \in gen..MaxGen
      BY <1>1, <3>1, NoneApart DEF CertsOK, certVars
    <3> QED BY <2>1, <3>1, <3>2 DEF Leaves, CertSteps, certVars
  <2>5. CertsOK' /\ ReloadInv' /\ FreshInv'
    BY <1>1, <2>4, LeavesStep
  <2> QED BY <2>2, <2>3, <2>5 DEF IInv
<1>6. CASE StartsErrs(r) \/ SendsStdout(r) \/ Waits(r)
  <2>1. UNCHANGED <<readVars, certVars>>
    BY <1>6 DEF StartsErrs, SendsStdout, Waits
  <2>2. Listed(r)
    BY <1>6, AtCur DEF StartsErrs, SendsStdout, Waits, Listed, saidVars
  <2> QED BY <1>1, <1>6, <2>1, <2>2, ThreadedShape, ApartStep
<1> QED BY <1>2, <1>3, <1>4, <1>5, <1>6 DEF Handle

\* of a goroutine,
LEMMA ThreadsStep ==
    ASSUME IInv, NEW r \in Rpcs, Threads(r)
    PROVE  IInv'
<1>1. ControlOK /\ ReadInv /\ CertsOK
  BY DEF IInv
<1>2. UNCHANGED <<hdVars, certVars>>
  BY DEF Threads, Lists, ListingEnds, ErrsReads, ErrsSends, Takes, ReadsFile, SendsFile
<1>3. ReadInv'
  <2>1. CASE ErrsReads(r) \/ ErrsSends(r)
    <3>1. UNCHANGED readVars /\ Rpcs' = Rpcs /\ UNCHANGED <<h, at>>
      BY <1>2, <2>1 DEF ErrsReads, ErrsSends, hdVars, rpcVars, ctlVars, Rpcs
    <3> QED BY <1>1, <3>1 DEF ReadInv, readVars
  <2> QED BY <1>1, <2>1, ReadStep DEF Threads
<1>4. gen' \in gen..MaxGen
  BY <1>1, <1>2, NoneApart DEF CertsOK, certVars
<1> QED BY <1>2, <1>3, <1>4, StillStep DEF certVars

\* of the source of certificates,
LEMMA RotatesStep ==
    ASSUME IInv, Rotates, UNCHANGED readVars
    PROVE  IInv'
<1>1. PICK r \in Rpcs : h[r] \in CertUsers
  BY DEF Rotates
<1>2. UNCHANGED <<hdVars, seen, creds, loaded, used, began, kept, overlapped>>
  BY DEF Rotates
<1>3. gen' \in gen..MaxGen
  BY NoneApart DEF Rotates, IInv, CertsOK
<1>4. ReadInv'
  <2>1. Rpcs' = Rpcs /\ UNCHANGED <<h, at>>
    BY <1>2 DEF hdVars, rpcVars, ctlVars, Rpcs
  <2> QED BY <2>1 DEF IInv, ReadInv, readVars
<1> QED BY <1>2, <1>3, <1>4, StillStep

\* and none at all.
LEMMA StutterStep ==
    ASSUME IInv, UNCHANGED tsVars
    PROVE  IInv'
<1>1. UNCHANGED <<hdVars, readVars, certVars>>
  BY DEF tsVars
<1>2. /\ UNCHANGED <<h, at, res, temp, guard, blob, ran, changed, told, output, recs, names,
                     lister, fileChan, reader, gen, seen, creds, loaded, used, began, kept,
                     overlapped>>
      /\ Rpcs' = Rpcs
  BY <1>1 DEF hdVars, rpcVars, ctlVars, saidVars, readVars, certVars, Rpcs
<1>3. ControlOK' /\ ReadInv' /\ ListInv' /\ CertsOK'
  <2>1. ControlOK'
    BY <1>2 DEF IInv, ControlOK
  <2>2. ReadInv'
    BY <1>2 DEF IInv, ReadInv
  <2>3. ListInv'
    BY <1>2 DEF IInv, ListInv
  <2>4. CertsOK'
    BY <1>2, NoneApart DEF IInv, CertsOK
  <2> QED BY <2>1, <2>2, <2>3, <2>4
<1>4. CASE Rpcs = {}
  BY <1>2, <1>3, <1>4 DEF IInv, ReturnInv, CleanInv, UploadInv, ActsInv, StatusInv, ReloadInv,
     FreshInv
<1>5. ASSUME NEW r \in Rpcs PROVE IInv'
  <2>1. gen' \in gen..MaxGen
    BY <1>2, NoneApart DEF IInv, CertsOK
  <2> QED BY <1>1, <1>2, <1>3, <2>1, StillStep
<1> QED BY <1>4, <1>5

\* The inductive invariant of a target, for any number and mix of handlers.
THEOREM Invariance == TsSpec => []IInv
<1>1. IInv /\ [TsNext]_tsVars => IInv'
  <2> SUFFICES ASSUME IInv, [TsNext]_tsVars PROVE IInv'
    OBVIOUS
  <2>1. CASE UNCHANGED tsVars
    BY <2>1, StutterStep
  <2>2. ASSUME NEW r \in Rpcs, Handle(r) PROVE IInv'
    BY <2>2, HandleStep
  <2>3. ASSUME NEW r \in Rpcs, Threads(r) PROVE IInv'
    BY <2>3, ThreadsStep
  <2>4. CASE Rotates /\ UNCHANGED <<readVars, execVars>>
    BY <2>4, RotatesStep
  <2> QED BY <2>1, <2>2, <2>3, <2>4 DEF TsNext
<1> QED BY <1>1, InitInv, PTL DEF TsSpec

----------------------------------------------------------------------------
(* What follows from it.                                                   *)

\* A request that is refused as invalid has changed nothing on the host: a handler that
\* refuses is at a step that refuses, and every step that acts comes after those.
THEOREM RefusedSafe == TsSpec => []RefusedUntouched
<1>1. IInv => RefusedUntouched
  <2> SUFFICES ASSUME IInv, NEW r \in Rpcs, res[r] = "refused"
               PROVE  changed[r] = 0 /\ \A i \in DOMAIN ran[r] : ~ran[r][i].acts
    BY DEF RefusedUntouched
  <2>1. at[r] \in DOMAIN Script(r) /\ Refusing(Script(r)[at[r]])
    BY DEF IInv, ReturnInv, Cur
  <2>2. ChecksFirst(Script(r))
    BY ScriptLayout DEF IInv, Orderly
  <2>3. ~\E i \in DOMAIN Script(r) : i <= at[r] /\ Acting(Script(r)[i])
    BY <2>1, <2>2 DEF ChecksFirst
  <2> QED BY <2>3 DEF IInv, ActsInv
<1> QED BY <1>1, Invariance, PTL

\* A handler that has returned has removed what it made on the way, but for the three named
\* ones: what is made is under a defer at the next step at the latest, and what a defer
\* keeps on success is committed by then.
THEOREM NothingLeaks == TsSpec => []NothingLeft
<1>1. IInv => NothingLeft
  <2> SUFFICES ASSUME IInv, NEW r \in Rpcs, Done(r), temp[r]
               PROVE  \/ h[r] \in {"FDBCLI", "Copy"} /\ res[r] # "ok" /\ guard[r] = "none"
                      \/ h[r] = "GetTLSCertificate"
    BY DEF NothingLeft
  <2> DEFINE s == Script(r)
  <2>1. /\ TempsGuarded(h[r], s) /\ DOMAIN s = 1..Len(s) /\ Len(s) \in Nat
        /\ at[r] \in Nat \ {0}
    BY ScriptLayout DEF IInv, Orderly, ControlOK
  <2>2. /\ Before(r, "temp") /\ ~Before(r, "commit")
        /\ guard[r] = "none" => ~Before(r, "defer")
        /\ guard[r] # "none" => \E i \in DOMAIN s : s[i].do = "defer" /\ s[i].when = guard[r]
        /\ guard[r] # "always" /\ (guard[r] = "error" => res[r] = "ok")
    BY DEF IInv, CleanInv
  <2>3. /\ res[r] = "ok" => at[r] > Len(s)
        /\ at[r] \in DOMAIN s => s[at[r]].do # "defer"
    BY DEF IInv, ReturnInv, Cur
  <2>4. guard[r] \in {"none", "always", "error"}
    BY DEF IInv, ControlOK
  <2> HIDE DEF s
  <2>5. guard[r] = "none"
    <3> SUFFICES ASSUME guard[r] = "error" PROVE FALSE
      BY <2>2, <2>4
    <3>1. PICK i \in DOMAIN s : s[i].do = "defer" /\ s[i].when = "error"
      BY <2>2
    <3>2. PICK j \in DOMAIN s : s[j].do = "commit"
      BY <2>1, <3>1 DEF TempsGuarded
    <3>3. j < at[r]
      BY <2>1, <2>2, <2>3, <3>2
    <3> QED BY <2>2, <3>2, <3>3 DEF Before, s
  <2>6. \A j \in DOMAIN s : s[j].do = "defer" => j > at[r]
    <3> SUFFICES ASSUME NEW j \in DOMAIN s, s[j].do = "defer" PROVE j > at[r]
      OBVIOUS
    <3>1. ~(j < at[r])
      BY <2>2, <2>5 DEF Before, s
    <3>2. j # at[r]
      BY <2>3
    <3> QED BY <2>1, <3>1, <3>2
  <2>7. h[r] \in Careless
    <3>1. PICK i \in DOMAIN s : i < at[r] /\ s[i].do = "temp"
      BY <2>2 DEF Before, s
    <3>2. h[r] \in Careless \/ \E j \in DOMAIN s : j <= i + 1 /\ s[j].do = "defer"
      BY <2>1, <3>1 DEF TempsGuarded
    <3> QED BY <2>1, <2>6, <3>1, <3>2
  <2>8. h[r] \in {"FDBCLI", "Copy"} => res[r] # "ok"
    <3> SUFFICES ASSUME h[r] \in {"FDBCLI", "Copy"}, res[r] = "ok" PROVE FALSE
      OBVIOUS
    <3>1. PICK j \in DOMAIN s : s[j].do = "defer"
      BY <2>1 DEF TempsGuarded
    <3> QED BY <2>1, <2>3, <2>6, <3>1
  <2> QED BY <2>5, <2>7, <2>8 DEF Careless
<1> QED BY <1>1, Invariance, PTL

\* A handshake uses certificates as new as those the source had when it looked, unless
\* reloads overlapped or its own failed and was passed over: a lone reload stores the
\* newest there is, and without news that is what is in use.
THEOREM HandshakesFresh == TsSpec => []HandshakeFresh
<1>1. IInv => HandshakeFresh
  <2> SUFFICES ASSUME IInv, NEW r \in Rpcs, used[r] # None, used[r] < began[r],
                      ~overlapped, r \notin kept
               PROVE  FALSE
    BY DEF HandshakeFresh
  <2>1. began[r] # None /\ used[r] >= began[r]
    BY DEF IInv, FreshInv, Fresh
  <2>2. used[r] \in Nat /\ began[r] \in Nat
    BY <2>1, NoneApart DEF IInv, CertsOK
  <2> QED BY <2>1, <2>2
<1> QED BY <1>1, Invariance, PTL

\* A handler that answers without an error has had every command it depends on succeed, tells
\* the status of the one it is to tell, lists the records of the output, has uploaded the
\* whole object, and has read the directory to its last file; given that the parsers, as
\* functions from output to records, are right.  Not the records of stacks behind an over-long
\* line, nor the packages of a list without its header: the code answers OK without them, and
\* ListsTheRecords excepts them.
THEOREM OkIsEarned ==
    ASSUME ParsersRight
    PROVE  TsSpec => []OkEarned
<1>1. IInv => OkEarned
  <2> SUFFICES ASSUME IInv, NEW r \in Rpcs, res[r] = "ok"
               PROVE  CommandsPassed(r) /\ ListsTheRecords(r) /\ NothingMissing(r)
    BY DEF OkEarned
  <2>1. CommandsPassed(r)
    BY DEF IInv, StatusInv
  <2>2. /\ at[r] > Len(Script(r)) /\ at[r] \in Nat
        /\ UploadsEnd(Script(r)) /\ DOMAIN Script(r) = 1..Len(Script(r)) /\ Len(Script(r)) \in Nat
    BY ScriptLayout DEF IInv, ReturnInv, Orderly, ControlOK
  <2>3. blob[r] \in {"none", "whole"}
    <3> SUFFICES ASSUME blob[r] \in {"open", "partial"} PROVE FALSE
      BY DEF IInv, ControlOK
    <3>1. Before(r, "bucket") /\ ~Before(r, "upload")
      BY DEF IInv, UploadInv
    <3>2. PICK j \in DOMAIN Script(r) : Script(r)[j].do = "upload"
      BY <2>2, <3>1 DEF Before, UploadsEnd
    <3> QED BY <2>2, <3>1, <3>2 DEF Before
  <2>4. ASSUME h[r] = "Read" PROVE names[r] = 0 /\ fileChan[r] = 0
    <3>1. at[r] > 2
      BY <2>2, <2>4, ReadPosition DEF IInv
    <3>2. 1 \in parallelism
      BY DEF parallelism
    <3> QED BY <2>4, <3>1, <3>2 DEF IInv, ReadInv
  <2>5. ListsTheRecords(r)
    <3>1. h[r] \in Listers => /\ output[r] \in Lines(KindOf(h[r])) /\ recs[r].ok
                              /\ recs[r] = Parsed(KindOf(h[r]), output[r])
      BY <2>2, ListPosition DEF IInv, ListInv
    <3>2. ASSUME h[r] = "RepoList", Heads(output[r]) # {}
          PROVE  recs[r] = RecordsOf(output[r])
      <4>1. KindOf(h[r]) = "records" /\ h[r] \in Listers
        BY <3>2 DEF KindOf, Listers
      <4>2. Parsed("records", output[r]) = parseYumRepoListOutput(output[r])
        BY DEF Parsed
      <4> QED BY <3>1, <3>2, <4>1, <4>2 DEF ParsersRight, ParsersRightUpTo, Lines
    <3>3. ASSUME h[r] \in {"GetStacks", "GetJavaStacks"}, Heads(Scanned(output[r])) # {}
          PROVE  recs[r] = RecordsOf(Scanned(output[r]))
      <4>1. KindOf(h[r]) = "stacks" /\ h[r] \in Listers
        BY <3>3 DEF KindOf, Listers
      <4>2. Parsed("stacks", output[r]) = SplitStacks(output[r])
        BY DEF Parsed
      <4> QED BY <3>1, <3>3, <4>1, <4>2 DEF ParsersRight, ParsersRightUpTo, Lines
    <3>4. ASSUME h[r] = "ListInstalled", Headers(output[r]) # {}
          PROVE  recs[r] = PackagesOf(output[r]) /\ recs[r].ok
      <4>1. KindOf(h[r]) = "fields" /\ h[r] \in Listers
        BY <3>4 DEF KindOf, Listers
      <4>2. Parsed("fields", output[r]) = parseYumListInstallOutput(output[r])
        BY DEF Parsed
      <4> QED BY <3>1, <3>4, <4>1, <4>2 DEF ParsersRight, ParsersRightUpTo, Lines
    <3> QED BY <3>2, <3>3, <3>4 DEF ListsTheRecords
  <2> QED BY <2>1, <2>3, <2>4, <2>5 DEF NothingMissing
<1> QED BY <1>1, Invariance, PTL

----------------------------------------------------------------------------
(* The shared file: where a handler is with it.                            *)

\* The steps a handler has behind it, by its position.
Placed(r) ==
    /\ Before(r, "open") <=> h[r] \in DataSets /\ at[r] > 2
    /\ Before(r, "lock") <=> h[r] \in DataSets /\ at[r] > 3
    /\ Before(r, "readIn") <=> h[r] \in DataSets /\ at[r] > 4
    /\ Before(r, "truncate") <=> h[r] = "DataSetYml" /\ at[r] > 6
    /\ Before(r, "write") <=> \/ h[r] = "DataSetYml" /\ at[r] > 7
                              \/ h[r] = "DataSetDotenv" /\ at[r] > 5
    /\ Before(r, "loadConf") <=> h[r] \in ConfEdits /\ at[r] > 2
    /\ Before(r, "replace") <=> \/ h[r] = "ConfWrite" /\ at[r] > 6
                                \/ h[r] = "ConfDelete" /\ at[r] > 7
    /\ h[r] \in Replacers => (Before(r, "commit") <=> at[r] > 12)

\* The same of a script and a position in it, whatever the state.
LEMMA Reached ==
    ASSUME NEW name \in DOMAIN Scripts, NEW k \in Nat
    PROVE  LET Past(what) == \E i \in DOMAIN Scripts[name] : i < k /\ Scripts[name][i].do = what
           IN  /\ Past("open") <=> name \in DataSets /\ k > 2
               /\ Past("lock") <=> name \in DataSets /\ k > 3
               /\ Past("readIn") <=> name \in DataSets /\ k > 4
               /\ Past("truncate") <=> name = "DataSetYml" /\ k > 6
               /\ Past("write") <=> \/ name = "DataSetYml" /\ k > 7
                                    \/ name = "DataSetDotenv" /\ k > 5
               /\ Past("loadConf") <=> name \in ConfEdits /\ k > 2
               /\ Past("replace") <=> \/ name = "ConfWrite" /\ k > 6
                                      \/ name = "ConfDelete" /\ k > 7
               /\ name \in Replacers => (Past("commit") <=> k > 12)
<1> DEFINE Past(what) == \E i \in DOMAIN Scripts[name] : i < k /\ Scripts[name][i].do = what
<1>1. \A what : Past(what) <=> \E i \in Nat : i < k /\ StepAt(name, i, what)
  <2>1. DOMAIN Scripts[name] \subseteq Nat
    BY ScriptsOrderly DEF Orderly
  <2> QED BY <2>1 DEF StepAt
<1> HIDE DEF Past
<1>2. /\ \A i : StepAt(name, i, "open") <=> name \in DataSets /\ i = 2
      /\ \A i : StepAt(name, i, "lock") <=> name \in DataSets /\ i = 3
      /\ \A i : StepAt(name, i, "readIn") <=> name \in DataSets /\ i = 4
      /\ \A i : StepAt(name, i, "truncate") <=> name = "DataSetYml" /\ i = 6
      /\ \A i : StepAt(name, i, "write") <=> \/ name = "DataSetYml" /\ i = 7
                                             \/ name = "DataSetDotenv" /\ i = 5
      /\ \A i : StepAt(name, i, "loadConf") <=> name \in ConfEdits /\ i = 2
      /\ \A i : StepAt(name, i, "replace") <=> \/ name = "ConfWrite" /\ i = 6
                                               \/ name = "ConfDelete" /\ i = 7
      /\ name \in Replacers => \A i : StepAt(name, i, "commit") <=> i = 12
  BY EditPlaces, ReplacerPlaces
<1>3. Past("open") <=> name \in DataSets /\ k > 2
  BY <1>1, <1>2
<1>4. Past("lock") <=> name \in DataSets /\ k > 3
  BY <1>1, <1>2
<1>5. Past("readIn") <=> name \in DataSets /\ k > 4
  BY <1>1, <1>2
<1>6. Past("truncate") <=> name = "DataSetYml" /\ k > 6
  BY <1>1, <1>2
<1>7. Past("write") <=> \/ name = "DataSetYml" /\ k > 7
                        \/ name = "DataSetDotenv" /\ k > 5
  BY <1>1, <1>2
<1>8. Past("loadConf") <=> name \in ConfEdits /\ k > 2
  BY <1>1, <1>2
<1>9. Past("replace") <=> \/ name = "ConfWrite" /\ k > 6
                          \/ name = "ConfDelete" /\ k > 7
  BY <1>1, <1>2
<1>10. name \in Replacers => (Past("commit") <=> k > 12)
  BY <1>1, <1>2
<1> QED BY <1>3, <1>4, <1>5, <1>6, <1>7, <1>8, <1>9, <1>10 DEF Past

\* Every handler is placed so,
LEMMA AllPlaced ==
    ASSUME ControlOK, NEW r \in Rpcs
    PROVE  Placed(r)
<1>1. h[r] \in DOMAIN Scripts /\ at[r] \in Nat
  BY DEF ControlOK, Rpcs
<1> QED BY <1>1, Reached DEF Placed, Before, Script

\* and is after the step.
LEMMA AllPlacedNext ==
    ASSUME ControlOK', NEW r \in Rpcs'
    PROVE  Placed(r)'
<1>1. h'[r] \in DOMAIN Scripts /\ at'[r] \in Nat
  BY DEF ControlOK, Rpcs
<1> QED BY <1>1, Reached DEF Placed, Before, Script

\* The step a handler is at, as a place in its script.
LEMMA AtPlace ==
    ASSUME ControlOK, NEW r \in Rpcs
    PROVE  /\ h[r] \in DOMAIN Scripts
           /\ \A what : At(r, what) <=> res[r] = "run" /\ StepAt(h[r], at[r], what)
           /\ Active(r) => \A what : StepAt(h[r], at[r], what) <=> Cur(r).do = what
<1>1. h[r] \in DOMAIN Scripts
  BY DEF ControlOK, Rpcs
<1>2. Active(r) <=> res[r] = "run" /\ at[r] \in DOMAIN Scripts[h[r]]
  BY ScriptLayout DEF Active, ControlOK, Script
<1> QED BY <1>1, <1>2 DEF At, StepAt, Script, Cur

----------------------------------------------------------------------------
(* What a step does to the shared file.                                    *)

\* Nothing, the handler going on,
Idles(r) ==
    /\ UNCHANGED <<h, fileVars, lock, res>> /\ Active(r) /\ Cur(r).do \notin FileSteps
    /\ Cur(r).do = "commit" => h[r] \notin Replacers
    /\ \/ /\ at' = [at EXCEPT ![r] = @ + 1]
          /\ \/ UNCHANGED changed
             \/ /\ changed' = [changed EXCEPT ![r] = @ + 1]
                /\ Cur(r).do \in {"change", "commit"}
       \/ Leaps(r) /\ UNCHANGED changed
\* or returning,
GivesUp(r) ==
    /\ UNCHANGED <<h, fileVars, changed>> /\ res[r] = "run"
    /\ \E x \in {"ok", "failed", "refused", "panic"} : Return(r, x)
\* or another goroutine at work;
Rests == UNCHANGED <<h, at, res, changed, fileVars, lock>>
\* or one of these.
KeyStep(r) ==
    \/ Commits(r) /\ h[r] \in Replacers
    \/ LoadsConf(r) \/ ReplacesConf(r) \/ OpensFile(r) \/ Locks(r) \/ ReadsIn(r)
    \/ Truncates(r) \/ Writes(r)

\* These are all the steps of a script,
LEMMA ScriptStepKeys ==
    ASSUME ControlOK, NEW r \in Rpcs, ScriptStep(r)
    PROVE  Idles(r) \/ GivesUp(r) \/ KeyStep(r)
<1> USE AtCur DEF Idles, GivesUp, Leaps, Continue, FileSteps, rpcVars, saidVars
<1>1. CASE Finish(r)
  BY <1>1 DEF Finish
<1>2. CASE Checks(r)
  BY <1>2 DEF Checks
<1>3. CASE Calls(r)
  BY <1>3 DEF Calls
<1>4. CASE Fails(r)
  BY <1>4 DEF Fails
<1>5. CASE Serves(r)
  BY <1>5 DEF Serves
<1>6. CASE Changes(r)
  BY <1>6 DEF Changes
<1>7. CASE Skips(r)
  BY <1>7 DEF Skips
<1>8. CASE Makes(r)
  BY <1>8 DEF Makes
<1>9. CASE Defers(r)
  BY <1>9 DEF Defers
<1>10. CASE Runs(r)
  BY <1>10 DEF Runs
<1>11. CASE Parses(r)
  BY <1>11 DEF Parses
<1>12. CASE OpensBucket(r)
  BY <1>12 DEF OpensBucket
<1>13. CASE Uploads(r)
  BY <1>13 DEF Uploads
<1>14. CASE Awaits(r)
  BY <1>14 DEF Awaits
<1>15. CASE Kernel(r)
  BY <1>15 DEF Kernel
<1>16. CASE Compiles(r)
  BY <1>16 DEF Compiles
<1>17. CASE Receives(r)
  BY <1>17 DEF Receives
<1>18. CASE Closes(r)
  BY <1>18 DEF Closes
<1>19. CASE Exists(r)
  BY <1>19 DEF Exists
<1>20. CASE Commits(r)
  <2>1. CASE h[r] \in Replacers
    BY <1>20, <2>1 DEF KeyStep
  <2>2. CASE h[r] \notin Replacers
    BY <1>20, <2>2 DEF Commits, fileVars
  <2> QED BY <2>1, <2>2
<1>21. CASE Looks(r)
  BY <1>21 DEF Looks
<1>22. CASE CopiesCreds(r)
  BY <1>22 DEF CopiesCreds
<1>23. CASE FillsCreds(r)
  BY <1>23 DEF FillsCreds
<1> QED BY <1>1, <1>2, <1>3, <1>4, <1>5, <1>6, <1>7, <1>8, <1>9, <1>10, <1>11, <1>12, <1>13,
           <1>14, <1>15, <1>16, <1>17, <1>18, <1>19, <1>20, <1>21, <1>22, <1>23
        DEF ScriptStep, KeyStep

\* and of a handler.
LEMMA HandleKeys ==
    ASSUME ControlOK, NEW r \in Rpcs, Handle(r)
    PROVE  Idles(r) \/ GivesUp(r) \/ KeyStep(r) \/ Rests
<1> USE AtCur DEF Idles, GivesUp, Leaps, Rests, Continue, FileSteps, rpcVars, saidVars
<1>1. CASE ScriptStep(r)
  BY <1>1, ScriptStepKeys
<1>2. CASE CertStep(r)
  <2>1. CASE ChecksCerts(r)
    BY <2>1 DEF ChecksCerts
  <2>2. CASE LoadsCerts(r)
    BY <2>2 DEF LoadsCerts
  <2>3. CASE StoresCerts(r) \/ Shakes(r) \/ Shaken(r) \/ TakesCerts(r)
    BY <2>3 DEF StoresCerts, Shakes, Shaken, TakesCerts
  <2> QED BY <1>2, <2>1, <2>2, <2>3 DEF CertStep
<1>3. CASE StartsRead(r)
  BY <1>3 DEF StartsRead, hdVars, ctlVars
<1>4. CASE EndsRead(r)
  BY <1>4 DEF EndsRead
<1>5. CASE StartsErrs(r)
  BY <1>5 DEF StartsErrs
<1>6. CASE SendsStdout(r)
  BY <1>6 DEF SendsStdout
<1>7. CASE Waits(r)
  BY <1>7 DEF Waits
<1> QED BY <1>1, <1>2, <1>3, <1>4, <1>5, <1>6, <1>7 DEF Handle

----------------------------------------------------------------------------
(* What is lost stays lost, and what is in hand stays there.               *)

\* What no step does: take back a save or a miss, touch what another handler has, or read
\* again what was read before the file was emptied.
Frame(r) ==
    /\ h' = h /\ Rpcs' = Rpcs
    /\ res[r] = "run" \/ UNCHANGED <<at, res, buf, changed>>
    /\ \A o \in Rpcs : missed[o] \subseteq missed'[o]
    /\ \A o \in Rpcs : o # r => /\ at'[o] = at[o] /\ res'[o] = res[o] /\ fd'[o] = fd[o]
                                /\ buf'[o] = buf[o] /\ changed'[o] = changed[o]
    /\ at'[r] >= at[r] /\ changed'[r] >= changed[r]
    /\ h[r] = "DataSetYml" /\ at[r] > 6 => buf'[r] = buf[r] /\ fd'[r] = fd[r]

\* An edit that is lost is not found again.
LEMMA LostStays ==
    ASSUME ControlOK, ControlOK', NEW r \in Rpcs, Frame(r), NEW x \in Rpcs, Lost(x)
    PROVE  Lost(x)'
<1>1. /\ \A o \in Rpcs : Placed(o) /\ Placed(o)' /\ at[o] \in Nat /\ at'[o] \in Nat
      /\ \A o \in Rpcs : changed[o] \in Nat /\ changed'[o] \in Nat
  BY AllPlaced, AllPlacedNext DEF Frame, ControlOK
<1>2. PICK o \in Rpcs \ {x} : \/ SavedWithout(o, x) \/ ReplacedUnder(o, x)
                              \/ Emptied(o, x) /\ Done(o)
                              \/ \E c \in Rpcs : Crossed(c, o, x)
  BY DEF Lost
<1>3. CASE SavedWithout(o, x)
  <2>1. changed'[o] > 0 /\ x \in missed'[o] /\ h'[o] \in Renamers
    BY <1>1, <1>3 DEF SavedWithout, Frame
  <2>2. SavedWithout(o, x)'
    BY <2>1 DEF SavedWithout
  <2> QED BY <2>2 DEF Lost, Frame
<1>4. CASE ReplacedUnder(o, x)
  <2>1. ReplacedUnder(o, x)'
    BY <1>4 DEF ReplacedUnder, Frame
  <2> QED BY <2>1 DEF Lost, Frame
<1>5. CASE Emptied(o, x) /\ Done(o)
  <2>1. at'[o] = at[o] /\ buf'[o] = buf[o] /\ res'[o] = res[o] /\ h'[o] = h[o]
    BY <1>5 DEF Frame, Done
  <2>2. Emptied(o, x)' /\ Done(o)'
    BY <1>1, <1>5, <2>1 DEF Emptied, Done, Placed
  <2> QED BY <2>2 DEF Lost, Frame
<1>6. ASSUME NEW c \in Rpcs, Crossed(c, o, x) PROVE Lost(x)'
  <2>1. h[o] = "DataSetYml" /\ at[o] > 6
    BY <1>1, <1>6 DEF Crossed, Placed
  <2>2. buf'[o] = buf[o] /\ at'[o] > 6 /\ h'[o] = h[o]
    BY <1>1, <2>1 DEF Frame
  <2>3. changed'[c] > 0
    BY <1>1, <1>6 DEF Crossed, Frame
  <2>4. Before(o, "truncate")'
    BY <1>1, <2>1, <2>2 DEF Placed
  <2>5. Crossed(c, o, x)'
    BY <1>6, <2>2, <2>3, <2>4 DEF Crossed, Frame
  <2> QED BY <2>5 DEF Lost, Frame
<1> QED BY <1>2, <1>3, <1>4, <1>5, <1>6

\* Who has emptied the file has not saved it.
LEMMA EmptiedEdits ==
    ASSUME ControlOK, HandInv, NEW o \in Rpcs, NEW x, Emptied(o, x)
    PROVE  h[o] = "DataSetYml" /\ at[o] = 7 /\ changed[o] = 0 /\ fd[o] # NoFile
<1>1. Placed(o) /\ at[o] \in Nat /\ changed[o] \in Nat
  BY AllPlaced DEF ControlOK
<1>2. h[o] = "DataSetYml" /\ at[o] = 7
  BY <1>1 DEF Emptied, Placed
<1>3. ~Before(o, "write") /\ ~Before(o, "replace") /\ Before(o, "open")
  BY <1>1, <1>2 DEF Placed, DataSets
<1> QED BY <1>1, <1>2, <1>3 DEF HandInv, Edits, DataSets

\* A file that is being rewritten stays so unless its rewriter goes on.
LEMMA EmptiedStays ==
    ASSUME ControlOK, ControlOK', HandInv, NEW r \in Rpcs, Frame(r), NEW o \in Rpcs, NEW x,
           Emptied(o, x), path' = path, o # r \/ at' = at
    PROVE  Emptied(o, x)'
<1>1. h[o] = "DataSetYml" /\ at[o] = 7
  BY EmptiedEdits
<1>2. at'[o] = 7 /\ h'[o] = h[o] /\ buf'[o] = buf[o] /\ fd'[o] = fd[o]
  BY <1>1 DEF Frame
<1>3. Placed(o) /\ Placed(o)'
  BY AllPlaced, AllPlacedNext DEF Frame
<1>4. Before(o, "truncate")' /\ ~Before(o, "write")'
  BY <1>1, <1>2, <1>3 DEF Placed
<1>5. Done(o) => Done(o)'
  BY DEF Done, Frame
<1> QED BY <1>2, <1>4, <1>5 DEF Emptied

\* An edit in the hands of one who emptied the file while c worked: it stays there, c has
\* missed the rewrite, or it is lost.
LEMMA HoldsStays ==
    ASSUME ControlOK, ControlOK', HandInv, NEW r \in Rpcs, Frame(r), NEW o \in Rpcs, NEW c \in Rpcs,
           NEW x \in Rpcs, o # x, Holds(o, c, x),
           \/ o # r
           \/ changed' = changed /\ (at' = at \/ res' = res)
           \/ r \in missed'[c]
    PROVE  Holds(o, c, x)' \/ Lost(x)'
<1>1. Placed(o) /\ Placed(o)' /\ at[o] \in Nat /\ at'[o] \in Nat /\ changed[o] \in Nat
  BY AllPlaced, AllPlacedNext DEF Frame, ControlOK
<1>2. h[o] = "DataSetYml" /\ at[o] > 6 /\ x \in buf[o] /\ (o \in missed[c] \/ Editing(o))
  BY <1>1 DEF Holds, Placed
<1>3. buf'[o] = buf[o] /\ h'[o] = h[o] /\ at'[o] > 6
  BY <1>1, <1>2 DEF Frame
<1>4. Before(o, "truncate")'
  BY <1>1, <1>2, <1>3 DEF Placed
<1>5. CASE o \in missed[c] \/ Editing(o)' \/ o \in missed'[c]
  BY <1>2, <1>3, <1>4, <1>5 DEF Holds, Frame
<1>6. CASE Editing(o) /\ ~Editing(o)' /\ o \notin missed'[c]
  <2>1. o = r /\ changed' = changed /\ at' = at /\ Done(o)' /\ changed[o] = 0
    BY <1>6 DEF Editing, Done, Frame
  <2>2. ~Before(o, "write")
    BY <1>2, <2>1 DEF HandInv, Edits, DataSets
  <2>3. ~Before(o, "write")'
    BY <1>1, <1>3, <2>1, <2>2 DEF Placed
  <2>4. Emptied(o, x)'
    BY <1>2, <1>3, <1>4, <2>1, <2>3 DEF Emptied
  <2> QED BY <2>1, <2>4 DEF Lost, Frame
<1> QED BY <1>2, <1>5, <1>6

----------------------------------------------------------------------------
(* The parts of the invariant that say what has become of an edit.         *)

\* Nobody has saved: what is to be replaced can be traced as before.
LEMMA TraceQuiet ==
    ASSUME ControlOK, ControlOK', HandInv, TraceInv, NEW r \in Rpcs, Frame(r), missed' = missed,
           h[r] \in Edits => changed' = changed /\ (at' = at \/ res' = res),
           h[r] \in ConfEdits => fd'[r] = fd[r] /\ buf'[r] = buf[r]
    PROVE  TraceInv'
<1> SUFFICES ASSUME NEW c \in Rpcs, NEW x \in Rpcs, c # x, Editing(c)', Saved(x)'
             PROVE  /\ h[c] \in Replacers => x \in missed[c]
                    /\ h[c] \in ConfEdits /\ fd'[c] # NoFile =>
                          \/ x \in buf'[c] \/ x \in missed[c] \/ Lost(x)'
                          \/ \E o \in Rpcs \ {x} : Holds(o, c, x)'
  BY DEF TraceInv, Frame
<1>1. \A o \in Rpcs : changed[o] \in Nat /\ changed'[o] \in Nat
  BY DEF ControlOK, Frame
<1>2. Editing(c) /\ Saved(x)
  <2>1. changed'[x] > 0 /\ h[x] \in Edits
    BY DEF Saved, Frame
  <2>2. changed[x] > 0
    BY <2>1 DEF Frame
  <2>3. changed[c] = 0 /\ ~Done(c)
    BY <1>1 DEF Editing, Done, Frame
  <2> QED BY <2>1, <2>2, <2>3 DEF Editing, Saved
<1>3. /\ h[c] \in Replacers => x \in missed[c]
      /\ h[c] \in ConfEdits /\ fd[c] # NoFile =>
            \/ x \in buf[c] \/ x \in missed[c] \/ Lost(x)
            \/ \E o \in Rpcs \ {x} : Holds(o, c, x)
  BY <1>2 DEF TraceInv
<1>4. ASSUME h[c] \in ConfEdits, fd'[c] # NoFile
      PROVE  \/ x \in buf'[c] \/ x \in missed[c] \/ Lost(x)'
             \/ \E o \in Rpcs \ {x} : Holds(o, c, x)'
  <2>1. fd[c] # NoFile /\ buf'[c] = buf[c]
    BY <1>4 DEF Frame
  <2>2. ASSUME NEW o \in Rpcs \ {x}, Holds(o, c, x) PROVE Holds(o, c, x)' \/ Lost(x)'
    <3>1. h[o] \in Edits
      BY <2>2, AllPlaced DEF Holds, Placed, Edits, DataSets
    <3> QED BY <2>2, <3>1, HoldsStays
  <2> QED BY <1>3, <1>4, <2>1, <2>2, LostStays
<1> QED BY <1>3, <1>4

\* r has saved: those that have read the file have missed it.
LEMMA TraceSaves ==
    ASSUME ControlOK, ControlOK', HandInv, TraceInv, NEW r \in Rpcs, Frame(r),
           missed \in [Rpcs -> SUBSET Rpcs], missed' = Misses(r), res' = res,
           changed'[r] > 0, fd' = fd, buf' = buf
    PROVE  TraceInv'
<1> SUFFICES ASSUME NEW c \in Rpcs, NEW x \in Rpcs, c # x, Editing(c)', Saved(x)'
             PROVE  /\ h[c] \in Replacers => x \in missed'[c]
                    /\ h[c] \in ConfEdits /\ fd[c] # NoFile =>
                          \/ x \in buf[c] \/ x \in missed'[c] \/ Lost(x)'
                          \/ \E o \in Rpcs \ {x} : Holds(o, c, x)'
  BY DEF TraceInv, Frame
<1>1. \A o \in Rpcs : changed[o] \in Nat /\ changed'[o] \in Nat
  BY DEF ControlOK, Frame
<1>2. c # r /\ res[c] = "run" /\ changed[c] = 0 /\ Editing(c)
  BY <1>1 DEF Editing, Done, Frame
<1>3. h[c] \in Replacers \/ fd[c] # NoFile => r \in missed'[c]
  BY <1>2 DEF Misses
<1>4. CASE x = r
  BY <1>3, <1>4
<1>5. CASE x # r
  <2>1. Saved(x)
    BY <1>5 DEF Saved, Frame
  <2>2. /\ h[c] \in Replacers => x \in missed[c]
        /\ h[c] \in ConfEdits /\ fd[c] # NoFile =>
              \/ x \in buf[c] \/ x \in missed[c] \/ Lost(x)
              \/ \E o \in Rpcs \ {x} : Holds(o, c, x)
    BY <1>2, <2>1 DEF TraceInv
  <2>3. missed[c] \subseteq missed'[c]
    BY DEF Frame
  <2>4. ASSUME fd[c] # NoFile, NEW o \in Rpcs \ {x}, Holds(o, c, x)
        PROVE  Holds(o, c, x)' \/ Lost(x)'
    BY <1>3, <2>4, HoldsStays
  <2> QED BY <2>2, <2>3, <2>4, LostStays
<1> QED BY <1>4, <1>5

\* The path is where it was: a DataSet has the same file open, or has just opened that one.
LEMMA FollowQuiet ==
    ASSUME ControlOK, ControlOK', FollowInv, NEW r \in Rpcs, Frame(r), path' = path,
           h[r] \in DataSets => fd'[r] \in {fd[r], path}
    PROVE  FollowInv'
<1> SUFFICES ASSUME NEW x \in Rpcs, h[x] \in DataSets, fd'[x] # NoFile, Editing(x)',
                    fd'[x] # path
             PROVE  \E o \in Rpcs \ {x} : ReplacedUnder(o, x)'
  BY DEF FollowInv, Frame
<1>1. fd'[x] = fd[x]
  BY DEF Frame
<1>2. Editing(x)
  <2>1. changed[x] \in Nat /\ changed'[x] \in Nat
    BY DEF ControlOK, Frame
  <2> QED BY <2>1 DEF Editing, Done, Frame
<1>3. PICK o \in Rpcs \ {x} : ReplacedUnder(o, x)
  BY <1>1, <1>2 DEF FollowInv
<1>4. ReplacedUnder(o, x)'
  BY <1>3 DEF ReplacedUnder, Frame
<1> QED BY <1>4

\* r has put its file at the path: it was replaced under all that had one open.
LEMMA FollowMoves ==
    ASSUME ControlOK, ControlOK', NEW r \in Rpcs, Frame(r), h[r] \in Renamers,
           missed \in [Rpcs -> SUBSET Rpcs], missed' = Misses(r), fd' = fd, res' = res
    PROVE  FollowInv'
<1> SUFFICES ASSUME NEW x \in Rpcs, h[x] \in DataSets, fd[x] # NoFile, Editing(x)'
             PROVE  \E o \in Rpcs \ {x} : ReplacedUnder(o, x)'
  BY DEF FollowInv, Frame
<1>1. x # r
  BY DEF Renamers, ConfEdits, Replacers, DataSets
<1>2. changed[x] = 0 /\ res[x] = "run"
  BY <1>1 DEF Editing, Done, Frame
<1>3. r \in missed'[x]
  BY <1>1, <1>2 DEF Misses
<1>4. ReplacedUnder(r, x)'
  BY <1>3 DEF ReplacedUnder, Frame
<1> QED BY <1>1, <1>4

\* Files are as they were, and nobody has saved.
LEMMA EditQuiet ==
    ASSUME ControlOK, ControlOK', HandInv, EditInv, NEW r \in Rpcs, Frame(r), path' = path,
           file' = file, h[r] \in Edits => changed' = changed,
           h[r] = "DataSetYml" /\ at[r] = 7 => at' = at
    PROVE  EditInv'
<1> SUFFICES ASSUME NEW x \in Rpcs, Saved(x)'
             PROVE  \/ x \in file[path].edits \/ Lost(x)'
                    \/ \E o \in Rpcs \ {x} : Emptied(o, x)'
  BY DEF EditInv, Frame
<1>1. Saved(x)
  BY DEF Saved, Frame
<1>2. ASSUME NEW o \in Rpcs \ {x}, Emptied(o, x) PROVE Emptied(o, x)'
  <2>1. h[o] = "DataSetYml" /\ at[o] = 7
    BY <1>2, EmptiedEdits
  <2> QED BY <1>2, <2>1, EmptiedStays
<1> QED BY <1>1, <1>2, LostStays DEF EditInv

----------------------------------------------------------------------------
(* Every step keeps the invariant of the file.                             *)

LEMMA RpcsInodes ==
    ASSUME ControlOK
    PROVE  /\ Rpcs = 1..Len(h) /\ Len(h) \in Nat /\ Rpcs \subseteq Inodes
           /\ NoFile \notin Inodes /\ Nobody \notin Rpcs
<1>1. Rpcs = 1..Len(h) /\ Len(h) \in Nat
  BY DEF ControlOK, Rpcs
<1> QED BY <1>1 DEF Inodes, NoFile, Nobody

\* A handler goes on, and has nothing to do with the file.
LEMMA IdlesKeeps ==
    ASSUME ControlOK, ControlOK', FileInv, NEW r \in Rpcs, Idles(r)
    PROVE  FileInv'
<1>1. /\ UNCHANGED <<h, path, file, fd, buf, missed, lock, res>> /\ Rpcs' = Rpcs
      /\ Inodes' = Inodes /\ res[r] = "run" /\ Active(r)
  BY DEF Idles, fileVars, Rpcs, Inodes, Active
<1>2. /\ \A o \in Rpcs : at[o] \in Nat /\ at'[o] \in Nat
      /\ \A o \in Rpcs : changed[o] \in Nat /\ changed'[o] \in Nat
  BY <1>1 DEF ControlOK
<1>3. /\ \A o \in Rpcs : o # r => at'[o] = at[o] /\ changed'[o] = changed[o]
      /\ changed' = changed \/ (changed'[r] = changed[r] + 1 /\ Cur(r).do \in {"change", "commit"})
      /\ \/ at'[r] = at[r] + 1
         \/ at'[r] > at[r] /\ Cur(r).do \in {"maybe", "check", "tryLoad"}
  <2>1. CASE at' = [at EXCEPT ![r] = @ + 1]
    BY <1>1, <2>1 DEF Idles, ControlOK
  <2>2. CASE Leaps(r) /\ UNCHANGED changed
    <3>1. at'[r] > at[r] /\ Cur(r).do \in {"maybe", "check", "tryLoad"}
      BY <1>1, <2>2, LeapsHere DEF Leaps
    <3>2. \A o \in Rpcs : o # r => at'[o] = at[o]
      BY <2>2 DEF Leaps, ControlOK
    <3> QED BY <2>2, <3>1, <3>2
  <2> QED BY <2>1, <2>2 DEF Idles
<1>4. \A what : StepAt(h[r], at[r], what) <=> Cur(r).do = what
  BY <1>1, AtPlace
<1>5. /\ h[r] \in DOMAIN Scripts /\ Cur(r).do \notin FileSteps
      /\ (Cur(r).do = "commit" => h[r] \notin Replacers)
  BY AtPlace DEF Idles
<1>6. ASSUME h[r] \in Edits
      PROVE  /\ changed' = changed /\ at'[r] = at[r] + 1
             /\ h[r] \in DataSets => at[r] \notin {2, 3, 4}
             /\ h[r] = "DataSetYml" => at[r] \notin {6, 7}
             /\ h[r] = "DataSetDotenv" => at[r] # 5
             /\ h[r] \in ConfEdits => at[r] # 2
             /\ h[r] = "ConfWrite" => at[r] # 6
             /\ h[r] = "ConfDelete" => at[r] # 7
  <2>1. Cur(r).do \notin {"maybe", "check", "tryLoad", "change", "commit"}
    BY <1>4, <1>6, EditsStraight
  <2>2. ~StepAt(h[r], at[r], "open") /\ ~StepAt(h[r], at[r], "lock")
        /\ ~StepAt(h[r], at[r], "readIn") /\ ~StepAt(h[r], at[r], "truncate")
        /\ ~StepAt(h[r], at[r], "write") /\ ~StepAt(h[r], at[r], "loadConf")
        /\ ~StepAt(h[r], at[r], "replace")
    BY <1>4, <1>5 DEF FileSteps
  <2>3. changed' = changed /\ at'[r] = at[r] + 1
    BY <1>3, <2>1
  <2> QED BY <1>5, <2>2, <2>3, EditPlaces
<1>7. ASSUME h[r] \in Replacers
      PROVE  \/ at[r] < 12 /\ at'[r] = at[r] + 1 /\ changed' = changed
             \/ at[r] > 12
  <2>1. at[r] # 12
    BY <1>4, <1>5, <1>7, ReplacerPlaces
  <2>2. at[r] < 12 => Cur(r).do \notin {"change", "maybe", "check", "tryLoad", "commit"}
    BY <1>2, <1>4, <1>5, <1>7, ReplacerPlaces
  <2> QED BY <1>2, <1>3, <2>1, <2>2
<1>8. /\ \A o \in Rpcs : Placed(o) /\ Placed(o)'
      /\ h[r] \in Edits => h[r] \notin Replacers
  BY <1>1, AllPlaced, AllPlacedNext DEF Edits, DataSets, ConfEdits, Replacers
<1>9. Frame(r)
  <2>1. at'[r] >= at[r] /\ changed'[r] >= changed[r]
    BY <1>2, <1>3
  <2> QED BY <1>1, <1>3, <2>1 DEF Frame
<1>10. FilesOK'
  BY <1>1 DEF FileInv, FilesOK
<1>11. HandInv'
  <2> SUFFICES ASSUME NEW x \in Rpcs
               PROVE  /\ changed'[x] = 0 => path # x /\ \A o \in Rpcs : fd[o] # x
                      /\ fd[x] # NoFile <=> Before(x, "open")' \/ Before(x, "loadConf")'
                      /\ fd[x] # NoFile => path # NoFile
                      /\ buf[x] # {} => Before(x, "readIn")' \/ Before(x, "loadConf")'
                      /\ h[x] \in Edits =>
                            (changed'[x] > 0 <=> Before(x, "write")' \/ Before(x, "replace")')
                      /\ h[x] \in Replacers /\ changed'[x] > 0 => Before(x, "commit")'
    BY <1>1 DEF HandInv
  <2>1. /\ changed[x] = 0 => path # x /\ \A o \in Rpcs : fd[o] # x
        /\ fd[x] # NoFile <=> Before(x, "open") \/ Before(x, "loadConf")
        /\ fd[x] # NoFile => path # NoFile
        /\ buf[x] # {} => Before(x, "readIn") \/ Before(x, "loadConf")
        /\ h[x] \in Edits => (changed[x] > 0 <=> Before(x, "write") \/ Before(x, "replace"))
        /\ h[x] \in Replacers /\ changed[x] > 0 => Before(x, "commit")
    BY DEF FileInv, HandInv
  <2>2. /\ Before(x, "open")' <=> Before(x, "open")
        /\ Before(x, "loadConf")' <=> Before(x, "loadConf")
        /\ Before(x, "readIn")' <=> Before(x, "readIn")
        /\ Before(x, "write")' <=> Before(x, "write")
        /\ Before(x, "replace")' <=> Before(x, "replace")
    BY <1>1, <1>2, <1>3, <1>6, <1>8 DEF Placed, Edits, DataSets, ConfEdits
  <2>3. h[x] \in Replacers /\ changed'[x] > 0 => Before(x, "commit")'
    BY <1>1, <1>2, <1>3, <1>7, <1>8, <2>1 DEF Placed
  <2>4. h[x] \in Edits => changed'[x] = changed[x]
    BY <1>3, <1>6
  <2>5. changed'[x] = 0 => changed[x] = 0
    BY <1>2, <1>3
  <2> QED BY <2>1, <2>2, <2>3, <2>4, <2>5
<1>12. LockInv'
  <2> SUFFICES ASSUME NEW x \in Rpcs, ~Done(x)
               PROVE  /\ Before(x, "lock")' => lock[fd[x]] = x
                      /\ Before(x, "readIn")' /\ changed'[x] = 0 =>
                            file[fd[x]].edits = IF Before(x, "truncate")' THEN {} ELSE buf[x]
    BY <1>1 DEF LockInv, Done
  <2>1. /\ Before(x, "lock")' <=> Before(x, "lock")
        /\ Before(x, "readIn")' <=> Before(x, "readIn")
        /\ Before(x, "truncate")' <=> Before(x, "truncate")
    BY <1>1, <1>2, <1>3, <1>6, <1>8 DEF Placed, Edits, DataSets, ConfEdits
  <2>2. changed'[x] = 0 => changed[x] = 0
    BY <1>2, <1>3
  <2> QED BY <2>1, <2>2 DEF FileInv, LockInv
<1>13. FollowInv'
  BY <1>1, <1>9, FollowQuiet DEF FileInv
<1>14. TraceInv'
  BY <1>1, <1>6, <1>9, TraceQuiet DEF FileInv
<1>15. EditInv'
  BY <1>1, <1>6, <1>9, EditQuiet DEF FileInv, Edits, DataSets
<1> QED BY <1>10, <1>11, <1>12, <1>13, <1>14, <1>15 DEF FileInv

\* A handler returns: it gives its lock back, and nobody else's.
LEMMA GivesUpKeeps ==
    ASSUME ControlOK, ControlOK', FileInv, NEW r \in Rpcs, GivesUp(r)
    PROVE  FileInv'
<1>1. /\ UNCHANGED <<h, path, file, fd, buf, missed, changed, at>> /\ Rpcs' = Rpcs
      /\ Inodes' = Inodes /\ lock' = Unlocked(r) /\ res[r] = "run"
      /\ \A o \in Rpcs : o # r => res'[o] = res[o]
      /\ res'[r] # "run"
  BY DEF GivesUp, Return, fileVars, Rpcs, Inodes, ControlOK
<1>2. /\ \A o \in Rpcs : at[o] \in Nat /\ changed[o] \in Nat
      /\ \A o \in Rpcs : \A what : Before(o, what)' <=> Before(o, what)
  BY <1>1 DEF ControlOK, Before, Script
<1>3. Frame(r)
  BY <1>1, <1>2 DEF Frame
<1>4. FilesOK'
  <2>1. lock' \in [Inodes -> Rpcs \cup {Nobody}]
    BY <1>1 DEF FileInv, FilesOK, Unlocked
  <2> QED BY <1>1, <2>1 DEF FileInv, FilesOK
<1>5. HandInv'
  BY <1>1, <1>2 DEF FileInv, HandInv
<1>6. LockInv'
  <2> SUFFICES ASSUME NEW x \in Rpcs, ~Done(x)'
               PROVE  /\ Before(x, "lock") => lock'[fd[x]] = x
                      /\ Before(x, "readIn") /\ changed[x] = 0 =>
                            file[fd[x]].edits = IF Before(x, "truncate") THEN {} ELSE buf[x]
    BY <1>1, <1>2 DEF LockInv
  <2>1. x # r /\ ~Done(x)
    BY <1>1 DEF Done
  <2>2. ASSUME Before(x, "lock") PROVE lock'[fd[x]] = x
    <3>1. lock[fd[x]] = x /\ fd[x] # NoFile
      <4>1. Before(x, "open")
        BY <1>2, <2>2, AllPlaced DEF Placed
      <4> QED BY <2>1, <2>2, <4>1 DEF FileInv, LockInv, HandInv
    <3>2. fd[x] \in DOMAIN lock
      BY <3>1 DEF FileInv, FilesOK
    <3> QED BY <1>1, <2>1, <3>1, <3>2 DEF Unlocked
  <2> QED BY <2>1, <2>2 DEF FileInv, LockInv
<1>7. FollowInv'
  BY <1>1, <1>3, FollowQuiet DEF FileInv
<1>8. TraceInv'
  BY <1>1, <1>3, TraceQuiet DEF FileInv
<1>9. EditInv'
  BY <1>1, <1>3, EditQuiet DEF FileInv
<1> QED BY <1>4, <1>5, <1>6, <1>7, <1>8, <1>9 DEF FileInv

\* A handler goes on to its next step.
Proceeds(r) ==
    /\ h' = h /\ Rpcs' = Rpcs /\ Inodes' = Inodes /\ res' = res /\ res[r] = "run"
    /\ at'[r] = at[r] + 1 /\ \A o \in Rpcs : o # r => at'[o] = at[o]
    /\ \A o \in Rpcs : at[o] \in Nat /\ changed[o] \in Nat /\ changed'[o] \in Nat
    /\ \A o \in Rpcs : Placed(o) /\ Placed(o)'
    /\ \A o \in Rpcs : \A what : o # r => (Before(o, what)' <=> Before(o, what))

LEMMA ProceedsHere ==
    ASSUME ControlOK, ControlOK', NEW r \in Rpcs, h' = h, res' = res, res[r] = "run",
           at' = [at EXCEPT ![r] = @ + 1]
    PROVE  Proceeds(r)
<1>1. Rpcs' = Rpcs /\ Inodes' = Inodes /\ \A o \in Rpcs : Placed(o) /\ Placed(o)'
  BY AllPlaced, AllPlacedNext DEF Rpcs, Inodes
<1>2. at'[r] = at[r] + 1 /\ \A o \in Rpcs : o # r => at'[o] = at[o]
  BY DEF ControlOK
<1>3. \A o \in Rpcs : at[o] \in Nat /\ changed[o] \in Nat /\ changed'[o] \in Nat
  BY <1>1 DEF ControlOK
<1>4. \A o \in Rpcs : \A what : o # r => (Before(o, what)' <=> Before(o, what))
  BY <1>2 DEF Before, Script
<1> QED BY <1>1, <1>2, <1>3, <1>4 DEF Proceeds

\* A Conf handler loads the file: it has in hand what is there, and what is not there is in
\* the hands of the one rewriting it, or lost.
LEMMA LoadsConfKeeps ==
    ASSUME ControlOK, ControlOK', FileInv, NEW r \in Rpcs, LoadsConf(r)
    PROVE  FileInv'
<1>1. CASE Return(r, "failed") /\ UNCHANGED <<fd, buf>>
  <2>1. GivesUp(r)
    BY <1>1, AtCur DEF LoadsConf, GivesUp, rpcVars, saidVars, fileVars
  <2> QED BY <2>1, GivesUpKeeps
<1>2. CASE /\ path # NoFile /\ Continue(r)
           /\ fd' = [fd EXCEPT ![r] = path] /\ buf' = [buf EXCEPT ![r] = file[path].edits]
  <2>1. /\ UNCHANGED <<path, file, missed, changed, lock>> /\ Proceeds(r)
        /\ h[r] \in ConfEdits /\ at[r] = 2
    <3>1. h[r] \in DOMAIN Scripts /\ StepAt(h[r], at[r], "loadConf") /\ res[r] = "run"
      BY AtPlace DEF LoadsConf
    <3> QED BY <1>2, <3>1, EditPlaces, ProceedsHere DEF LoadsConf, Continue, rpcVars, saidVars
  <2> USE DEF FileInv
  <2>2. /\ fd'[r] = path /\ buf'[r] = file[path].edits /\ path \in Inodes
        /\ \A o \in Rpcs : o # r => fd'[o] = fd[o] /\ buf'[o] = buf[o]
        /\ h[r] \in Edits /\ h[r] \notin DataSets /\ h[r] \notin Replacers
    BY <1>2, <2>1 DEF FilesOK, Edits, DataSets, ConfEdits, Replacers
  <2>3. Frame(r)
    BY <2>1, <2>2 DEF Frame, Proceeds, DataSets
  <2>4. FilesOK'
    <3>1. file[path].edits \in SUBSET Rpcs
      BY <2>2 DEF FilesOK
    <3> QED BY <1>2, <2>1, <2>2, <3>1 DEF FilesOK, Proceeds
  <2>5. /\ changed[r] = 0
        /\ ~Before(r, "open")' /\ Before(r, "loadConf")' /\ ~Before(r, "write")'
        /\ ~Before(r, "replace")' /\ ~Before(r, "lock")' /\ ~Before(r, "readIn")'
    <3>1. ~Before(r, "write") /\ ~Before(r, "replace")
      BY <2>1 DEF Placed, Proceeds, ConfEdits
    <3>2. changed[r] = 0
      BY <2>1, <2>2, <3>1 DEF HandInv, Proceeds
    <3> QED BY <2>1, <3>2 DEF Placed, Proceeds, DataSets, ConfEdits
  <2>6. HandInv'
    <3>1. \A x \in Rpcs : changed[x] = 0 => path # x /\ \A o \in Rpcs : fd'[o] # x
      BY <2>2 DEF HandInv
    <3>2. \A x \in Rpcs : x # r =>
             /\ fd'[x] # NoFile <=> Before(x, "open")' \/ Before(x, "loadConf")'
             /\ buf'[x] # {} => Before(x, "readIn")' \/ Before(x, "loadConf")'
             /\ h[x] \in Edits => (changed[x] > 0 <=> Before(x, "write")' \/ Before(x, "replace")')
             /\ h[x] \in Replacers /\ changed[x] > 0 => Before(x, "commit")'
      BY <2>1, <2>2 DEF HandInv, Proceeds
    <3> QED BY <1>2, <2>1, <2>2, <2>5, <3>1, <3>2 DEF HandInv, Proceeds
  <2>7. LockInv'
    BY <2>1, <2>2, <2>5 DEF LockInv, Proceeds, Done
  <2>8. FollowInv'
    BY <2>1, <2>2, <2>3, FollowQuiet
  <2>9. TraceInv'
    <3> SUFFICES ASSUME NEW c \in Rpcs, NEW x \in Rpcs, c # x, Editing(c)', Saved(x)'
                 PROVE  /\ h[c] \in Replacers => x \in missed[c]
                        /\ h[c] \in ConfEdits /\ fd'[c] # NoFile =>
                              \/ x \in buf'[c] \/ x \in missed[c] \/ Lost(x)'
                              \/ \E o \in Rpcs \ {x} : Holds(o, c, x)'
      BY <2>1 DEF TraceInv, Proceeds
    <3>1. Editing(c) /\ Saved(x)
      BY <2>1 DEF Editing, Saved, Done, Proceeds
    <3>2. ASSUME NEW o \in Rpcs \ {x}, Holds(o, c, x) PROVE Holds(o, c, x)' \/ Lost(x)'
      BY <2>1, <2>3, <3>2, HoldsStays DEF Proceeds
    <3>3. CASE c # r
      BY <2>2, <2>3, <3>1, <3>2, <3>3, LostStays DEF TraceInv
    <3>4. CASE c = r
      <4>1. x \in file[path].edits \/ Lost(x) \/ \E o \in Rpcs \ {x} : Emptied(o, x)
        BY <3>1 DEF EditInv
      <4>2. ASSUME NEW o \in Rpcs \ {x}, Emptied(o, x)
            PROVE  Holds(o, c, x)' \/ Lost(x)'
        <5>1. changed[o] = 0 /\ h[o] = "DataSetYml"
          BY <4>2, EmptiedEdits
        <5>2. CASE Done(o)
          BY <2>3, <4>2, <5>2, LostStays DEF Lost
        <5>3. CASE ~Done(o)
          <6>1. Holds(o, c, x)
            BY <4>2, <5>1, <5>3 DEF Holds, Emptied, Editing
          <6> QED BY <3>2, <6>1
        <5> QED BY <5>2, <5>3
      <4> QED BY <2>2, <2>3, <3>4, <4>1, <4>2, LostStays
    <3> QED BY <3>3, <3>4
  <2>10. EditInv'
    BY <2>1, <2>2, <2>3, EditQuiet DEF ConfEdits
  <2> QED BY <2>4, <2>6, <2>7, <2>8, <2>9, <2>10
<1> QED BY <1>1, <1>2 DEF LoadsConf

\* A DataSet opens the file at the path.
LEMMA OpensKeeps ==
    ASSUME ControlOK, ControlOK', FileInv, NEW r \in Rpcs, OpensFile(r)
    PROVE  FileInv'
<1>1. CASE Return(r, "failed") /\ UNCHANGED fd
  <2>1. GivesUp(r)
    BY <1>1, AtCur DEF OpensFile, GivesUp, rpcVars, saidVars, fileVars
  <2> QED BY <2>1, GivesUpKeeps
<1>2. CASE path # NoFile /\ Continue(r) /\ fd' = [fd EXCEPT ![r] = path]
  <2>1. /\ UNCHANGED <<path, file, buf, missed, changed, lock>> /\ Proceeds(r)
        /\ h[r] \in DataSets /\ at[r] = 2
    <3>1. h[r] \in DOMAIN Scripts /\ StepAt(h[r], at[r], "open") /\ res[r] = "run"
      BY AtPlace DEF OpensFile
    <3> QED BY <1>2, <3>1, EditPlaces, ProceedsHere DEF OpensFile, Continue, rpcVars, saidVars
  <2> USE DEF FileInv
  <2>2. /\ fd'[r] = path /\ path \in Inodes
        /\ \A o \in Rpcs : o # r => fd'[o] = fd[o]
        /\ h[r] \in Edits /\ h[r] \notin ConfEdits /\ h[r] \notin Replacers
    BY <1>2, <2>1 DEF FilesOK, Edits, DataSets, ConfEdits, Replacers
  <2>3. Frame(r)
    BY <2>1, <2>2 DEF Frame, Proceeds
  <2>4. FilesOK'
    BY <1>2, <2>1, <2>2 DEF FilesOK, Proceeds
  <2>5. /\ Before(r, "open")' /\ ~Before(r, "loadConf")' /\ ~Before(r, "write")'
        /\ ~Before(r, "replace")' /\ ~Before(r, "lock")' /\ ~Before(r, "readIn")'
        /\ ~Before(r, "write") /\ ~Before(r, "replace") /\ ~Before(r, "readIn")
        /\ ~Before(r, "loadConf")
    BY <2>1, <2>2 DEF Placed, Proceeds, DataSets, ConfEdits
  <2>6. HandInv'
    <3>1. \A x \in Rpcs : changed[x] = 0 => path # x /\ \A o \in Rpcs : fd'[o] # x
      BY <2>2 DEF HandInv
    <3>2. \A x \in Rpcs : x # r =>
             /\ fd'[x] # NoFile <=> Before(x, "open")' \/ Before(x, "loadConf")'
             /\ buf[x] # {} => Before(x, "readIn")' \/ Before(x, "loadConf")'
             /\ h[x] \in Edits => (changed[x] > 0 <=> Before(x, "write")' \/ Before(x, "replace")')
             /\ h[x] \in Replacers /\ changed[x] > 0 => Before(x, "commit")'
      BY <2>1, <2>2 DEF HandInv, Proceeds
    <3>3. buf[r] = {} /\ ~(changed[r] > 0)
      BY <2>2, <2>5 DEF HandInv
    <3> QED BY <1>2, <2>1, <2>2, <2>5, <3>1, <3>2, <3>3 DEF HandInv, Proceeds
  <2>7. LockInv'
    BY <2>1, <2>2, <2>5 DEF LockInv, Proceeds, Done
  <2>8. FollowInv'
    BY <2>1, <2>2, <2>3, FollowQuiet
  <2>9. TraceInv'
    BY <2>1, <2>2, <2>3, TraceQuiet DEF Proceeds
  <2>10. EditInv'
    BY <2>1, <2>2, <2>3, EditQuiet
  <2> QED BY <2>4, <2>6, <2>7, <2>8, <2>9, <2>10
<1> QED BY <1>1, <1>2 DEF OpensFile

\* A DataSet gets the lock, which nobody had.
LEMMA LocksKeeps ==
    ASSUME ControlOK, ControlOK', FileInv, NEW r \in Rpcs, Locks(r)
    PROVE  FileInv'
<1>1. /\ UNCHANGED <<path, file, fd, buf, missed, changed>> /\ Proceeds(r)
      /\ h[r] \in DataSets /\ at[r] = 3 /\ lock[fd[r]] = Nobody
      /\ lock' = [lock EXCEPT ![fd[r]] = r]
  <2>1. h[r] \in DOMAIN Scripts /\ StepAt(h[r], at[r], "lock") /\ res[r] = "run"
    BY AtPlace DEF Locks
  <2> QED BY <2>1, EditPlaces, ProceedsHere DEF Locks, rpcVars, saidVars, fileVars
<1> USE DEF FileInv
<1>2. h[r] \in Edits /\ h[r] \notin ConfEdits /\ h[r] \notin Replacers
  BY <1>1 DEF Edits, DataSets, ConfEdits, Replacers
<1>3. Frame(r)
  BY <1>1 DEF Frame, Proceeds
<1>4. fd[r] \in Inodes
  <2>1. Before(r, "open")
    BY <1>1 DEF Placed, Proceeds
  <2> QED BY <2>1 DEF HandInv, FilesOK
<1>5. FilesOK'
  BY <1>1, <1>4 DEF FilesOK, Proceeds
<1>6. \A w \in {"open", "loadConf", "write", "replace", "readIn", "truncate"} :
         Before(r, w)' <=> Before(r, w)
  BY <1>1, <1>2 DEF Placed, Proceeds, DataSets, ConfEdits
<1>7. HandInv'
  BY <1>1, <1>2, <1>6 DEF HandInv, Proceeds
<1>8. LockInv'
  <2> SUFFICES ASSUME NEW x \in Rpcs, ~Done(x)
               PROVE  /\ Before(x, "lock")' => lock'[fd[x]] = x
                      /\ Before(x, "readIn")' /\ changed[x] = 0 =>
                            file[fd[x]].edits = IF Before(x, "truncate")' THEN {} ELSE buf[x]
    BY <1>1 DEF LockInv, Done, Proceeds
  <2>1. CASE x = r
    <3>1. lock'[fd[r]] = r
      BY <1>1, <1>4 DEF FilesOK
    <3> QED BY <1>6, <2>1, <3>1 DEF LockInv
  <2>2. CASE x # r
    <3>1. Before(x, "lock") => lock[fd[x]] = x /\ fd[x] \in Inodes
      <4>1. Before(x, "lock") => Before(x, "open")
        BY <1>1 DEF Placed, Proceeds
      <4> QED BY <4>1 DEF LockInv, HandInv, FilesOK
    <3>2. Before(x, "lock") => fd[x] # fd[r]
      BY <1>1, <3>1, RpcsInodes
    <3>3. Before(x, "lock") => lock'[fd[x]] = x
      BY <1>1, <3>1, <3>2 DEF FilesOK
    <3> QED BY <1>1, <2>2, <3>3 DEF LockInv, Proceeds
  <2> QED BY <2>1, <2>2
<1>9. FollowInv'
  BY <1>1, <1>3, FollowQuiet
<1>10. TraceInv'
  BY <1>1, <1>2, <1>3, TraceQuiet DEF Proceeds
<1>11. EditInv'
  BY <1>1, <1>3, EditQuiet
<1> QED BY <1>5, <1>7, <1>8, <1>9, <1>10, <1>11

\* A DataSet that holds the lock reads the file.
LEMMA ReadsInKeeps ==
    ASSUME ControlOK, ControlOK', FileInv, NEW r \in Rpcs, ReadsIn(r)
    PROVE  FileInv'
<1>1. CASE Return(r, "failed") /\ UNCHANGED buf
  <2>1. GivesUp(r)
    BY <1>1, AtCur DEF ReadsIn, GivesUp, rpcVars, saidVars, fileVars
  <2> QED BY <2>1, GivesUpKeeps
<1>2. CASE Continue(r) /\ buf' = [buf EXCEPT ![r] = file[fd[r]].edits]
  <2>1. /\ UNCHANGED <<path, file, fd, missed, changed, lock>> /\ Proceeds(r)
        /\ h[r] \in DataSets /\ at[r] = 4
    <3>1. h[r] \in DOMAIN Scripts /\ StepAt(h[r], at[r], "readIn") /\ res[r] = "run"
      BY AtPlace DEF ReadsIn
    <3> QED BY <1>2, <3>1, EditPlaces, ProceedsHere DEF ReadsIn, Continue, rpcVars, saidVars
  <2> USE DEF FileInv
  <2>2. /\ buf'[r] = file[fd[r]].edits /\ \A o \in Rpcs : o # r => buf'[o] = buf[o]
        /\ h[r] \in Edits /\ h[r] \notin ConfEdits /\ h[r] \notin Replacers
    BY <1>2, <2>1 DEF FilesOK, Edits, DataSets, ConfEdits, Replacers
  <2>3. Frame(r)
    BY <2>1, <2>2 DEF Frame, Proceeds
  <2>4. \A w \in {"open", "loadConf", "write", "replace", "lock", "truncate"} :
           Before(r, w)' <=> Before(r, w)
    BY <2>1, <2>2 DEF Placed, Proceeds, DataSets, ConfEdits
  <2>5. Before(r, "readIn")' /\ ~Before(r, "truncate") /\ Before(r, "lock") /\ Before(r, "open")
    BY <2>1 DEF Placed, Proceeds
  <2>6. FilesOK'
    <3>1. fd[r] \in Inodes
      BY <2>5 DEF HandInv, FilesOK
    <3>2. file[fd[r]].edits \in SUBSET Rpcs
      BY <3>1 DEF FilesOK
    <3> QED BY <1>2, <2>1, <3>2 DEF FilesOK, Proceeds
  <2>7. HandInv'
    <3>1. \A x \in Rpcs : x # r =>
             (buf'[x] # {} => Before(x, "readIn")' \/ Before(x, "loadConf")')
      BY <2>1, <2>2 DEF HandInv, Proceeds
    <3> QED BY <2>1, <2>2, <2>4, <2>5, <3>1 DEF HandInv, Proceeds
  <2>8. LockInv'
    <3> SUFFICES ASSUME NEW x \in Rpcs, ~Done(x)
                 PROVE  /\ Before(x, "lock")' => lock[fd[x]] = x
                        /\ Before(x, "readIn")' /\ changed[x] = 0 =>
                              file[fd[x]].edits = IF Before(x, "truncate")' THEN {} ELSE buf'[x]
      BY <2>1 DEF LockInv, Done, Proceeds
    <3>1. CASE x = r
      BY <2>2, <2>4, <2>5, <3>1 DEF LockInv
    <3>2. CASE x # r
      BY <2>1, <2>2, <3>2 DEF LockInv, Proceeds
    <3> QED BY <3>1, <3>2
  <2>9. FollowInv'
    BY <2>1, <2>3, FollowQuiet
  <2>10. TraceInv'
    BY <2>1, <2>2, <2>3, TraceQuiet DEF Proceeds
  <2>11. EditInv'
    BY <2>1, <2>3, EditQuiet
  <2> QED BY <2>6, <2>7, <2>8, <2>9, <2>10, <2>11
<1> QED BY <1>1, <1>2 DEF ReadsIn

\* Whoever else has read the file under its lock has another file.
LEMMA OneHolder ==
    ASSUME ControlOK, FilesOK, HandInv, LockInv, NEW r \in Rpcs, NEW x \in Rpcs, x # r,
           ~Done(r), ~Done(x), Before(r, "lock"), Before(x, "lock")
    PROVE  fd[x] # fd[r]
BY DEF LockInv

\* The holder of the lock empties the file: what it held is in the holder's hands.
LEMMA TruncatesKeeps ==
    ASSUME ControlOK, ControlOK', FileInv, NEW r \in Rpcs, Truncates(r)
    PROVE  FileInv'
<1>1. CASE Return(r, "failed") /\ UNCHANGED file
  <2>1. GivesUp(r)
    BY <1>1, AtCur DEF Truncates, GivesUp, rpcVars, saidVars, fileVars
  <2> QED BY <2>1, GivesUpKeeps
<1>2. CASE Continue(r) /\ file' = [file EXCEPT ![fd[r]] = [Nothing EXCEPT !.torn = TRUE]]
  <2>1. /\ UNCHANGED <<path, fd, buf, missed, changed, lock>> /\ Proceeds(r)
        /\ h[r] = "DataSetYml" /\ at[r] = 6
    <3>1. h[r] \in DOMAIN Scripts /\ StepAt(h[r], at[r], "truncate") /\ res[r] = "run"
      BY AtPlace DEF Truncates
    <3> QED BY <1>2, <3>1, EditPlaces, ProceedsHere DEF Truncates, Continue, rpcVars, saidVars
  <2> USE DEF FileInv
  <2>2. h[r] \in Edits /\ h[r] \in DataSets /\ h[r] \notin ConfEdits /\ h[r] \notin Replacers
    BY <2>1 DEF Edits, DataSets, ConfEdits, Replacers
  <2>3. Frame(r)
    BY <2>1 DEF Frame, Proceeds
  <2>4. \A w \in {"open", "loadConf", "write", "replace", "lock", "readIn"} :
           Before(r, w)' <=> Before(r, w)
    BY <2>1, <2>2 DEF Placed, Proceeds, DataSets, ConfEdits
  <2>5. /\ Before(r, "readIn") /\ Before(r, "truncate")' /\ ~Before(r, "truncate")
        /\ Before(r, "lock") /\ Before(r, "open") /\ ~Before(r, "write") /\ ~Before(r, "replace")
    BY <2>1, <2>2 DEF Placed, Proceeds, DataSets, ConfEdits
  <2>6. fd[r] \in Inodes /\ changed[r] = 0 /\ ~Done(r)
    BY <2>1, <2>2, <2>5 DEF HandInv, FilesOK, Proceeds, Done
  <2>7. /\ file'[fd[r]].edits = {} /\ \A i \in Inodes : i # fd[r] => file'[i] = file[i]
        /\ file[fd[r]].edits = buf[r]
    <3>1. [Nothing EXCEPT !.torn = TRUE].edits = {}
      BY DEF Nothing
    <3> QED BY <1>2, <2>5, <2>6, <3>1 DEF FilesOK, LockInv
  <2>8. FilesOK'
    <3>1. [Nothing EXCEPT !.torn = TRUE] \in [edits : SUBSET Rpcs, torn : BOOLEAN, tail : BOOLEAN]
      BY DEF Nothing
    <3> QED BY <1>2, <2>1, <2>6, <3>1 DEF FilesOK, Proceeds
  <2>9. HandInv'
    BY <2>1, <2>2, <2>4 DEF HandInv, Proceeds
  <2>10. LockInv'
    <3> SUFFICES ASSUME NEW x \in Rpcs, ~Done(x)
                 PROVE  /\ Before(x, "lock")' => lock[fd[x]] = x
                        /\ Before(x, "readIn")' /\ changed[x] = 0 =>
                              file'[fd[x]].edits = IF Before(x, "truncate")' THEN {} ELSE buf[x]
      BY <2>1 DEF LockInv, Done, Proceeds
    <3>1. CASE x = r
      BY <2>4, <2>5, <2>7, <3>1 DEF LockInv
    <3>2. CASE x # r
      <4>1. Before(x, "readIn") => Before(x, "lock") /\ Before(x, "open")
        BY <2>1 DEF Placed, Proceeds
      <4>2. Before(x, "readIn") => fd[x] # fd[r] /\ fd[x] \in Inodes
        BY <2>5, <2>6, <3>2, <4>1, OneHolder DEF HandInv, FilesOK
      <4> QED BY <2>1, <2>7, <3>2, <4>2 DEF LockInv, Proceeds
    <3> QED BY <3>1, <3>2
  <2>11. FollowInv'
    BY <2>1, <2>3, FollowQuiet
  <2>12. TraceInv'
    BY <2>1, <2>2, <2>3, TraceQuiet DEF Proceeds
  <2>13. EditInv'
    <3> SUFFICES ASSUME NEW x \in Rpcs, Saved(x)'
                 PROVE  \/ x \in file'[path].edits \/ Lost(x)'
                        \/ \E o \in Rpcs \ {x} : Emptied(o, x)'
      BY <2>1 DEF EditInv, Proceeds
    <3>1. Saved(x) /\ x # r
      BY <2>1, <2>6 DEF Saved, Proceeds
    <3>2. ASSUME NEW o \in Rpcs \ {x}, Emptied(o, x) PROVE Emptied(o, x)'
      <4>1. o # r
        BY <2>1, <3>2, EmptiedEdits
      <4> QED BY <2>1, <2>3, <3>2, <4>1, EmptiedStays
    <3>3. ASSUME x \in file[path].edits
          PROVE  x \in file'[path].edits \/ Emptied(r, x)'
      <4>1. CASE path = fd[r]
        BY <2>1, <2>4, <2>5, <2>7, <3>3, <4>1 DEF Emptied
      <4>2. CASE path # fd[r]
        <5>1. path \in Inodes
          BY <2>5 DEF HandInv, FilesOK
        <5> QED BY <2>7, <3>3, <4>2, <5>1
      <4> QED BY <4>1, <4>2
    <3> QED BY <2>3, <3>1, <3>2, <3>3, LostStays DEF EditInv
  <2> QED BY <2>8, <2>9, <2>10, <2>11, <2>12, <2>13
<1> QED BY <1>1, <1>2 DEF Truncates

\* What a save does to the counts of the saves and of the misses.
LEMMA SavesCounts ==
    ASSUME ControlOK, ControlOK', FilesOK, NEW r \in Rpcs, Proceeds(r),
           changed' = [changed EXCEPT ![r] = @ + 1], missed' = Misses(r)
    PROVE  /\ changed'[r] > 0 /\ changed'[r] >= changed[r]
           /\ \A o \in Rpcs : o # r => changed'[o] = changed[o]
           /\ \A o \in Rpcs : missed[o] \subseteq missed'[o]
           /\ missed \in [Rpcs -> SUBSET Rpcs] /\ missed' \in [Rpcs -> SUBSET Rpcs]
<1>1. changed'[r] = changed[r] + 1 /\ \A o \in Rpcs : o # r => changed'[o] = changed[o]
  BY DEF ControlOK
<1>2. missed \in [Rpcs -> SUBSET Rpcs]
  BY DEF FilesOK
<1>3. \A o \in Rpcs : missed[o] \subseteq Misses(r)[o]
  BY <1>2 DEF Misses
<1>4. Misses(r) \in [Rpcs -> SUBSET Rpcs]
  BY <1>2 DEF Misses
<1> QED BY <1>1, <1>2, <1>3, <1>4 DEF Proceeds

\* The holder of the lock writes what it read, and its own edit.
LEMMA WritesKeeps ==
    ASSUME ControlOK, ControlOK', FileInv, NEW r \in Rpcs, Writes(r)
    PROVE  FileInv'
<1>1. CASE Return(r, "failed") /\ UNCHANGED <<file, changed, missed>>
  <2>1. GivesUp(r)
    BY <1>1, AtCur DEF Writes, GivesUp, rpcVars, saidVars, fileVars
  <2> QED BY <2>1, GivesUpKeeps
<1>2. ASSUME NEW shorter \in BOOLEAN,
             file' = [file EXCEPT ![fd[r]] = [edits |-> buf[r] \cup {r}, torn |-> FALSE,
                                              tail |-> shorter \/ @.tail]],
             changed' = [changed EXCEPT ![r] = @ + 1], missed' = Misses(r), Continue(r)
      PROVE  FileInv'
  <2>1. /\ UNCHANGED <<path, fd, buf, lock>> /\ Proceeds(r)
        /\ \/ h[r] = "DataSetYml" /\ at[r] = 7
           \/ h[r] = "DataSetDotenv" /\ at[r] = 5
    <3>1. h[r] \in DOMAIN Scripts /\ StepAt(h[r], at[r], "write") /\ res[r] = "run"
      BY AtPlace DEF Writes
    <3> QED BY <1>2, <3>1, EditPlaces, ProceedsHere DEF Writes, Continue, rpcVars, saidVars
  <2> USE DEF FileInv
  <2>2. h[r] \in Edits /\ h[r] \in DataSets /\ h[r] \notin ConfEdits /\ h[r] \notin Replacers
    BY <2>1 DEF Edits, DataSets, ConfEdits, Replacers
  <2>3. /\ changed'[r] > 0 /\ changed'[r] >= changed[r]
        /\ \A o \in Rpcs : o # r => changed'[o] = changed[o]
        /\ \A o \in Rpcs : missed[o] \subseteq missed'[o]
        /\ missed \in [Rpcs -> SUBSET Rpcs] /\ missed' \in [Rpcs -> SUBSET Rpcs]
    BY <1>2, <2>1, SavesCounts
  <2>4. Frame(r)
    BY <2>1, <2>3 DEF Frame, Proceeds
  <2>5. \A w \in {"open", "loadConf", "replace", "lock", "readIn", "truncate"} :
           Before(r, w)' <=> Before(r, w)
    BY <2>1, <2>2 DEF Placed, Proceeds, DataSets, ConfEdits
  <2>6. /\ Before(r, "readIn") /\ Before(r, "lock") /\ Before(r, "open") /\ ~Before(r, "write")
        /\ ~Before(r, "replace") /\ Before(r, "write")'
    BY <2>1, <2>2 DEF Placed, Proceeds, DataSets, ConfEdits
  <2>7. fd[r] \in Inodes /\ fd[r] # NoFile /\ changed[r] = 0 /\ ~Done(r) /\ path \in Inodes
    BY <2>1, <2>2, <2>6 DEF HandInv, FilesOK, Proceeds, Done
  <2>8. /\ file'[fd[r]].edits = buf[r] \cup {r}
        /\ \A i \in Inodes : i # fd[r] => file'[i] = file[i]
    BY <1>2, <2>7 DEF FilesOK
  <2>9. FilesOK'
    <3>1. [edits |-> buf[r] \cup {r}, torn |-> FALSE, tail |-> shorter \/ file[fd[r]].tail]
             \in [edits : SUBSET Rpcs, torn : BOOLEAN, tail : BOOLEAN]
      BY DEF FilesOK
    <3>2. file' \in [Inodes -> [edits : SUBSET Rpcs, torn : BOOLEAN, tail : BOOLEAN]]
      BY <1>2, <2>7, <3>1 DEF FilesOK
    <3> QED BY <2>1, <2>3, <3>2 DEF FilesOK, Proceeds
  <2>10. HandInv'
    BY <2>1, <2>2, <2>3, <2>5, <2>6 DEF HandInv, Proceeds
  <2>11. LockInv'
    <3> SUFFICES ASSUME NEW x \in Rpcs, ~Done(x)
                 PROVE  /\ Before(x, "lock")' => lock[fd[x]] = x
                        /\ Before(x, "readIn")' /\ changed'[x] = 0 =>
                              file'[fd[x]].edits = IF Before(x, "truncate")' THEN {} ELSE buf[x]
      BY <2>1 DEF LockInv, Done, Proceeds
    <3>1. CASE x = r
      BY <2>3, <2>5, <3>1 DEF LockInv
    <3>2. CASE x # r
      <4>1. Before(x, "readIn") => Before(x, "lock") /\ Before(x, "open")
        BY <2>1 DEF Placed, Proceeds
      <4>2. Before(x, "readIn") => fd[x] # fd[r] /\ fd[x] \in Inodes
        BY <2>6, <2>7, <3>2, <4>1, OneHolder DEF HandInv, FilesOK
      <4> QED BY <2>1, <2>3, <2>8, <3>2, <4>2 DEF LockInv, Proceeds
    <3> QED BY <3>1, <3>2
  <2>12. FollowInv'
    BY <2>1, <2>4, FollowQuiet
  <2>13. TraceInv'
    BY <1>2, <2>1, <2>3, <2>4, TraceSaves DEF Proceeds, FilesOK
  <2>14. EditInv'
    <3> SUFFICES ASSUME NEW x \in Rpcs, Saved(x)'
                 PROVE  \/ x \in file'[path].edits \/ Lost(x)'
                        \/ \E o \in Rpcs \ {x} : Emptied(o, x)'
      BY <2>1 DEF EditInv, Proceeds
    <3>1. CASE x = r
      <4>1. CASE fd[r] = path
        BY <2>8, <3>1, <4>1
      <4>2. CASE fd[r] # path
        <5>1. PICK o \in Rpcs \ {r} : ReplacedUnder(o, r)
          BY <2>2, <2>7, <4>2 DEF FollowInv, Editing
        <5>2. ReplacedUnder(o, r)'
          BY <2>4, <5>1 DEF ReplacedUnder, Frame
        <5> QED BY <2>4, <3>1, <5>2 DEF Lost, Frame
      <4> QED BY <4>1, <4>2
    <3>2. CASE x # r
      <4>1. Saved(x)
        BY <2>1, <2>3, <3>2 DEF Saved, Proceeds
      <4>2. ASSUME NEW o \in Rpcs \ {x}, Emptied(o, x)
            PROVE  x \in file'[path].edits \/ Emptied(o, x)'
        <5>1. CASE o = r
          BY <2>7, <2>8, <4>2, <5>1 DEF Emptied
        <5>2. CASE o # r
          BY <2>1, <2>4, <4>2, <5>2, EmptiedStays
        <5> QED BY <5>1, <5>2
      <4>3. ASSUME x \in file[path].edits PROVE x \in file'[path].edits
        <5>1. CASE path = fd[r]
          BY <2>6, <2>7, <2>8, <4>3, <5>1 DEF LockInv
        <5>2. CASE path # fd[r]
          BY <2>7, <2>8, <4>3, <5>2
        <5> QED BY <5>1, <5>2
      <4> QED BY <2>4, <4>1, <4>2, <4>3, LostStays DEF EditInv
    <3> QED BY <3>1, <3>2
  <2> QED BY <2>9, <2>10, <2>11, <2>12, <2>13, <2>14
<1> QED BY <1>1, <1>2 DEF Writes

\* A Conf handler puts its file at the path: an edit that is not in it came after the load, or
\* was in the hands of one that crossed it.
LEMMA ReplacesConfKeeps ==
    ASSUME ControlOK, ControlOK', FileInv, NEW r \in Rpcs, ReplacesConf(r)
    PROVE  FileInv'
<1>1. CASE Return(r, "failed") /\ UNCHANGED <<changed, path, file, missed>>
  <2>1. GivesUp(r)
    BY <1>1, AtCur DEF ReplacesConf, GivesUp, rpcVars, saidVars, fileVars
  <2> QED BY <2>1, GivesUpKeeps
<1>2. CASE /\ at' = [at EXCEPT ![r] = @ + 1]
           /\ changed' = [changed EXCEPT ![r] = @ + 1]
           /\ path' = r
           /\ file' = [file EXCEPT ![r] = [Nothing EXCEPT !.edits = buf[r] \cup {r}]]
           /\ missed' = Misses(r)
           /\ UNCHANGED <<res, lock>>
  <2>1. /\ UNCHANGED <<fd, buf, lock>> /\ Proceeds(r)
        /\ \/ h[r] = "ConfWrite" /\ at[r] = 6
           \/ h[r] = "ConfDelete" /\ at[r] = 7
    <3>1. h[r] \in DOMAIN Scripts /\ StepAt(h[r], at[r], "replace") /\ res[r] = "run"
      BY AtPlace DEF ReplacesConf
    <3> QED BY <1>2, <3>1, EditPlaces, ProceedsHere DEF ReplacesConf, rpcVars
  <2> USE DEF FileInv
  <2>2. /\ h[r] \in Edits /\ h[r] \in ConfEdits /\ h[r] \notin DataSets /\ h[r] \notin Replacers
        /\ h[r] \in Renamers
    BY <2>1 DEF Edits, DataSets, ConfEdits, Replacers, Renamers
  <2>3. /\ changed'[r] > 0 /\ changed'[r] >= changed[r]
        /\ \A o \in Rpcs : o # r => changed'[o] = changed[o]
        /\ \A o \in Rpcs : missed[o] \subseteq missed'[o]
        /\ missed \in [Rpcs -> SUBSET Rpcs] /\ missed' \in [Rpcs -> SUBSET Rpcs]
    BY <1>2, <2>1, SavesCounts
  <2>4. Frame(r)
    BY <2>1, <2>3 DEF Frame, Proceeds
  <2>5. /\ \A w \in {"open", "loadConf", "write", "lock", "readIn", "truncate"} :
              Before(r, w)' <=> Before(r, w)
        /\ Before(r, "loadConf") /\ ~Before(r, "write") /\ ~Before(r, "replace")
        /\ Before(r, "replace")' /\ ~Before(r, "lock") /\ ~Before(r, "readIn")
    BY <2>1, <2>2 DEF Placed, Proceeds, DataSets, ConfEdits
  <2>6. /\ fd[r] # NoFile /\ changed[r] = 0 /\ ~Done(r) /\ r \in Inodes /\ r # NoFile
        /\ \A o \in Rpcs : fd[o] # r
    <3>1. fd[r] # NoFile /\ changed[r] = 0
      BY <2>1, <2>2, <2>5 DEF HandInv, Proceeds
    <3> QED BY <2>1, <3>1, RpcsInodes DEF HandInv, Proceeds, Done
  <2>7. /\ file'[r].edits = buf[r] \cup {r}
        /\ \A i \in Inodes : i # r => file'[i] = file[i]
    <3>1. [Nothing EXCEPT !.edits = buf[r] \cup {r}].edits = buf[r] \cup {r}
      BY DEF Nothing
    <3> QED BY <1>2, <2>6, <3>1 DEF FilesOK
  <2>8. FilesOK'
    <3>1. [Nothing EXCEPT !.edits = buf[r] \cup {r}]
             \in [edits : SUBSET Rpcs, torn : BOOLEAN, tail : BOOLEAN]
      BY DEF FilesOK, Nothing
    <3>2. file' \in [Inodes -> [edits : SUBSET Rpcs, torn : BOOLEAN, tail : BOOLEAN]]
      BY <1>2, <2>6, <3>1 DEF FilesOK
    <3> QED BY <1>2, <2>1, <2>3, <2>6, <3>2 DEF FilesOK, Proceeds
  <2>9. HandInv'
    BY <1>2, <2>1, <2>2, <2>3, <2>5, <2>6 DEF HandInv, Proceeds
  <2>10. LockInv'
    <3> SUFFICES ASSUME NEW x \in Rpcs, ~Done(x)
                 PROVE  /\ Before(x, "lock")' => lock[fd[x]] = x
                        /\ Before(x, "readIn")' /\ changed'[x] = 0 =>
                              file'[fd[x]].edits = IF Before(x, "truncate")' THEN {} ELSE buf[x]
      BY <2>1 DEF LockInv, Done, Proceeds
    <3>1. CASE x = r
      BY <2>5, <3>1
    <3>2. CASE x # r
      <4>1. Before(x, "readIn") => fd[x] # NoFile
        BY <2>1 DEF Placed, Proceeds, HandInv
      <4>2. Before(x, "readIn") => file'[fd[x]] = file[fd[x]]
        BY <2>6, <2>7, <4>1 DEF FilesOK
      <4> QED BY <2>1, <2>3, <3>2, <4>2 DEF LockInv, Proceeds
    <3> QED BY <3>1, <3>2
  <2>11. FollowInv'
    BY <1>2, <2>1, <2>2, <2>3, <2>4, FollowMoves
  <2>12. TraceInv'
    BY <1>2, <2>1, <2>3, <2>4, TraceSaves
  <2>13. EditInv'
    <3> SUFFICES ASSUME NEW x \in Rpcs, Saved(x)', x # r
                 PROVE  x \in file'[r].edits \/ Lost(x)'
      BY <1>2, <2>1, <2>7 DEF EditInv, Proceeds
    <3>1. Saved(x) /\ Editing(r)
      BY <2>1, <2>3, <2>6 DEF Saved, Editing, Proceeds
    <3>2. \/ x \in buf[r] \/ x \in missed[r] \/ Lost(x)
          \/ \E o \in Rpcs \ {x} : Holds(o, r, x)
      BY <2>2, <2>6, <3>1 DEF TraceInv
    <3>3. ASSUME x \in missed[r] PROVE Lost(x)'
      <4>1. SavedWithout(r, x)'
        BY <2>2, <2>3, <2>4, <3>3 DEF SavedWithout, Frame
      <4> QED BY <2>4, <4>1 DEF Lost, Frame
    <3>4. ASSUME NEW o \in Rpcs \ {x}, Holds(o, r, x) PROVE Lost(x)'
      <4>1. o # r /\ h[o] = "DataSetYml" /\ at[o] > 6
        BY <2>1, <2>2, <3>4 DEF Holds, Placed, Proceeds, DataSets
      <4>2. fd[o] # NoFile /\ Before(o, "truncate")' /\ buf'[o] = buf[o]
        BY <2>1, <3>4, <4>1 DEF Holds, Placed, Proceeds, HandInv, DataSets
      <4>3. o \in missed'[r] \/ r \in missed'[o]
        <5>1. CASE o \in missed[r]
          BY <2>3, <5>1
        <5>2. CASE Editing(o)
          BY <1>2, <4>1, <4>2, <5>2 DEF Misses, Editing, Done
        <5> QED BY <3>4, <5>1, <5>2 DEF Holds
      <4>4. Crossed(r, o, x)'
        BY <2>2, <2>3, <2>4, <3>4, <4>2, <4>3 DEF Crossed, Holds, Frame
      <4> QED BY <2>4, <4>4 DEF Lost, Frame
    <3> QED BY <2>4, <2>7, <3>2, <3>3, <3>4, LostStays
  <2> QED BY <2>8, <2>9, <2>10, <2>11, <2>12, <2>13
<1> QED BY <1>1, <1>2 DEF ReplacesConf

\* Write or Copy puts its file at the path: it has missed whatever was saved before.
LEMMA CommitsKeeps ==
    ASSUME ControlOK, ControlOK', FileInv, NEW r \in Rpcs, Commits(r), h[r] \in Replacers
    PROVE  FileInv'
<1>1. /\ UNCHANGED <<file, fd, buf, lock, res>> /\ path' = r /\ missed' = Misses(r)
      /\ changed' = [changed EXCEPT ![r] = @ + 1] /\ Proceeds(r) /\ at[r] = 12
  <2>1. h[r] \in DOMAIN Scripts /\ StepAt(h[r], at[r], "commit") /\ res[r] = "run"
    BY AtPlace DEF Commits
  <2> QED BY <2>1, ReplacerPlaces, ProceedsHere DEF Commits, rpcVars
<1> USE DEF FileInv
<1>2. h[r] \notin Edits /\ h[r] \notin ConfEdits /\ h[r] \notin DataSets /\ h[r] \in Renamers
  BY DEF Edits, DataSets, ConfEdits, Replacers, Renamers
<1>3. /\ changed'[r] > 0 /\ changed'[r] >= changed[r]
      /\ \A o \in Rpcs : o # r => changed'[o] = changed[o]
      /\ \A o \in Rpcs : missed[o] \subseteq missed'[o]
      /\ missed \in [Rpcs -> SUBSET Rpcs] /\ missed' \in [Rpcs -> SUBSET Rpcs]
  BY <1>1, SavesCounts
<1>4. Frame(r)
  BY <1>1, <1>3 DEF Frame, Proceeds
<1>5. /\ \A w \in {"open", "loadConf", "lock", "readIn", "truncate"} :
            ~Before(r, w)' /\ ~Before(r, w)
      /\ ~Before(r, "commit") /\ Before(r, "commit")'
  <2>1. Placed(r) /\ Placed(r)' /\ at[r] = 12 /\ at'[r] = 13 /\ h'[r] = h[r]
    BY <1>1 DEF Proceeds
  <2>2. h[r] # "DataSetYml"
    BY DEF Replacers
  <2> QED BY <1>2, <2>1, <2>2 DEF Placed
<1>6. changed[r] = 0 /\ r \in Inodes /\ r # NoFile /\ ~Done(r) /\ \A o \in Rpcs : fd[o] # r
  <2>1. changed[r] = 0
    BY <1>1, <1>5 DEF HandInv, Proceeds
  <2> QED BY <1>1, <2>1, RpcsInodes DEF HandInv, Proceeds, Done
<1>7. FilesOK'
  BY <1>1, <1>3, <1>6 DEF FilesOK, Proceeds
<1>8. HandInv'
  BY <1>1, <1>2, <1>3, <1>5, <1>6 DEF HandInv, Proceeds
<1>9. LockInv'
  <2> SUFFICES ASSUME NEW x \in Rpcs, ~Done(x)
               PROVE  /\ Before(x, "lock")' => lock[fd[x]] = x
                      /\ Before(x, "readIn")' /\ changed'[x] = 0 =>
                            file[fd[x]].edits = IF Before(x, "truncate")' THEN {} ELSE buf[x]
    BY <1>1 DEF LockInv, Done, Proceeds
  <2> QED BY <1>1, <1>3, <1>5 DEF LockInv, Proceeds
<1>10. FollowInv'
  BY <1>1, <1>2, <1>3, <1>4, FollowMoves
<1>11. TraceInv'
  BY <1>1, <1>3, <1>4, TraceSaves
<1>12. EditInv'
  <2> SUFFICES ASSUME NEW x \in Rpcs, Saved(x)' PROVE Lost(x)'
    BY <1>1 DEF EditInv, Proceeds
  <2>1. x # r /\ Saved(x) /\ Editing(r)
    BY <1>1, <1>2, <1>3, <1>6 DEF Saved, Editing, Proceeds
  <2>2. x \in missed[r]
    BY <2>1 DEF TraceInv
  <2>3. SavedWithout(r, x)'
    BY <1>2, <1>3, <1>4, <2>2 DEF SavedWithout, Frame
  <2> QED BY <1>4, <2>1, <2>3 DEF Lost, Frame
<1> QED BY <1>7, <1>8, <1>9, <1>10, <1>11, <1>12

\* Goroutines and certificates have nothing to do with the file.
LEMMA RestsKeeps ==
    ASSUME FileInv, Rests
    PROVE  FileInv'
<1>1. /\ UNCHANGED <<h, at, res, changed, path, file, fd, buf, missed, lock>>
      /\ Rpcs' = Rpcs /\ Inodes' = Inodes
  BY DEF Rests, fileVars, Rpcs, Inodes
<1>2. \A o, what : Before(o, what)' <=> Before(o, what)
  BY <1>1 DEF Before, Script
<1>3. /\ \A o : (Done(o)' <=> Done(o)) /\ (Editing(o)' <=> Editing(o)) /\ (Saved(o)' <=> Saved(o))
      /\ \A o, x : /\ SavedWithout(o, x)' <=> SavedWithout(o, x)
                   /\ ReplacedUnder(o, x)' <=> ReplacedUnder(o, x)
  BY <1>1 DEF Done, Editing, Saved, SavedWithout, ReplacedUnder
<1>4. \A o, x : Emptied(o, x)' <=> Emptied(o, x)
  BY <1>1, <1>2, <1>3 DEF Emptied
<1>5. \A c, o, x : (Crossed(c, o, x)' <=> Crossed(c, o, x)) /\ (Holds(o, c, x)' <=> Holds(o, c, x))
  BY <1>1, <1>2, <1>3 DEF Crossed, Holds
<1>6. \A x : Lost(x)' <=> Lost(x)
  BY <1>1, <1>3, <1>4, <1>5 DEF Lost
<1>7. FilesOK' /\ HandInv' /\ LockInv'
  BY <1>1, <1>2, <1>3 DEF FileInv, FilesOK, HandInv, LockInv
<1>8. FollowInv' /\ TraceInv' /\ EditInv'
  BY <1>1, <1>3, <1>4, <1>5, <1>6 DEF FileInv, FollowInv, TraceInv, EditInv
<1> QED BY <1>7, <1>8 DEF FileInv

\* At the start nobody has saved or read anything.
LEMMA InitFile == TsInit => FileInv
<1> SUFFICES ASSUME TsInit PROVE FileInv
  OBVIOUS
<1>1. /\ path \in {0, NoFile} /\ at = [r \in Rpcs |-> 1] /\ changed = [r \in Rpcs |-> 0]
      /\ file = [i \in Inodes |-> Nothing] /\ fd = [r \in Rpcs |-> NoFile]
      /\ buf = [r \in Rpcs |-> {}] /\ lock = [i \in Inodes |-> Nobody]
      /\ missed = [r \in Rpcs |-> {}]
  BY DEF TsInit, HdInit, Rpcs, Inodes
<1>2. ControlOK
  BY InitInv DEF IInv
<1>3. \A r \in Rpcs : Placed(r) /\ at[r] = 1 /\ changed[r] = 0 /\ fd[r] = NoFile /\ buf[r] = {}
  BY <1>1, <1>2, AllPlaced
<1>4. \A r \in Rpcs : \A w \in {"open", "lock", "readIn", "loadConf", "write", "replace"} :
         ~Before(r, w)
  BY <1>3 DEF Placed
<1>5. FilesOK
  <2>1. 0 \in Inodes
    BY <1>2, RpcsInodes DEF Inodes
  <2>2. Nothing \in [edits : SUBSET Rpcs, torn : BOOLEAN, tail : BOOLEAN]
    BY DEF Nothing
  <2> QED BY <1>1, <2>1, <2>2 DEF FilesOK
<1>6. HandInv
  <2>1. \A r \in Rpcs : r # 0 /\ r # NoFile
    BY <1>2, RpcsInodes DEF Nobody
  <2> QED BY <1>1, <1>3, <1>4, <2>1 DEF HandInv
<1>7. LockInv /\ FollowInv /\ TraceInv /\ EditInv
  BY <1>3, <1>4 DEF LockInv, FollowInv, TraceInv, EditInv, Saved
<1> QED BY <1>5, <1>6, <1>7 DEF FileInv

\* Where the edits of the shared file are: in it, in the hands of a handler, or lost in one of
\* the named ways, whatever the handlers and their order.
THEOREM FileInvariance == TsSpec => []FileInv
<1>1. IInv /\ IInv' /\ FileInv /\ [TsNext]_tsVars => FileInv'
  <2> SUFFICES ASSUME IInv, IInv', FileInv, [TsNext]_tsVars PROVE FileInv'
    OBVIOUS
  <2>1. ControlOK /\ ControlOK'
    BY DEF IInv
  <2>2. CASE UNCHANGED tsVars
    <3>1. Rests
      BY <2>2 DEF Rests, tsVars, hdVars, rpcVars, ctlVars, saidVars
    <3> QED BY <3>1, RestsKeeps
  <2>3. ASSUME NEW r \in Rpcs, Handle(r) PROVE FileInv'
    <3>1. CASE KeyStep(r)
      BY <2>1, <3>1, CommitsKeeps, LoadsConfKeeps, ReplacesConfKeeps, OpensKeeps, LocksKeeps,
         ReadsInKeeps, TruncatesKeeps, WritesKeeps DEF KeyStep
    <3> QED BY <2>1, <2>3, <3>1, HandleKeys, IdlesKeeps, GivesUpKeeps, RestsKeeps
  <2>4. ASSUME NEW r \in Rpcs, Threads(r) PROVE FileInv'
    <3>1. UNCHANGED hdVars
      BY <2>4 DEF Threads, Lists, ListingEnds, ErrsReads, ErrsSends, Takes, ReadsFile, SendsFile
    <3>2. Rests
      BY <3>1 DEF Rests, hdVars, rpcVars, ctlVars, saidVars
    <3> QED BY <3>2, RestsKeeps
  <2>5. CASE Rotates
    <3>1. Rests
      BY <2>5 DEF Rests, Rotates, hdVars, rpcVars, ctlVars, saidVars
    <3> QED BY <3>1, RestsKeeps
  <2> QED BY <2>2, <2>3, <2>4, <2>5 DEF TsNext
<1> QED BY <1>1, InitFile, Invariance, PTL DEF TsSpec

\* An edit that was answered without an error is one its handler has saved.
LEMMA OkSaved ==
    ASSUME IInv, HandInv, NEW r \in Rpcs, res[r] = "ok", h[r] \in Edits
    PROVE  Saved(r) /\ (Before(r, "write") \/ Before(r, "replace"))
<1>1. /\ ControlOK /\ at[r] > Len(Script(r)) /\ DOMAIN Script(r) = 1..Len(Script(r))
      /\ Len(Script(r)) \in Nat /\ h[r] \in DOMAIN Scripts /\ at[r] \in Nat
  <2>1. ControlOK /\ at[r] > Len(Script(r))
    BY DEF IInv, ReturnInv
  <2>2. h[r] \in DOMAIN Scripts /\ at[r] \in Nat
    BY <2>1 DEF ControlOK, Rpcs
  <2> QED BY <2>1, <2>2, ScriptLayout
<1>2. PICK k : StepAt(h[r], k, "write") \/ StepAt(h[r], k, "replace")
  <2>1. h[r] \in {"DataSetYml", "DataSetDotenv", "ConfWrite", "ConfDelete"}
    BY DEF Edits, DataSets, ConfEdits
  <2> QED BY <1>1, <2>1, EditPlaces
<1>3. k \in DOMAIN Script(r) /\ k < at[r]
  BY <1>1, <1>2 DEF StepAt, Script
<1>4. Before(r, "write") \/ Before(r, "replace")
  BY <1>2, <1>3 DEF StepAt, Script, Before
<1> QED BY <1>4 DEF HandInv, Saved

\* An edit of the shared file that was answered without an error is in the file, unless it was
\* lost in one of the ways KeysKept names: for any number of DataSet, Conf, Write and Copy
\* handlers, in any order.
THEOREM EditsKept == TsSpec => []KeysKept
<1>1. IInv /\ FileInv => KeysKept
  <2> SUFFICES ASSUME IInv, FileInv, NEW r \in Rpcs, res[r] = "ok", h[r] \in Edits
               PROVE  \/ r \in file[path].edits
                      \/ \E o \in Rpcs \ {r} : \/ SavedWithout(o, r) \/ ReplacedUnder(o, r)
                                               \/ Emptied(o, r)
                                               \/ \E c \in Rpcs : Crossed(c, o, r)
    BY DEF KeysKept
  <2>1. Saved(r)
    BY OkSaved DEF FileInv
  <2> QED BY <2>1 DEF FileInv, EditInv, Lost
<1> QED BY <1>1, Invariance, FileInvariance, PTL

\* Where nobody replaces the file and every rewrite of it was answered without an error, it
\* has all the edits that were.
DataSetsKept ==
    (\A o \in Rpcs : h[o] \notin Renamers /\ (h[o] = "DataSetYml" => res[o] = "ok")) =>
        \A r \in Rpcs : res[r] = "ok" /\ h[r] \in Edits => r \in file[path].edits

\* The lock of DataSet is enough among DataSets: an edit is lost only to a handler that takes
\* no lock, or to a rewrite that failed when it had emptied the file.
THEOREM LockedEditsKept == TsSpec => []DataSetsKept
<1>1. IInv /\ FileInv /\ KeysKept => DataSetsKept
  <2> SUFFICES ASSUME IInv, FileInv, KeysKept, NEW r \in Rpcs, res[r] = "ok", h[r] \in Edits,
                      \A o \in Rpcs : h[o] \notin Renamers /\ (h[o] = "DataSetYml" => res[o] = "ok")
               PROVE  r \in file[path].edits
    BY DEF DataSetsKept
  <2>1. r \in file[path].edits \/ \E o \in Rpcs \ {r} : Emptied(o, r)
    BY DEF KeysKept, SavedWithout, ReplacedUnder, Crossed, Renamers
  <2>2. ASSUME NEW o \in Rpcs \ {r}, Emptied(o, r) PROVE FALSE
    <3>1. h[o] = "DataSetYml" /\ changed[o] = 0
      BY <2>2, EmptiedEdits DEF IInv, FileInv
    <3>2. Saved(o)
      BY <3>1, OkSaved DEF FileInv, Edits, DataSets
    <3> QED BY <3>1, <3>2 DEF Saved
  <2> QED BY <2>1, <2>2
<1> QED BY <1>1, Invariance, FileInvariance, EditsKept, PTL
=============================================================================
