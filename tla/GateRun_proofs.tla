--------------------------- MODULE GateRun_proofs ---------------------------
(***************************************************************************)
(* Proofs about GateRun for any gates, dependencies and levels.  A run     *)
(* whose gates pass proved every gate of its scope on the design on disk,  *)
(* a certificate stands for proved gates only and binds reports about its  *)
(* own design unless one was overwritten while it was issued, gates that   *)
(* do not pass have a failing tool, and no tool starts before what is      *)
(* below its gate is proved.                                               *)
(***************************************************************************)
EXTENDS GateRun, TLAPS

\* The sets a run works with: what is certified is proved and rests on certified
\* gates, and with what is selected it makes up the scope.
PlanInv ==
    /\ \A g \in run.certified : Proved(g, design)
    /\ \A g \in run.certified \ {Identity} : Deps[g] \subseteq run.certified
    /\ run.certified \subseteq ScopeGates[run.scope] \cup {Identity}
    /\ run.selected \cap run.certified = {}
    /\ run.selected \subseteq ScopeGates[run.scope]
    /\ ScopeGates[run.scope] \subseteq run.selected \cup run.certified

\* Results and statuses: a pass ran on this design, a gate that was taken has its
\* result and comes after the gates before it, a gate that passes rests on passes.
ResultInv ==
    /\ \A t \in Gate : run.result[t] = "pass" => <<t, design>> \in passed
    /\ \A g \in Gate : run.status[g] # "none" =>
           /\ g \in run.selected
           /\ run.result[g] # "none"
           /\ \A h \in run.selected : Rank[h] < Rank[g] => run.status[h] # "none"
    /\ \A g \in Gate : run.status[g] = "pass" =>
           /\ run.result[g] = "pass"
           /\ DepsPass(g)

\* What is not run waits for something that failed.
CauseInv ==
    \/ \E g \in Gate : run.status[g] \in {"blocked", "fail"}
    \/ \E t \in Gate : run.result[t] = "not_run"
    => \E t \in Gate : run.result[t] = "fail"

RunInv ==
    /\ run.scope = None => run.selected = {}
    /\ run.scope # None => PlanInv /\ ResultInv /\ CauseInv

\* Certificates are bound after the gates passed, and a copy is of the report on disk
\* unless that was written since.
BindingInv ==
    /\ run.binding # "none" => Finished /\ GatesPass
    /\ run.binding = "copied" => \A r \in run.copies :
           /\ \E l \in Issued : r[1] \in Reporting(l)
           /\ report[r[1]] = r[2] \/ <<r[1], design>> \in overtook

\* What outlives a run.
EvidenceInv ==
    /\ \A t \in Gate : log[t].on # None => <<t, log[t].on>> \in passed
    /\ board => \E e \in Design : <<Identity, e>> \in passed
    /\ CertificateIsProved
    /\ CertificateBindsItsReports

IInv == TypeOK /\ EvidenceInv /\ RunInv /\ BindingInv

-----------------------------------------------------------------------------
\* A closure is the least set that has the roots and is closed: it is below any other.
LEMMA ClosureLeast ==
    ASSUME NEW roots \in SUBSET Gate, NEW cut \in SUBSET Gate,
           NEW gates \in SUBSET Gate, roots \subseteq gates, Closed(gates, cut)
    PROVE  Closure(roots, cut) \subseteq gates
  BY DEF Closure

\* It has the roots and is closed itself.
LEMMA ClosureClosed ==
    ASSUME NEW roots \in SUBSET Gate, NEW cut \in SUBSET Gate
    PROVE  /\ Closure(roots, cut) \in SUBSET Gate
           /\ roots \subseteq Closure(roots, cut)
           /\ Closed(Closure(roots, cut), cut)
  <1>1. Closure(roots, cut) \in SUBSET Gate /\ roots \subseteq Closure(roots, cut)
    BY DEF Closure
  <1>2. ASSUME NEW g \in Closure(roots, cut) \ cut, NEW d \in Deps[g]
        PROVE  d \in Closure(roots, cut)
    <2>1. d \in Gate
      BY <1>1, <1>2, GateRunAssumption
    <2>2. ASSUME NEW gates \in SUBSET Gate, roots \subseteq gates, Closed(gates, cut)
          PROVE  d \in gates
      <3>1. g \in gates
        BY <1>2, <2>2, ClosureLeast
      <3> QED
        BY <1>2, <2>2, <3>1 DEF Closed
    <2> QED
      BY <2>1, <2>2 DEF Closure
  <1> QED
    BY <1>1, <1>2 DEF Closed

\* The scope of a level is closed, and so what a certificate stands for is in it.
LEMMA ScopeClosed ==
    ASSUME NEW l \in Level
    PROVE  /\ ScopeGates[l] \in SUBSET Gate
           /\ \A cut \in SUBSET Gate : Closed(ScopeGates[l], cut)
           /\ Required[l] \in SUBSET Gate
           /\ Below[l] \in SUBSET Gate
           /\ Below[l] \subseteq ScopeGates[l]
           /\ Required[l] \subseteq Below[l]
           /\ \A g \in Below[l] : Deps[g] \subseteq Below[l]
  <1>1. ScopeGates[l] \in SUBSET Gate /\ Required[l] \in SUBSET Gate /\ Stop[l] \in Gate
    BY GateRunAssumption DEF ScopeGates
  <1>2. ASSUME NEW g \in ScopeGates[l], NEW d \in Deps[g]
        PROVE  d \in ScopeGates[l]
    <2>1. g \in Gate /\ d \in Gate /\ Rank[d] < Rank[g] /\ Rank[g] <= Rank[Stop[l]]
      BY <1>1, <1>2, GateRunAssumption DEF ScopeGates
    <2>2. Rank[g] \in Nat /\ Rank[d] \in Nat /\ Rank[Stop[l]] \in Nat
      BY <1>1, <2>1, GateRunAssumption
    <2> QED
      BY <2>1, <2>2 DEF ScopeGates
  <1>3. \A cut \in SUBSET Gate : Closed(ScopeGates[l], cut)
    BY <1>2 DEF Closed
  <1>4. Required[l] \subseteq ScopeGates[l]
    BY <1>1, GateRunAssumption DEF ScopeGates
  <1>5. Below[l] = Closure(Required[l], {})
    BY DEF Below
  <1>6. Below[l] \subseteq ScopeGates[l]
    BY <1>1, <1>3, <1>4, <1>5, ClosureLeast
  <1>7. Below[l] \in SUBSET Gate /\ Required[l] \subseteq Below[l] /\ Closed(Below[l], {})
    BY <1>1, <1>5, ClosureClosed
  <1> QED
    BY <1>1, <1>3, <1>6, <1>7 DEF Closed

\* The scopes grow with the levels.
LEMMA ScopesNest ==
    ASSUME NEW k \in Level, NEW l \in Level, Rank[Stop[k]] <= Rank[Stop[l]]
    PROVE  ScopeGates[k] \subseteq ScopeGates[l]
  <1>1. Stop[k] \in Gate /\ Stop[l] \in Gate /\ Rank \in [Gate -> Nat]
    BY GateRunAssumption
  <1> QED
    BY <1>1 DEF ScopeGates

-----------------------------------------------------------------------------
\* Everything of a finished run that did not fail passed.
LEMMA ScopeProved ==
    ASSUME TypeOK, RunInv, Finished, GatesPass
    PROVE  \A g \in ScopeGates[run.scope] : Proved(g, design)
  <1>1. run.scope \in Level /\ PlanInv /\ ResultInv /\ CauseInv
    BY DEF RunInv, Finished, TypeOK
  <1>2. ASSUME NEW g \in ScopeGates[run.scope]
        PROVE  Proved(g, design)
    <2>1. g \in Gate
      BY <1>1, ScopeClosed
    <2>2. CASE g \in run.certified
      BY <1>1, <2>2 DEF PlanInv
    <2>3. CASE g \in run.selected
      <3>1. run.status[g] \in {"pass", "fail", "blocked"}
        BY <2>1, <2>3 DEF Finished, TypeOK
      <3>2. run.status[g] = "pass"
        BY <1>1, <2>1, <3>1 DEF CauseInv, GatesPass
      <3> QED
        BY <1>1, <2>1, <3>2 DEF ResultInv, Proved
    <2> QED
      BY <1>1, <1>2, <2>2, <2>3 DEF PlanInv
  <1> QED
    BY <1>2

\* A certificate is issued for gates of the scope only.
LEMMA IssuedInScope ==
    ASSUME TypeOK, RunInv, Finished, NEW l \in Issued
    PROVE  l \in Level /\ Below[l] \subseteq ScopeGates[run.scope]
  <1>1. l \in Level /\ run.scope \in Level /\ PlanInv
    BY DEF Issued, RunInv, Finished, TypeOK
  <1>2. Stop[l] \in run.certified \cup run.selected
    BY <1>1, GateRunAssumption DEF Issued, GatePasses
  <1>3. Stop[l] \in ScopeGates[run.scope]
    BY <1>1, <1>2, GateRunAssumption DEF PlanInv
  <1>4. Rank[Stop[l]] <= Rank[Stop[run.scope]]
    BY <1>1, <1>3 DEF ScopeGates
  <1> QED
    BY <1>1, <1>4, ScopesNest, ScopeClosed

\* A step that issues nothing keeps the evidence.
LEMMA EvidenceStep ==
    ASSUME EvidenceInv, UNCHANGED <<cert, foreign>>, overtook \subseteq overtook',
           passed \subseteq passed', excused \subseteq excused',
           \A t \in Gate : log'[t].on # None => <<t, log'[t].on>> \in passed',
           board' => \E e \in Design : <<Identity, e>> \in passed'
    PROVE  EvidenceInv'
  <1>1. CertificateIsProved'
    BY DEF EvidenceInv, CertificateIsProved, Proved
  <1>2. CertificateBindsItsReports'
    BY DEF EvidenceInv, CertificateBindsItsReports
  <1> QED
    BY <1>1, <1>2 DEF EvidenceInv

\* The plan does not change while the run is at work.
LEMMA PlanStep ==
    ASSUME PlanInv, design' = design, passed \subseteq passed', excused \subseteq excused',
           run'.scope = run.scope, run'.certified = run.certified,
           run'.selected = run.selected
    PROVE  PlanInv'
  BY DEF PlanInv, Proved

LEMMA InitIInv == Init => IInv
  <1> SUFFICES ASSUME Init PROVE IInv
    OBVIOUS
  <1>1. run = NoRun
    BY DEF Init
  <1>2. NoRun \in [scope : Level \cup {None}, certified : SUBSET Gate, selected : SUBSET Gate,
                  reuse : BOOLEAN, binding : {"none", "compared", "copied"},
                  copies : SUBSET (Gate \X (Design \cup {None})),
                  result : [Gate -> {"none", "pass", "fail", "not_run"}],
                  status : [Gate -> {"none", "pass", "fail", "blocked"}]]
    BY DEF NoRun
  <1>3. design \in Design /\ kills \in 0 .. MaxKills
    BY GateRunAssumption DEF Init, Design
  <1>4. TypeOK
    BY <1>1, <1>2, <1>3 DEF Init, TypeOK, NoLog
  <1>5. EvidenceInv
    BY DEF Init, EvidenceInv, NoLog, CertificateIsProved, CertificateBindsItsReports
  <1>6. RunInv /\ BindingInv
    BY DEF Init, RunInv, BindingInv, NoRun
  <1> QED
    BY <1>4, <1>5, <1>6 DEF IInv

-----------------------------------------------------------------------------
\* What a tool writes is a report about the design it ran on.
LEMMA WritesType ==
    ASSUME TypeOK, NEW t \in Gate, NEW d \in Design, NEW output, Writes(t, d, output)
    PROVE  report' \in [Gate -> Design \cup {None}] /\ board' \in BOOLEAN
  BY DEF TypeOK, Writes

LEMMA TypeStep == TypeOK /\ [Next]_vars => TypeOK'
  <1> SUFFICES ASSUME TypeOK, [Next]_vars PROVE TypeOK'
    OBVIOUS
  <1> USE GateRunAssumption
  <1>1. ASSUME NEW l \in Level, NEW reuse \in BOOLEAN, NEW entry \in 0 .. l - 1,
               Start(l, entry, reuse)
        PROVE  TypeOK'
    <2> DEFINE certified == Covered(l, entry) \cup (IF board THEN {Identity} ELSE {})
               selected  == Closure(ScopeGates[l] \ certified, certified) \ certified
               stale     == {k \in 1 .. entry : cert[k] \notin {None, design}}
    <2>1. certified \in SUBSET Gate
      BY ScopeClosed DEF Covered
    <2>2. selected \in SUBSET Gate
      BY DEF Closure
    <2>3. stale \subseteq Level
      BY DEF Level
    <2>4. (UNION {Below[k] : k \in stale}) \X {design} \subseteq Gate \X Design
      BY <2>3, ScopeClosed DEF TypeOK
    <2>5. run' = [NoRun EXCEPT !.scope = l, !.certified = certified,
                               !.selected = selected, !.reuse = reuse]
      BY <1>1 DEF Start
    <2>6. excused' = excused \cup (UNION {Below[k] : k \in stale}) \X {design}
      BY <1>1 DEF Start
    <2>7. UNCHANGED <<design, report, log, board, left, kills, cert, passed, foreign, overtook>>
      BY <1>1 DEF Start
    <2> HIDE DEF certified, selected, stale
    <2>8. run' \in [scope : Level \cup {None}, certified : SUBSET Gate, selected : SUBSET Gate,
                    reuse : BOOLEAN, binding : {"none", "compared", "copied"},
                    copies : SUBSET (Gate \X (Design \cup {None})),
                    result : [Gate -> {"none", "pass", "fail", "not_run"}],
                    status : [Gate -> {"none", "pass", "fail", "blocked"}]]
      BY <2>1, <2>2, <2>5 DEF NoRun
    <2>9. excused' \subseteq Gate \X Design
      BY <2>4, <2>6 DEF TypeOK
    <2> QED
      BY <2>7, <2>8, <2>9 DEF TypeOK
  <1>2. ASSUME NEW g \in run.selected, Skip(g) PROVE TypeOK'
    BY <1>2 DEF TypeOK, Skip, NoLog
  <1>3. ASSUME NEW g \in run.selected, EndGate(g) PROVE TypeOK'
    BY <1>3 DEF TypeOK, EndGate
  <1>4. ASSUME NEW g \in run.selected, NEW t \in ToolsOf(g), Reuse(g, t) PROVE TypeOK'
    BY <1>4 DEF TypeOK, Reuse
  <1>5. ASSUME NEW g \in run.selected, NEW t \in ToolsOf(g), NEW output \in Output(t),
               ToolPasses(g, t, output)
        PROVE  TypeOK'
    <2>1. t \in Gate /\ design \in Design
      BY <1>5 DEF ToolsOf, TypeOK
    <2>2. report' \in [Gate -> Design \cup {None}] /\ board' \in BOOLEAN
      BY <1>5, <2>1, WritesType DEF ToolPasses
    <2>3. passed' \subseteq Gate \X Design
      BY <1>5, <2>1 DEF TypeOK, ToolPasses
    <2>4. log' \in [Gate -> [on : Design \cup {None}, out : Design \cup {None}]]
      BY <1>5, <2>1, <2>2 DEF TypeOK, ToolPasses
    <2>5. /\ run' = [run EXCEPT !.result = [@ EXCEPT ![t] = "pass"]]
          /\ UNCHANGED <<design, left, kills, cert, excused, foreign, overtook>>
      BY <1>5 DEF ToolPasses
    <2> QED
      BY <2>1, <2>2, <2>3, <2>4, <2>5 DEF TypeOK
  <1>6. ASSUME NEW g \in run.selected, NEW t \in ToolsOf(g), NEW output \in Output(t),
               ToolFails(g, t, output)
        PROVE  TypeOK'
    <2>1. t \in Gate /\ design \in Design
      BY <1>6 DEF ToolsOf, TypeOK
    <2>2. report' \in [Gate -> Design \cup {None}] /\ board' \in BOOLEAN
      BY <1>6, <2>1, WritesType DEF ToolFails
    <2>3. passed' \subseteq Gate \X Design
      BY <1>6, <2>1 DEF TypeOK, ToolFails
    <2>4. log' \in [Gate -> [on : Design \cup {None}, out : Design \cup {None}]]
      BY <1>6, <2>1 DEF TypeOK, ToolFails, NoLog
    <2>5. /\ run' = [run EXCEPT !.result = [@ EXCEPT ![t] = "fail"]]
          /\ UNCHANGED <<design, left, kills, cert, excused, foreign, overtook>>
      BY <1>6 DEF ToolFails
    <2> QED
      BY <2>1, <2>2, <2>3, <2>4, <2>5 DEF TypeOK
  <1>7. CASE Compare
    BY <1>7 DEF TypeOK, Compare
  <1>8. CASE Copy
    <2> DEFINE copies == {<<g, report[g]>> : g \in UNION {Reporting(l) : l \in Issued}}
    <2>1. \A l \in Issued : Reporting(l) \subseteq Gate
      BY ScopeClosed DEF Reporting, Issued
    <2>2. copies \subseteq Gate \X (Design \cup {None})
      BY <2>1 DEF TypeOK
    <2>3. run' = [run EXCEPT !.binding = "copied", !.copies = copies]
      BY <1>8 DEF Copy
    <2> HIDE DEF copies
    <2>4. run' \in [scope : Level \cup {None}, certified : SUBSET Gate, selected : SUBSET Gate,
                    reuse : BOOLEAN, binding : {"none", "compared", "copied"},
                    copies : SUBSET (Gate \X (Design \cup {None})),
                    result : [Gate -> {"none", "pass", "fail", "not_run"}],
                    status : [Gate -> {"none", "pass", "fail", "blocked"}]]
      BY <2>2, <2>3 DEF TypeOK
    <2> QED
      BY <1>8, <2>4 DEF TypeOK, Copy
  <1>9. ASSUME NEW approved \in BOOLEAN, Pass(approved) PROVE TypeOK'
    <2>1. cert' \in [Level -> Design \cup {None}]
      BY <1>9 DEF TypeOK, Pass
    <2>2. Misfits \X {design} \subseteq Gate \X Design
      BY DEF TypeOK, Misfits
    <2>3. foreign' \subseteq Gate \X Design
      BY <1>9, <2>2 DEF TypeOK, Pass
    <2> QED
      BY <1>9, <2>1, <2>3 DEF TypeOK, Pass, NoRun
  <1>10. ASSUME Fail PROVE TypeOK'
    BY <1>10 DEF TypeOK, Fail, NoRun
  <1>11. ASSUME NEW keeps \in BOOLEAN, Edit(keeps) PROVE TypeOK'
    BY <1>11 DEF TypeOK, Edit, Design
  <1>12. ASSUME NEW tools \in {{}} \cup {{t} : t \in Gate}, Kill(tools) PROVE TypeOK'
    <2>1. tools \X {design} \subseteq Gate \X Design
      BY DEF TypeOK
    <2> QED
      BY <1>12, <2>1 DEF TypeOK, Kill, NoRun
  <1>13. ASSUME NEW t \in Gate, NEW d \in Design, NEW output \in Output(t) \ {"nothing"},
                LateReport(t, d, output)
         PROVE  TypeOK'
    <2>1. report' \in [Gate -> Design \cup {None}] /\ board' \in BOOLEAN
      BY <1>13, WritesType DEF LateReport
    <2>2. passed' \subseteq Gate \X Design /\ overtook' \subseteq Gate \X Design
      BY <1>13 DEF TypeOK, LateReport
    <2> QED
      BY <1>13, <2>1, <2>2 DEF TypeOK, LateReport
  <1>14. CASE UNCHANGED vars
    BY <1>14 DEF TypeOK, vars
  <1> QED
    BY <1>1, <1>2, <1>3, <1>4, <1>5, <1>6, <1>7, <1>8, <1>9, <1>10, <1>11, <1>12, <1>13,
       <1>14 DEF Next

-----------------------------------------------------------------------------
\* A plan takes over proved gates only and covers its scope.
LEMMA StartStep ==
    ASSUME IInv, NEW l \in Level, NEW reuse \in BOOLEAN, NEW entry \in 0 .. l - 1,
           Start(l, entry, reuse)
    PROVE  EvidenceInv' /\ RunInv'
  <1> DEFINE certified == Covered(l, entry) \cup (IF board THEN {Identity} ELSE {})
             roots     == ScopeGates[l] \ certified
             selected  == Closure(roots, certified) \ certified
             stale     == {k \in 1 .. entry : cert[k] \notin {None, design}}
  <1>1. /\ run'.scope = l /\ run'.certified = certified /\ run'.selected = selected
        /\ run'.result = [g \in Gate |-> "none"] /\ run'.status = [g \in Gate |-> "none"]
    BY DEF Start, NoRun
  <1>2. excused' = excused \cup (UNION {Below[k] : k \in stale}) \X {design}
    BY DEF Start
  <1>3. UNCHANGED <<design, report, log, board, left, kills, cert, passed, foreign, overtook>>
    BY DEF Start
  <1>4. EvidenceInv'
    BY <1>2, <1>3, EvidenceStep DEF IInv, EvidenceInv
  <1>5. ASSUME NEW g \in Covered(l, entry)
        PROVE  \E k \in Level : /\ g \in Below[k]
                                /\ ScopeGates[l] \cap Blocks[k] # {}
                                /\ Usable(k, entry)
    BY <1>5 DEF Covered
  <1>6. \A g \in certified : Proved(g, design)'
    <2>1. ASSUME NEW g \in Covered(l, entry) PROVE Proved(g, design)'
      <3>1. PICK k \in Level : g \in Below[k] /\ Usable(k, entry)
        BY <1>5, <2>1
      <3>2. CASE cert[k] = design
        BY <1>2, <1>3, <3>1, <3>2 DEF IInv, EvidenceInv, CertificateIsProved, Proved, Usable
      <3>3. CASE cert[k] # design
        <4>1. k \in stale
          BY <3>1, <3>3, GateRunAssumption DEF Usable, Live, Level
        <4>2. <<g, design>> \in excused'
          BY <1>2, <3>1, <4>1
        <4> QED
          BY <1>3, <4>2 DEF Proved
      <3> QED
        BY <3>2, <3>3
    <2>2. board => Proved(Identity, design)'
      BY <1>3 DEF IInv, EvidenceInv, Proved
    <2> QED
      BY <2>1, <2>2
  <1>7. \A g \in certified \ {Identity} : Deps[g] \subseteq certified
    <2>1. ASSUME NEW g \in Covered(l, entry) PROVE Deps[g] \subseteq Covered(l, entry)
      <3>1. PICK k \in Level : /\ g \in Below[k] /\ ScopeGates[l] \cap Blocks[k] # {}
                              /\ Usable(k, entry)
        BY <1>5, <2>1
      <3>2. Deps[g] \subseteq Below[k]
        BY <3>1, ScopeClosed
      <3> QED
        BY <3>1, <3>2 DEF Covered
    <2> QED
      BY <2>1
  <1>8. certified \subseteq ScopeGates[l] \cup {Identity}
    <2>1. ASSUME NEW g \in Covered(l, entry) PROVE g \in ScopeGates[l]
      <3>1. PICK k \in Level : g \in Below[k] /\ ScopeGates[l] \cap Blocks[k] # {}
        BY <1>5, <2>1
      <3>2. PICK b \in Gate : Rank[b] <= Rank[Stop[l]] /\ Rank[b] > Rank[Stop[k]]
        BY <3>1 DEF ScopeGates, Blocks
      <3>3. Rank[b] \in Nat /\ Rank[Stop[l]] \in Nat /\ Rank[Stop[k]] \in Nat
        BY GateRunAssumption
      <3>4. Rank[Stop[k]] <= Rank[Stop[l]]
        BY <3>2, <3>3
      <3> QED
        BY <3>1, <3>4, ScopesNest, ScopeClosed
    <2> QED
      BY <2>1
  <1>9. certified \in SUBSET Gate /\ roots \in SUBSET Gate
    BY <1>8, ScopeClosed, GateRunAssumption
  <1>10. selected \subseteq ScopeGates[l]
    BY <1>9, ScopeClosed, ClosureLeast
  <1>11. ScopeGates[l] \subseteq selected \cup certified
    BY <1>9, ClosureClosed
  <1> HIDE DEF certified, roots, selected, stale
  <1>12. selected \cap certified = {}
    BY DEF selected
  <1>13. PlanInv'
    BY <1>1, <1>3, <1>6, <1>7, <1>8, <1>10, <1>11, <1>12 DEF PlanInv
  <1>14. ResultInv' /\ CauseInv'
    BY <1>1 DEF ResultInv, CauseInv
  <1>15. l # None
    BY GateRunAssumption DEF Level, None
  <1> QED
    BY <1>1, <1>4, <1>13, <1>14, <1>15 DEF RunInv

\* A tool that gets its result disturbs nothing the others are about.
LEMMA ToolStep ==
    ASSUME TypeOK, RunInv, NEW g \in run.selected, NEW t \in Gate,
           NEW answer \in {"pass", "fail"}, run.result[t] = "none",
           run' = [run EXCEPT !.result = [@ EXCEPT ![t] = answer]],
           answer = "pass" => <<t, design>> \in passed',
           UNCHANGED <<design, excused>>, passed \subseteq passed'
    PROVE  RunInv'
  <1>1. run.scope # None /\ PlanInv /\ ResultInv /\ CauseInv
    BY DEF RunInv
  <1>2. /\ run'.scope = run.scope /\ run'.certified = run.certified
        /\ run'.selected = run.selected /\ run'.status = run.status
        /\ run'.result = [run.result EXCEPT ![t] = answer]
    BY DEF TypeOK
  <1>3. /\ run'.result[t] = answer
        /\ \A u \in Gate : u # t => run'.result[u] = run.result[u]
    BY <1>2 DEF TypeOK
  <1>4. PlanInv'
    BY <1>1, <1>2, PlanStep
  <1>5. \A h : Satisfied(h)' <=> Satisfied(h)
    BY <1>2 DEF Satisfied
  <1>6. \A h : DepsPass(h)' <=> DepsPass(h)
    BY <1>5 DEF DepsPass
  <1>7. \A u \in Gate : run'.result[u] = "pass" => <<u, design'>> \in passed'
    BY <1>1, <1>3 DEF ResultInv
  <1>8. ResultInv'
    BY <1>1, <1>2, <1>3, <1>6, <1>7 DEF ResultInv
  <1>9. CauseInv'
    BY <1>1, <1>2, <1>3 DEF CauseInv
  <1> QED
    BY <1>1, <1>2, <1>4, <1>8, <1>9 DEF RunInv

\* A gate whose dependency did not pass follows a tool that failed.
LEMMA SkipStep ==
    ASSUME IInv, NEW g \in run.selected, Skip(g)
    PROVE  EvidenceInv' /\ RunInv'
  <1>1. TypeOK /\ run.scope \in Level /\ run.scope # None /\ PlanInv /\ ResultInv /\ CauseInv
    BY DEF IInv, RunInv, TypeOK
  <1> DEFINE skipped == {t \in ToolsOf(g) : run.result[t] = "none"}
  <1>2. /\ run'.scope = run.scope /\ run'.certified = run.certified
        /\ run'.selected = run.selected
        /\ run'.result = [t \in Gate |-> IF t \in skipped THEN "not_run" ELSE run.result[t]]
        /\ run'.status = [run.status EXCEPT ![g] = "blocked"]
    BY <1>1 DEF Skip, TypeOK
  <1>3. /\ UNCHANGED <<design, board, cert, passed, excused, foreign, overtook>>
        /\ log' = [t \in Gate |-> IF t \in skipped THEN NoLog ELSE log[t]]
    BY DEF Skip
  <1>4. EvidenceInv'
    BY <1>3, EvidenceStep DEF IInv, EvidenceInv, NoLog
  <1>5. PlanInv'
    BY <1>1, <1>2, <1>3, PlanStep
  <1>6. g \in Gate /\ Current(g) /\ ~DepsPass(g) /\ run.status[g] = "none"
    BY <1>1 DEF Skip, Current, TypeOK
  <1>7. PICK d \in Deps[g] : ~Satisfied(d)
    BY <1>6 DEF DepsPass
  <1>8. d \in Gate /\ Rank[d] < Rank[g]
    BY <1>6, GateRunAssumption
  <1>9. d \in run.selected
    <2>1. d \in ScopeGates[run.scope]
      BY <1>1, ScopeClosed DEF PlanInv, Closed
    <2> QED
      BY <1>1, <1>7, <2>1 DEF PlanInv, Satisfied
  <1>10. run.status[d] \in {"fail", "blocked"}
    BY <1>1, <1>6, <1>7, <1>8, <1>9 DEF Current, Satisfied, TypeOK
  <1>11. PICK c \in Gate : run.result[c] = "fail"
    BY <1>1, <1>8, <1>10 DEF CauseInv
  <1>12. run'.result[c] = "fail"
    BY <1>2, <1>11
  <1>13. CauseInv'
    BY <1>12 DEF CauseInv
  <1>14. g \in ToolsOf(g)
    BY <1>1 DEF ToolsOf, PlanInv
  <1>15. /\ run'.status[g] = "blocked"
         /\ \A h \in Gate : h # g => run'.status[h] = run.status[h]
    BY <1>1, <1>2, <1>6 DEF TypeOK
  <1>16. /\ \A t \in Gate : run.result[t] # "none" => run'.result[t] = run.result[t]
         /\ \A t \in Gate : run'.result[t] = "pass" => run.result[t] = "pass"
         /\ run'.result[g] # "none"
    BY <1>2, <1>6, <1>14
  <1>17. \A h : Satisfied(h) => Satisfied(h)'
    BY <1>1, <1>2, <1>6 DEF Satisfied, TypeOK
  <1>18. \A h : DepsPass(h) => DepsPass(h)'
    BY <1>17 DEF DepsPass
  <1>19. \A h \in run.selected : Rank[h] < Rank[g] => run.status[h] # "none"
    BY <1>6 DEF Current
  <1>20. run.selected \subseteq Gate
    BY <1>1 DEF TypeOK
  <1>21. \A h \in Gate : run.status[h] # "none" => run'.status[h] # "none"
    BY <1>6, <1>15
  <1>22. ASSUME NEW u \in Gate, run'.status[u] # "none"
         PROVE  /\ u \in run'.selected
                /\ run'.result[u] # "none"
                /\ \A h \in run'.selected : Rank[h] < Rank[u] => run'.status[h] # "none"
    <2>1. CASE u = g
      BY <1>2, <1>16, <1>19, <1>20, <1>21, <2>1
    <2>2. CASE u # g
      <3>1. run.status[u] # "none"
        BY <1>15, <1>22, <2>2
      <3>2. /\ u \in run.selected
            /\ run.result[u] # "none"
            /\ \A h \in run.selected : Rank[h] < Rank[u] => run.status[h] # "none"
        BY <1>1, <3>1 DEF ResultInv
      <3> QED
        BY <1>2, <1>16, <1>20, <1>21, <3>2
    <2> QED
      BY <2>1, <2>2
  <1>23. ASSUME NEW u \in Gate, run'.status[u] = "pass"
         PROVE  run'.result[u] = "pass" /\ DepsPass(u)'
    BY <1>1, <1>15, <1>16, <1>18, <1>23 DEF ResultInv
  <1>24. ResultInv'
    BY <1>1, <1>3, <1>16, <1>22, <1>23 DEF ResultInv
  <1> QED
    BY <1>1, <1>2, <1>4, <1>5, <1>13, <1>24 DEF RunInv

\* A gate that is ended has the results of all its tools.
LEMMA EndGateStep ==
    ASSUME IInv, NEW g \in run.selected, EndGate(g)
    PROVE  EvidenceInv' /\ RunInv'
  <1>1. TypeOK /\ run.scope # None /\ PlanInv /\ ResultInv /\ CauseInv
    BY DEF IInv, RunInv
  <1> DEFINE verdict == IF \A t \in ToolsOf(g) : run.result[t] = "pass" THEN "pass" ELSE "fail"
  <1>2. /\ run'.scope = run.scope /\ run'.certified = run.certified
        /\ run'.selected = run.selected /\ run'.result = run.result
        /\ run'.status = [run.status EXCEPT ![g] = verdict]
    BY <1>1 DEF EndGate, TypeOK
  <1>3. UNCHANGED <<design, report, log, board, left, kills, cert, passed, excused, foreign, overtook>>
    BY DEF EndGate
  <1>4. EvidenceInv'
    BY <1>3, EvidenceStep DEF IInv, EvidenceInv
  <1>5. PlanInv'
    BY <1>1, <1>2, <1>3, PlanStep
  <1>6. /\ g \in Gate /\ DepsPass(g) /\ run.status[g] = "none"
        /\ \A h \in run.selected : Rank[h] < Rank[g] => run.status[h] # "none"
        /\ \A t \in ToolsOf(g) : run.result[t] # "none"
    BY <1>1 DEF EndGate, Current, TypeOK
  <1>7. g \in ToolsOf(g) /\ ToolsOf(g) \subseteq Gate
    BY <1>1, <1>6, GateRunAssumption DEF ToolsOf, PlanInv
  <1>8. /\ run'.status[g] = verdict
        /\ \A h \in Gate : h # g => run'.status[h] = run.status[h]
    BY <1>1, <1>2, <1>6 DEF TypeOK
  <1>9. verdict = "fail" => \E t \in Gate : run.result[t] = "fail"
    <2>1. SUFFICES ASSUME NEW t \in ToolsOf(g), run.result[t] # "pass"
                   PROVE  \E u \in Gate : run.result[u] = "fail"
      OBVIOUS
    <2>2. run.result[t] \in {"fail", "not_run"}
      BY <1>1, <1>6, <1>7, <2>1 DEF TypeOK
    <2> QED
      BY <1>1, <1>7, <2>1, <2>2 DEF CauseInv
  <1>10. verdict \in {"pass", "fail"} /\ (verdict = "pass" => run.result[g] = "pass")
    BY <1>7
  <1> HIDE DEF verdict
  <1>11. CauseInv'
    BY <1>1, <1>2, <1>8, <1>9, <1>10 DEF CauseInv
  <1>12. \A h : Satisfied(h) => Satisfied(h)'
    BY <1>1, <1>2, <1>6 DEF Satisfied, TypeOK
  <1>13. \A h : DepsPass(h) => DepsPass(h)'
    BY <1>12 DEF DepsPass
  <1>14. run.selected \subseteq Gate
    BY <1>1 DEF TypeOK
  <1>15. \A h \in Gate : run.status[h] # "none" => run'.status[h] # "none"
    BY <1>6, <1>8
  <1>16. ASSUME NEW u \in Gate, run'.status[u] # "none"
         PROVE  /\ u \in run'.selected
                /\ run'.result[u] # "none"
                /\ \A h \in run'.selected : Rank[h] < Rank[u] => run'.status[h] # "none"
    <2>1. CASE u = g
      BY <1>2, <1>6, <1>7, <1>14, <1>15, <2>1
    <2>2. CASE u # g
      <3>1. run.status[u] # "none"
        BY <1>8, <1>16, <2>2
      <3>2. /\ u \in run.selected
            /\ run.result[u] # "none"
            /\ \A h \in run.selected : Rank[h] < Rank[u] => run.status[h] # "none"
        BY <1>1, <3>1 DEF ResultInv
      <3> QED
        BY <1>2, <1>14, <1>15, <3>2
    <2> QED
      BY <2>1, <2>2
  <1>17. ASSUME NEW u \in Gate, run'.status[u] = "pass"
         PROVE  run'.result[u] = "pass" /\ DepsPass(u)'
    <2>1. CASE u = g
      BY <1>2, <1>6, <1>8, <1>10, <1>13, <1>17, <2>1
    <2>2. CASE u # g
      BY <1>1, <1>2, <1>8, <1>13, <1>17, <2>2 DEF ResultInv
    <2> QED
      BY <2>1, <2>2
  <1>18. ResultInv'
    BY <1>1, <1>2, <1>3, <1>16, <1>17 DEF ResultInv
  <1> QED
    BY <1>1, <1>2, <1>4, <1>5, <1>11, <1>18 DEF RunInv

\* What a run issues is proved, and what it binds was compared or overtook.
LEMMA PassStep ==
    ASSUME IInv, NEW approved \in BOOLEAN, Pass(approved)
    PROVE  EvidenceInv' /\ RunInv'
  <1>1. TypeOK /\ EvidenceInv /\ RunInv /\ BindingInv /\ Finished /\ GatesPass
    BY DEF IInv, Pass, BindingInv
  <1>2. UNCHANGED <<design, log, board, passed, excused, overtook>> /\ run' = NoRun
    BY DEF Pass
  <1>3. /\ cert' = [l \in Level |-> IF l \notin Issued THEN cert[l]
                                   ELSE IF approved THEN design ELSE None]
        /\ foreign' = foreign \cup (IF approved THEN Misfits \X {design} ELSE {})
        /\ run.binding = "copied" /\ ~Drifted
    BY DEF Pass
  <1>5. ASSUME NEW l \in Level, cert'[l] # None, NEW g \in Below[l]
        PROVE  Proved(g, cert'[l])
    <2>1. CASE l \in Issued
      <3>1. cert'[l] = design
        BY <1>3, <1>5, <2>1
      <3>2. g \in ScopeGates[run.scope]
        BY <1>1, <1>5, <2>1, IssuedInScope
      <3> QED
        BY <1>1, <3>1, <3>2, ScopeProved
    <2>2. CASE l \notin Issued
      <3>1. cert'[l] = cert[l]
        BY <1>3, <2>2
      <3> QED
        BY <1>1, <1>5, <3>1 DEF EvidenceInv, CertificateIsProved
    <2> QED
      BY <2>1, <2>2
  <1>6. CertificateIsProved'
    BY <1>2, <1>5 DEF CertificateIsProved, Proved
  <1>7. ASSUME NEW g \in Misfits PROVE <<g, design>> \in overtook
    <2>1. PICK d \in Design \ {design} : <<g, d>> \in run.copies
      BY DEF Misfits
    <2>2. /\ \E l \in Issued : g \in Reporting(l)
          /\ report[g] = d \/ <<g, design>> \in overtook
      BY <1>1, <1>3, <2>1 DEF BindingInv
    <2> QED
      BY <1>3, <2>1, <2>2 DEF Drifted
  <1>8. CertificateBindsItsReports'
    BY <1>1, <1>2, <1>3, <1>7 DEF EvidenceInv, CertificateBindsItsReports
  <1>9. EvidenceInv'
    BY <1>1, <1>2, <1>6, <1>8 DEF EvidenceInv
  <1>10. RunInv'
    BY <1>2 DEF RunInv, NoRun
  <1> QED
    BY <1>9, <1>10

\* A board identity that validates was written by the discovery.
LEMMA BoardStep ==
    ASSUME EvidenceInv, NEW t \in Gate, NEW d \in Design, NEW output, Writes(t, d, output),
           passed \subseteq passed', output = "identity" => <<t, d>> \in passed'
    PROVE  board' => \E e \in Design : <<Identity, e>> \in passed'
  BY DEF EvidenceInv, Writes

\* While certificates are bound no gate is taken and no tool is run.
LEMMA BindingStep == IInv /\ [Next]_vars => BindingInv'
  <1> SUFFICES ASSUME IInv, [Next]_vars PROVE BindingInv'
    OBVIOUS
  <1>1. TypeOK /\ BindingInv
    BY DEF IInv
  <1>2. ASSUME NEW g \in run.selected, run.status[g] = "none", run'.binding = run.binding
        PROVE  BindingInv'
    BY <1>1, <1>2 DEF BindingInv, Finished
  <1>3. ASSUME run'.binding = "none" PROVE BindingInv'
    BY <1>3 DEF BindingInv
  <1>4. ASSUME NEW l \in Level, NEW reuse \in BOOLEAN, NEW entry \in 0 .. l - 1,
               Start(l, entry, reuse)
        PROVE  BindingInv'
    BY <1>3, <1>4 DEF Start, NoRun
  <1>5. ASSUME NEW g \in run.selected, Skip(g) \/ EndGate(g) PROVE BindingInv'
    BY <1>1, <1>2, <1>5 DEF Skip, EndGate, Current, TypeOK
  <1>6. ASSUME NEW g \in run.selected, NEW t \in ToolsOf(g), NEW output,
               Reuse(g, t) \/ ToolPasses(g, t, output) \/ ToolFails(g, t, output)
        PROVE  BindingInv'
    BY <1>1, <1>2, <1>6 DEF Reuse, ToolPasses, ToolFails, Runnable, Current, TypeOK
  <1>7. ASSUME UNCHANGED <<design, log>>,
               /\ run'.scope = run.scope /\ run'.certified = run.certified
               /\ run'.selected = run.selected /\ run'.result = run.result
               /\ run'.status = run.status
        PROVE  /\ Finished' <=> Finished
               /\ GatesPass' <=> GatesPass
               /\ Issued' = Issued
               /\ \A l : Reporting(l)' = Reporting(l)
    <2>1. \A g : GatePasses(g)' <=> GatePasses(g)
      BY <1>7 DEF GatePasses
    <2> QED
      BY <1>7, <2>1 DEF Finished, GatesPass, Issued, Reporting
  <1>8. CASE Compare
    <2>1. /\ UNCHANGED <<design, log>>
          /\ run'.scope = run.scope /\ run'.certified = run.certified
          /\ run'.selected = run.selected /\ run'.result = run.result
          /\ run'.status = run.status /\ run'.binding = "compared"
      BY <1>1, <1>8 DEF Compare, TypeOK
    <2>2. Finished /\ GatesPass
      BY <1>8 DEF Compare
    <2> QED
      BY <1>7, <2>1, <2>2 DEF BindingInv
  <1>9. CASE Copy
    <2> DEFINE copies == {<<g, report[g]>> : g \in UNION {Reporting(l) : l \in Issued}}
    <2>1. UNCHANGED <<design, report, log>> /\ run.binding = "compared"
      BY <1>9 DEF Copy
    <2>2. run' = [run EXCEPT !.binding = "copied", !.copies = copies]
      BY <1>9 DEF Copy
    <2> HIDE DEF copies
    <2>3. /\ run'.scope = run.scope /\ run'.certified = run.certified
          /\ run'.selected = run.selected /\ run'.result = run.result
          /\ run'.status = run.status /\ run'.copies = copies
      BY <1>1, <2>2 DEF TypeOK
    <2>4. Finished' /\ GatesPass' /\ Issued' = Issued /\ \A l : Reporting(l)' = Reporting(l)
      BY <1>1, <1>7, <2>1, <2>3 DEF BindingInv
    <2>5. ASSUME NEW r \in copies
          PROVE  (\E l \in Issued : r[1] \in Reporting(l)) /\ report[r[1]] = r[2]
      BY DEF copies
    <2> QED
      BY <2>1, <2>3, <2>4, <2>5 DEF BindingInv
  <1>10. ASSUME NEW approved \in BOOLEAN, Pass(approved) PROVE BindingInv'
    BY <1>3, <1>10 DEF Pass, NoRun
  <1>11. CASE Fail
    BY <1>3, <1>11 DEF Fail, NoRun
  <1>12. ASSUME NEW keeps \in BOOLEAN, Edit(keeps) PROVE BindingInv'
    BY <1>1, <1>3, <1>12 DEF Edit, BindingInv, Finished, TypeOK
  <1>13. ASSUME NEW tools, Kill(tools) PROVE BindingInv'
    BY <1>3, <1>13 DEF Kill, NoRun
  <1>14. ASSUME NEW t \in Gate, NEW d \in Design, NEW output \in Output(t) \ {"nothing"},
                LateReport(t, d, output)
         PROVE  BindingInv'
    <2>1. /\ UNCHANGED <<design, log, run>>
          /\ report' = [report EXCEPT ![t] = d]
          /\ overtook \subseteq overtook'
          /\ run.binding # "none" => <<t, design>> \in overtook'
      BY <1>14 DEF LateReport, Writes
    <2>2. /\ Finished' <=> Finished
          /\ GatesPass' <=> GatesPass
          /\ Issued' = Issued
          /\ \A l : Reporting(l)' = Reporting(l)
      BY <1>7, <2>1
    <2>3. ASSUME run.binding = "copied", NEW r \in run.copies
          PROVE  /\ \E l \in Issued : r[1] \in Reporting(l)
                 /\ report'[r[1]] = r[2] \/ <<r[1], design>> \in overtook'
      <3>1. /\ \E l \in Issued : r[1] \in Reporting(l)
            /\ report[r[1]] = r[2] \/ <<r[1], design>> \in overtook
        BY <1>1, <2>3 DEF BindingInv
      <3>2. r[1] \in Gate
        BY <1>1, <2>3 DEF TypeOK
      <3> QED
        BY <1>1, <2>1, <2>3, <3>1, <3>2 DEF TypeOK
    <2> QED
      BY <1>1, <2>1, <2>2, <2>3 DEF BindingInv
  <1>15. CASE UNCHANGED vars
    <2>1. UNCHANGED <<design, report, log, run, overtook>>
      BY <1>15 DEF vars
    <2> QED
      BY <1>1, <1>7, <2>1 DEF BindingInv
  <1> QED
    BY <1>4, <1>5, <1>6, <1>8, <1>9, <1>10, <1>11, <1>12, <1>13, <1>14, <1>15 DEF Next

\* A step that leaves the plan, the results and the certificates alone.
LEMMA RestStep ==
    ASSUME IInv, UNCHANGED <<design, log, cert, excused, foreign>>,
           run'.scope = run.scope, run'.certified = run.certified,
           run'.selected = run.selected, run'.result = run.result, run'.status = run.status,
           passed \subseteq passed', overtook \subseteq overtook',
           board' => \E e \in Design : <<Identity, e>> \in passed'
    PROVE  EvidenceInv' /\ RunInv'
  <1>1. EvidenceInv'
    BY EvidenceStep DEF IInv, EvidenceInv
  <1>2. PlanInv => PlanInv'
    BY PlanStep
  <1>3. RunInv'
    BY <1>2 DEF IInv, RunInv, ResultInv, CauseInv, DepsPass, Satisfied
  <1> QED
    BY <1>1, <1>3

LEMMA NextIInv == IInv /\ [Next]_vars => IInv'
  <1> SUFFICES ASSUME IInv, [Next]_vars PROVE IInv'
    OBVIOUS
  <1>1. TypeOK' /\ BindingInv'
    BY TypeStep, BindingStep DEF IInv
  <1>2. ASSUME NEW l \in Level, NEW reuse \in BOOLEAN, NEW entry \in 0 .. l - 1,
               Start(l, entry, reuse)
        PROVE  EvidenceInv' /\ RunInv'
    BY <1>2, StartStep
  <1>3. ASSUME NEW g \in run.selected, Skip(g) PROVE EvidenceInv' /\ RunInv'
    BY <1>3, SkipStep
  <1>4. ASSUME NEW g \in run.selected, EndGate(g) PROVE EvidenceInv' /\ RunInv'
    BY <1>4, EndGateStep
  <1>5. ASSUME NEW g \in run.selected, NEW t \in ToolsOf(g), Reuse(g, t)
        PROVE  EvidenceInv' /\ RunInv'
    <2>1. /\ run.result[t] = "none" /\ Reusable(t)
          /\ run' = [run EXCEPT !.result = [@ EXCEPT ![t] = "pass"]]
          /\ UNCHANGED <<design, report, log, board, left, kills, cert, passed, excused, foreign, overtook>>
      BY <1>5 DEF Reuse, Runnable
    <2>2. t \in Gate /\ design # None
      BY GateRunAssumption DEF IInv, TypeOK, ToolsOf, Design, None
    <2>3. <<t, design>> \in passed'
      BY <2>1, <2>2 DEF IInv, EvidenceInv, Reusable
    <2>4. RunInv'
      BY <2>1, <2>2, <2>3, ToolStep DEF IInv
    <2> QED
      BY <2>1, <2>4, EvidenceStep DEF IInv, EvidenceInv
  <1>6. ASSUME NEW g \in run.selected, NEW t \in ToolsOf(g), NEW output \in Output(t),
               ToolPasses(g, t, output)
        PROVE  EvidenceInv' /\ RunInv'
    <2>1. /\ run.result[t] = "none"
          /\ log' = [log EXCEPT ![t] = [on |-> design, out |-> report'[t]]]
          /\ Writes(t, design, output)
          /\ passed' = passed \cup {<<t, design>>}
          /\ run' = [run EXCEPT !.result = [@ EXCEPT ![t] = "pass"]]
          /\ UNCHANGED <<design, left, kills, cert, excused, foreign, overtook>>
      BY <1>6 DEF ToolPasses, Runnable
    <2>2. t \in Gate /\ design \in Design
      BY GateRunAssumption DEF IInv, TypeOK, ToolsOf
    <2>3. RunInv'
      BY <2>1, <2>2, ToolStep DEF IInv
    <2>4. \A u \in Gate : log'[u].on # None => <<u, log'[u].on>> \in passed'
      BY <2>1, <2>2 DEF IInv, EvidenceInv, TypeOK
    <2>5. board' => \E e \in Design : <<Identity, e>> \in passed'
      BY <2>1, <2>2, BoardStep DEF IInv
    <2> QED
      BY <2>1, <2>3, <2>4, <2>5, EvidenceStep DEF IInv
  <1>7. ASSUME NEW g \in run.selected, NEW t \in ToolsOf(g), NEW output \in Output(t),
               ToolFails(g, t, output)
        PROVE  EvidenceInv' /\ RunInv'
    <2>1. /\ run.result[t] = "none"
          /\ log' = [log EXCEPT ![t] = NoLog]
          /\ Writes(t, design, output)
          /\ passed' = passed \cup (IF output = "identity" THEN {<<t, design>>} ELSE {})
          /\ run' = [run EXCEPT !.result = [@ EXCEPT ![t] = "fail"]]
          /\ UNCHANGED <<design, left, kills, cert, excused, foreign, overtook>>
      BY <1>7 DEF ToolFails, Runnable
    <2>2. t \in Gate /\ design \in Design
      BY GateRunAssumption DEF IInv, TypeOK, ToolsOf
    <2>3. RunInv'
      BY <2>1, <2>2, ToolStep DEF IInv
    <2>4. \A u \in Gate : log'[u].on # None => <<u, log'[u].on>> \in passed'
      BY <2>1, <2>2 DEF IInv, EvidenceInv, TypeOK, NoLog
    <2>5. board' => \E e \in Design : <<Identity, e>> \in passed'
      BY <2>1, <2>2, BoardStep DEF IInv
    <2> QED
      BY <2>1, <2>3, <2>4, <2>5, EvidenceStep DEF IInv
  <1>8. ASSUME NEW approved \in BOOLEAN, Pass(approved) PROVE EvidenceInv' /\ RunInv'
    BY <1>8, PassStep
  <1>9. ASSUME Fail PROVE EvidenceInv' /\ RunInv'
    <2>1. run' = NoRun /\ UNCHANGED <<design, log, board, cert, passed, excused, foreign, overtook>>
      BY <1>9 DEF Fail
    <2>2. EvidenceInv'
      BY <2>1, EvidenceStep DEF IInv, EvidenceInv
    <2> QED
      BY <2>1, <2>2 DEF RunInv, NoRun
  <1>10. ASSUME NEW keeps \in BOOLEAN, Edit(keeps) PROVE EvidenceInv' /\ RunInv'
    <2>1. /\ run.scope = None /\ board' = (board /\ keeps)
          /\ UNCHANGED <<log, cert, run, passed, excused, foreign, overtook>>
      BY <1>10 DEF Edit
    <2>2. EvidenceInv'
      BY <2>1, EvidenceStep DEF IInv, EvidenceInv
    <2> QED
      BY <2>1, <2>2 DEF IInv, RunInv
  <1>11. ASSUME NEW tools \in {{}} \cup {{t} : t \in Gate}, Kill(tools)
         PROVE  EvidenceInv' /\ RunInv'
    <2>1. run' = NoRun /\ UNCHANGED <<design, log, board, cert, passed, excused, foreign, overtook>>
      BY <1>11 DEF Kill
    <2>2. EvidenceInv'
      BY <2>1, EvidenceStep DEF IInv, EvidenceInv
    <2> QED
      BY <2>1, <2>2 DEF RunInv, NoRun
  <1>12. ASSUME NEW t \in Gate, NEW d \in Design, NEW output \in Output(t) \ {"nothing"},
                LateReport(t, d, output)
         PROVE  EvidenceInv' /\ RunInv'
    <2>1. /\ UNCHANGED <<design, log, cert, run, excused, foreign>>
          /\ Writes(t, d, output)
          /\ passed' = passed \cup (IF output = "identity" THEN {<<t, d>>} ELSE {})
          /\ overtook \subseteq overtook'
      BY <1>12 DEF LateReport
    <2>2. passed \subseteq passed'
      BY <2>1
    <2>3. board' => \E e \in Design : <<Identity, e>> \in passed'
      BY <2>1, BoardStep DEF IInv
    <2> QED
      BY <2>1, <2>2, <2>3, RestStep
  <1>13. ASSUME Compare PROVE EvidenceInv' /\ RunInv'
    <2>1. UNCHANGED <<design, log, board, cert, passed, excused, foreign, overtook>>
      BY <1>13 DEF Compare
    <2>2. /\ run'.scope = run.scope /\ run'.certified = run.certified
          /\ run'.selected = run.selected /\ run'.result = run.result
          /\ run'.status = run.status
      BY <1>13 DEF Compare, IInv, TypeOK
    <2>3. board' => \E e \in Design : <<Identity, e>> \in passed'
      BY <2>1 DEF IInv, EvidenceInv
    <2> QED
      BY <2>1, <2>2, <2>3, RestStep
  <1>14. ASSUME Copy PROVE EvidenceInv' /\ RunInv'
    <2>1. UNCHANGED <<design, log, board, cert, passed, excused, foreign, overtook>>
      BY <1>14 DEF Copy
    <2>2. /\ run'.scope = run.scope /\ run'.certified = run.certified
          /\ run'.selected = run.selected /\ run'.result = run.result
          /\ run'.status = run.status
      BY <1>14 DEF Copy, IInv, TypeOK
    <2>3. board' => \E e \in Design : <<Identity, e>> \in passed'
      BY <2>1 DEF IInv, EvidenceInv
    <2> QED
      BY <2>1, <2>2, <2>3, RestStep
  <1>15. ASSUME UNCHANGED vars PROVE EvidenceInv' /\ RunInv'
    <2>1. UNCHANGED <<design, log, board, cert, run, passed, excused, foreign, overtook>>
      BY <1>15 DEF vars
    <2>2. board' => \E e \in Design : <<Identity, e>> \in passed'
      BY <2>1 DEF IInv, EvidenceInv
    <2> QED
      BY <2>1, <2>2, RestStep
  <1> QED
    BY <1>1, <1>2, <1>3, <1>4, <1>5, <1>6, <1>7, <1>8, <1>9, <1>10, <1>11, <1>12, <1>13,
       <1>14, <1>15 DEF IInv, Next

THEOREM SpecIInv == Spec => []IInv
  BY InitIInv, NextIInv, PTL DEF Spec

-----------------------------------------------------------------------------
\* A run whose gates pass proved all the gates of its scope on the design on disk
\* (build_results, run_tool, reusable_stage6_certificate_evidence).
THEOREM SpecPassIsProved == Spec => []PassIsProved
  <1>1. IInv => PassIsProved
    BY ScopeProved DEF IInv, PassIsProved
  <1> QED
    BY <1>1, SpecIInv, PTL

\* A certificate stands for gates that were all proved on its design
\* (gate_dependency_closure_from_map).
THEOREM SpecCertificateIsProved == Spec => []CertificateIsProved
  <1>1. IInv => CertificateIsProved
    BY DEF IInv, EvidenceInv
  <1> QED
    BY <1>1, SpecIInv, PTL

\* The reports bound into a certificate are about its design, or overtook its issue
\* (build_promotion_evidence_binding).
THEOREM SpecCertificateBindsItsReports == Spec => []CertificateBindsItsReports
  <1>1. IInv => CertificateBindsItsReports
    BY DEF IInv, EvidenceInv
  <1> QED
    BY <1>1, SpecIInv, PTL

\* A planned run whose gates do not pass has a tool that failed in it
\* (run_gate_ordered_tools).
THEOREM SpecFailureHasACause == Spec => []FailureHasACause
  <1>1. ASSUME IInv, Finished, ~GatesPass, \A t \in Gate : run.result[t] # "fail"
        PROVE  FALSE
    <2>1. /\ TypeOK /\ run.scope \in Level /\ PlanInv /\ ResultInv /\ CauseInv
      BY <1>1 DEF IInv, RunInv, Finished, TypeOK
    <2>2. PICK l \in 1 .. run.scope : \E g \in Required[l] : ~GatePasses(g)
      BY <1>1 DEF GatesPass
    <2>3. PICK g \in Required[l] : ~GatePasses(g)
      BY <2>2
    <2>4. l \in Level /\ l <= run.scope
      BY <2>1, <2>2, GateRunAssumption DEF Level
    <2>5. g \in Gate /\ g \in ScopeGates[l]
      BY <2>4, ScopeClosed
    <2>6. g \in ScopeGates[run.scope]
      BY <2>1, <2>4, <2>5, ScopesNest, GateRunAssumption
    <2>7. g \in run.selected
      BY <2>1, <2>3, <2>6 DEF PlanInv, GatePasses
    <2>8. run.status[g] # "pass"
      BY <2>1, <2>3, <2>5, <2>7 DEF ResultInv, GatePasses
    <2>9. run.status[g] \in {"fail", "blocked"}
      BY <1>1, <2>1, <2>5, <2>7, <2>8 DEF Finished, TypeOK
    <2> QED
      BY <1>1, <2>1, <2>5, <2>9 DEF CauseInv
  <1>2. IInv => FailureHasACause
    BY <1>1 DEF FailureHasACause
  <1> QED
    BY <1>2, SpecIInv, PTL

\* What is below a gate is proved when one of its tools is started.
LEMMA BelowIsProved ==
    ASSUME IInv, NEW g \in run.selected, NEW t \in ToolsOf(g), Runnable(g, t)
    PROVE  \A h \in Under[t] : Proved(h, design)
  <1>1. TypeOK /\ run.scope \in Level /\ PlanInv /\ ResultInv
    BY DEF IInv, RunInv, TypeOK
  <1>2. g \in Gate /\ t \in Gate /\ t \notin run.certified /\ DepsPass(g)
    BY <1>1, GateRunAssumption DEF TypeOK, ToolsOf, Runnable
  <1>3. t = g
    <2>1. SUFFICES ASSUME t \in Helpers[g] PROVE FALSE
      BY DEF ToolsOf
    <2>2. Rank[t] < Rank[g]
      BY <1>2, <2>1, GateRunAssumption
    <2>3. t \in ScopeGates[run.scope]
      <3>1. Rank[g] <= Rank[Stop[run.scope]]
        BY <1>1 DEF PlanInv, ScopeGates
      <3>2. Rank[t] \in Nat /\ Rank[g] \in Nat /\ Rank[Stop[run.scope]] \in Nat
        BY <1>1, <1>2, GateRunAssumption
      <3> QED
        BY <1>1, <1>2, <2>2, <3>1, <3>2 DEF ScopeGates
    <2>4. t \in run.selected
      BY <1>1, <1>2, <2>3 DEF PlanInv
    <2>5. run.status[t] # "none"
      BY <2>2, <2>4 DEF Runnable, Current
    <2> QED
      BY <1>1, <1>2, <2>5 DEF ResultInv, Runnable
  <1> DEFINE done == {h \in Gate : Satisfied(h)}
  <1>4. Deps[g] \in SUBSET Gate /\ Deps[g] \subseteq done
    BY <1>2, GateRunAssumption DEF DepsPass
  <1>5. ASSUME NEW h \in done \ {Identity} PROVE Deps[h] \subseteq done
    <2>1. Deps[h] \in SUBSET Gate
      BY GateRunAssumption
    <2>2. CASE h \in run.certified
      BY <1>1, <1>5, <2>1, <2>2 DEF PlanInv, Satisfied
    <2>3. CASE run.status[h] = "pass"
      BY <1>1, <2>1, <2>3 DEF ResultInv, DepsPass
    <2> QED
      BY <2>2, <2>3 DEF Satisfied
  <1>6. Closed(done, {Identity})
    BY <1>5 DEF Closed
  <1>7. Under[t] \subseteq done
    <2>1. Under[t] = Closure(Deps[g], {Identity})
      BY <1>2, <1>3 DEF Under
    <2> HIDE DEF done
    <2>2. done \in SUBSET Gate /\ {Identity} \in SUBSET Gate
      BY GateRunAssumption DEF done
    <2> QED
      BY <1>4, <1>6, <2>1, <2>2, ClosureLeast
  <1>8. \A h \in done : Proved(h, design)
    BY <1>1 DEF PlanInv, ResultInv, Satisfied, Proved
  <1> QED
    BY <1>7, <1>8

\* No tool is started before everything below its gate is proved
\* (run_gate_ordered_tools).
THEOREM SpecLowerGatesFirst == Spec => LowerGatesFirst
  <1> DEFINE Answered(t) == run.result[t] = "none" /\ run'.result[t] \in {"pass", "fail"}
             First == \A t \in Gate : Answered(t) => \A g \in Under[t] : Proved(g, design)
  <1>1. IInv /\ [Next]_vars => [First]_vars
    <2> SUFFICES ASSUME IInv, Next, NEW t \in Gate, Answered(t)
                 PROVE  \A g \in Under[t] : Proved(g, design)
      OBVIOUS
    <2>1. TypeOK
      BY DEF IInv
    <2>2. run' # NoRun /\ run' # run
      BY DEF NoRun
    <2>3. ASSUME NEW g \in run.selected, NEW u \in ToolsOf(g), Runnable(g, u),
                 NEW answer, run' = [run EXCEPT !.result = [@ EXCEPT ![u] = answer]]
          PROVE  \A h \in Under[t] : Proved(h, design)
      <3>1. t = u
        BY <2>1, <2>3 DEF TypeOK
      <3> QED
        BY <2>3, <3>1, BelowIsProved
    <2>4. ASSUME NEW l \in Level, NEW reuse \in BOOLEAN, NEW entry \in 0 .. l - 1,
                 Start(l, entry, reuse)
          PROVE  FALSE
      BY <2>4 DEF Start, NoRun
    <2>5. ASSUME NEW g \in run.selected, Skip(g) PROVE FALSE
      BY <2>1, <2>5 DEF Skip, TypeOK
    <2>6. ASSUME NEW g \in run.selected, EndGate(g) PROVE FALSE
      BY <2>1, <2>6 DEF EndGate, TypeOK
    <2>7. ASSUME NEW g \in run.selected, NEW u \in ToolsOf(g), Reuse(g, u)
          PROVE  \A h \in Under[t] : Proved(h, design)
      BY <2>3, <2>7 DEF Reuse
    <2>8. ASSUME NEW g \in run.selected, NEW u \in ToolsOf(g), NEW output \in Output(u),
                 ToolPasses(g, u, output)
          PROVE  \A h \in Under[t] : Proved(h, design)
      BY <2>3, <2>8 DEF ToolPasses
    <2>9. ASSUME NEW g \in run.selected, NEW u \in ToolsOf(g), NEW output \in Output(u),
                 ToolFails(g, u, output)
          PROVE  \A h \in Under[t] : Proved(h, design)
      BY <2>3, <2>9 DEF ToolFails
    <2>10. ASSUME Compare \/ Copy PROVE FALSE
      BY <2>1, <2>10 DEF Compare, Copy, TypeOK
    <2> QED
      BY <2>2, <2>4, <2>5, <2>6, <2>7, <2>8, <2>9, <2>10
         DEF Next, Pass, Fail, Edit, Kill, LateReport
  <1> QED
    BY <1>1, SpecIInv, PTL DEF Spec, LowerGatesFirst
=============================================================================
