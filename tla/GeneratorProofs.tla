--------------------------- MODULE GeneratorProofs ---------------------------
(***************************************************************************)
(* For any number of files, lines, users and jobids, and any failures:     *)
(* no two jobs of a run of the generator get the same unit, unless the     *)
(* hash they are named by cannot tell them apart; a failure costs one job; *)
(* every line becomes the job it asks for.                                 *)
(***************************************************************************)
EXTENDS Generator, TLAPS

\* Counting never takes a counter back, and a job that is numbered gets a
\* number below its counter.
LEMMA CountGrows ==
    ASSUME seqs \in [Id -> Nat], NEW j, j.id \in Id
    PROVE  /\ Count(j) \in [Id -> Nat]
           /\ \A i \in Id : seqs[i] <= Count(j)[i]
           /\ ~Hashed(j) => seqs[j.id] < Count(j)[j.id]
BY DEF Count

\* Init establishes the invariant: nothing was written yet.
LEMMA NamesInitially == Init => NamesInv
BY FileAssumption DEF Init, NamesInv, ReaderInv, CurrentInv, NamesApart, FilesOf

\* A step that leaves the counters, the jobs written and the job being
\* written alone.
LEMMA ReaderSteps ==
    ASSUME NamesInv, UNCHANGED <<conf, seqs, job, name, step, done>>,
           cur' # NoFile => cur' \in DOMAIN conf /\ ln' \in Nat \ {0},
           todo' \subseteq DOMAIN conf
    PROVE  NamesInv'
<1>1. ReaderInv'
  BY DEF NamesInv, ReaderInv, NameOf, schedule_raw
<1>2. CurrentInv'
  BY DEF NamesInv, CurrentInv, NameOf, schedule_raw
<1>3. NamesApart'
  BY DEF NamesInv, NamesApart
<1> QED BY <1>1, <1>2, <1>3 DEF NamesInv

\* StartJob names a job: the number it takes was not given out before.
LEMMA StartJobStep == ASSUME NamesInv, StartJob PROVE NamesInv'
<1> DEFINE j == JobOf(cur, ln, Line, env)
<1>1. /\ job' = j /\ name' = generate_unit_name(j)
      /\ seqs' = IF Stage[cur] = RUN_PARTS THEN seqs ELSE Count(j)
      /\ step' \in {"script", "timer"} /\ step = "scan"
      /\ done' = done /\ conf' = conf /\ cur' = cur /\ ln' = ln + 1 /\ todo' = todo
  BY DEF StartJob, AtLine, NextLine
<1>2. cur \in DOMAIN conf /\ cur \in File /\ ln \in 1..Len(conf[cur]) /\ conf \in Configs
  <2>1. cur \in DOMAIN conf /\ conf \in Configs /\ ln \in Nat \ {0} /\ ln <= Len(conf[cur])
    BY DEF NamesInv, ReaderInv, StartJob, AtLine
  <2>2. cur \in File /\ Len(conf[cur]) \in Nat
    BY <2>1, ConfigAssumption
  <2> QED BY <2>1, <2>2
<1>3. j.id \in Id /\ j.file = cur
  <2>1. Line.user \in User
    BY <1>2, ConfigAssumption DEF StartJob, Line
  <2>2. JobId[cur][Line.user] \in Id
    BY <2>1, <1>2, FileAssumption
  <2> QED BY <2>2 DEF JobOf
<1>4. /\ seqs' \in [Id -> Nat]
      /\ \A i \in Id : seqs[i] <= seqs'[i]
      /\ ~Hashed(j) /\ Stage[cur] # RUN_PARTS => seqs[j.id] < seqs'[j.id]
  <2>1. seqs \in [Id -> Nat]
    BY DEF NamesInv, ReaderInv
  <2> HIDE DEF j
  <2>2. CASE Stage[cur] = RUN_PARTS
    BY <1>1, <2>1, <2>2
  <2>3. CASE Stage[cur] # RUN_PARTS
    BY <1>1, <1>3, <2>1, <2>3, CountGrows
  <2> QED BY <2>2, <2>3
<1> HIDE DEF j
<1>5. \A d \in done : NameOf(d.job, d.name)'
  <2> SUFFICES ASSUME NEW d \in done PROVE NameOf(d.job, d.name)'
    OBVIOUS
  <2>1. NameOf(d.job, d.name) /\ seqs \in [Id -> Nat]
    BY DEF NamesInv, ReaderInv
  <2> QED BY <2>1, <1>4 DEF NameOf, schedule_raw
<1>6. ReaderInv'
  BY <1>1, <1>2, <1>4, <1>5 DEF NamesInv, ReaderInv
<1>7. NameOf(job, name)'
  <2>1. CASE Stage[cur] = RUN_PARTS
    BY <1>1, <1>3, <2>1 DEF NameOf, generate_unit_name, PartName
  <2>2. CASE Stage[cur] # RUN_PARTS /\ Hashed(j)
    BY <1>1, <1>3, <2>2 DEF NameOf, generate_unit_name, HashName, schedule_raw
  <2>3. CASE Stage[cur] # RUN_PARTS /\ ~Hashed(j)
    BY <1>1, <1>3, <1>4, <2>3 DEF NameOf, generate_unit_name, SeqName, NamesInv, ReaderInv
  <2> QED BY <2>1, <2>2, <2>3
<1>8. ASSUME name'.kind = "seq", NEW d \in done PROVE d.name # name'
  <2>1. name'.id = j.id /\ name'.n = seqs[j.id]
    BY <1>1, <1>3, <1>8 DEF generate_unit_name, PartName, HashName, SeqName
  <2>2. NameOf(d.job, d.name) /\ seqs \in [Id -> Nat]
    BY DEF NamesInv, ReaderInv
  <2> QED BY <2>1, <2>2, <1>3, <1>8 DEF NameOf
<1>9. CurrentInv'
  BY <1>1, <1>7, <1>8 DEF CurrentInv
<1>10. NamesApart'
  BY <1>1 DEF NamesInv, NamesApart
<1> QED BY <1>6, <1>9, <1>10 DEF NamesInv

\* output() ends, well or not: the job joins those written.
LEMMA WrittenStep ==
    ASSUME NamesInv, step # "scan", NEW ok \in BOOLEAN, Written(ok),
           UNCHANGED <<conf, cur, ln, todo, seqs>>
    PROVE  NamesInv'
<1> DEFINE w == [job |-> job, name |-> name, ok |-> ok]
<1>1. done' = done \cup {w} /\ step' = "scan"
  BY DEF Written
<1>2. NameOf(job, name) /\ (name.kind = "seq" => \A d \in done : d.name # name)
  BY DEF NamesInv, CurrentInv
<1>3. \A d \in done \cup {w} : NameOf(d.job, d.name)
  BY <1>2 DEF NamesInv, ReaderInv
<1>4. ReaderInv'
  BY <1>1, <1>3 DEF NamesInv, ReaderInv, NameOf, schedule_raw
<1>5. CurrentInv'
  BY <1>1 DEF CurrentInv
<1>6. NamesApart'
  <2> SUFFICES ASSUME NEW d \in done \cup {w}, NEW e \in done \cup {w},
                      d.job # e.job, d.name = e.name, d.name.kind # "part"
               PROVE  /\ d.name.kind = "hash"
                      /\ d.job.cmd = e.job.cmd
                      /\ d.job.persistent /\ e.job.persistent /\ d.job.period # "unknown" =>
                             d.job.at = e.job.at
    BY <1>1 DEF NamesApart
  <2>1. NameOf(d.job, d.name) /\ NameOf(e.job, e.name)
    BY <1>3
  <2>2. d.name.kind = "hash"
    <3>1. CASE d \in done /\ e \in done
      BY <3>1 DEF NamesInv, NamesApart
    <3>2. CASE d = w /\ e \in done
      BY <3>2, <1>2, <2>1 DEF NameOf
    <3>3. CASE d \in done /\ e = w
      BY <3>3, <1>2, <2>1 DEF NameOf
    <3>4. CASE d = w /\ e = w
      BY <3>4
    <3> QED BY <3>1, <3>2, <3>3, <3>4
  <2>3. d.job.cmd = e.job.cmd /\ schedule_raw(d.job) = schedule_raw(e.job)
    BY <2>1, <2>2 DEF NameOf
  <2>4. ASSUME d.job.persistent, e.job.persistent, d.job.period # "unknown"
        PROVE  d.job.at = e.job.at
    <3>1. schedule_raw(d.job) = <<d.job.at, d.job.hour>>
      BY <2>4 DEF schedule_raw
    <3>2. CASE e.job.period = "unknown"
      <4>1. schedule_raw(e.job) = <<>>
        BY <3>2 DEF schedule_raw, NoRaw
      <4> QED BY <4>1, <3>1, <2>3
    <3>3. CASE e.job.period # "unknown"
      <4>1. schedule_raw(e.job) = <<e.job.at, e.job.hour>>
        BY <3>3, <2>4 DEF schedule_raw
      <4> QED BY <4>1, <3>1, <2>3
    <3> QED BY <3>2, <3>3
  <2> QED BY <2>2, <2>3, <2>4
<1> QED BY <1>4, <1>5, <1>6 DEF NamesInv

\* Every step of the generator keeps the invariant.
LEMMA NamesInductive == NamesInv /\ [Next]_vars => NamesInv'
<1> SUFFICES ASSUME NamesInv, [Next]_vars PROVE NamesInv'
  OBVIOUS
<1> USE DEF NextLine, reader, target
<1>1. CASE Open
  BY <1>1, ReaderSteps DEF Open, NamesInv, ReaderInv
<1>2. CASE SetVariable
  BY <1>2, ReaderSteps DEF SetVariable, AtLine, NamesInv, ReaderInv
<1>3. CASE SetInherit
  BY <1>3, ReaderSteps DEF SetInherit, AtLine, NamesInv, ReaderInv
<1>4. CASE Close
  BY <1>4, ReaderSteps DEF Close, NamesInv, ReaderInv
<1>5. CASE NextStage
  BY <1>5, ReaderSteps DEF NextStage, FilesOf, NamesInv, ReaderInv
<1>6. CASE SkipLine
  BY <1>6, ReaderSteps DEF SkipLine, AtLine, NamesInv, ReaderInv
<1>7. CASE StartJob
  BY <1>7, StartJobStep
<1>8. CASE Fail
  BY <1>8, WrittenStep DEF Fail
<1>9. CASE CreateFile \/ WriteFile \/ Link
  <2>1. step # "scan" /\ step' # "scan" /\ UNCHANGED <<conf, rebootFile, reader, seqs, job, name, done>>
    BY <1>9 DEF CreateFile, WriteFile, Link, Kinds, After
  <2>2. ReaderInv' /\ CurrentInv' /\ NamesApart'
    BY <2>1 DEF NamesInv, ReaderInv, CurrentInv, NamesApart, NameOf, schedule_raw
  <2> QED BY <2>2 DEF NamesInv
<1>10. CASE WriteService
  BY <1>10, WrittenStep DEF WriteService
<1>11. CASE Terminated \/ UNCHANGED vars
  <2>1. UNCHANGED vars
    BY <1>11 DEF Terminated
  <2> QED BY <2>1, ReaderSteps DEF vars, NamesInv, ReaderInv
<1> QED BY <1>1, <1>2, <1>3, <1>4, <1>5, <1>6, <1>7, <1>8, <1>9, <1>10, <1>11 DEF Next

\* In every run, whatever the crontabs and whichever writes fail: two jobs
\* share a unit only if it is named by a hash of the same command, and of the
\* same schedule if they are persistent (generate_unit_name()).
THEOREM UnitNamesApart == Spec => []NamesApart
<1>1. Init => NamesInv
  BY NamesInitially
<1>2. NamesInv /\ [Next]_vars => NamesInv'
  BY NamesInductive
<1>3. NamesInv => NamesApart
  BY DEF NamesInv
<1> QED BY <1>1, <1>2, <1>3, PTL DEF Spec

-----------------------------------------------------------------------------
(* The units in TARGET_DIR.                                                *)

\* A step of the reader leaves the units, and the job being written, alone.
LEMMA ReaderLeavesUnits ==
    ASSUME UnitsInv, UNCHANGED <<job, name, step, target, done>>
    PROVE  UnitsInv'
BY DEF UnitsInv, OutputInv, ServiceInv, ServicesEnabled, FailureIsLocal, Damaged, Failed, Complete, Whole, NeedsScript, target

\* The jobs written have names of their own kind, which NoName is not.
LEMMA NamesAreNames ==
    ASSUME NamesInv PROVE \A d \in done : d.name # NoName
<1> SUFFICES ASSUME NEW d \in done, d.name = NoName PROVE FALSE
  OBVIOUS
<1>1. NameOf(d.job, d.name)
  BY DEF NamesInv, ReaderInv
<1>2. d.name.kind \in {"seq", "hash", "part"}
  BY <1>1 DEF NameOf
<1>3. NoName.kind = ""
  BY DEF NoName
<1>4. d.name.kind = ""
  BY <1>3
<1> QED BY <1>2, <1>4

\* Writing the current file leaves the files of other names and kinds alone.
LEMMA PutStep ==
    ASSUME UnitsInv, step \in Kinds, NEW complete \in BOOLEAN, Put(complete)
    PROVE  /\ DOMAIN files' = Kinds
           /\ name \in DOMAIN files'[step] /\ files'[step][name] = [of |-> job, whole |-> complete]
           /\ \A k \in Kinds : \A n \in DOMAIN files[k] : n \in DOMAIN files'[k]
           /\ \A k \in Kinds : \A n \in DOMAIN files'[k] : n \in DOMAIN files[k] \/ (n = name /\ k = step)
           /\ \A k \in Kinds : \A n \in DOMAIN files[k] :
                 n # name \/ k # step => files'[k][n] = files[k][n]
<1>1. DOMAIN files = Kinds
  BY DEF UnitsInv, OutputInv
<1> DEFINE f == With(files[step], name, [of |-> job, whole |-> complete])
<1>2. /\ DOMAIN f = DOMAIN files[step] \cup {name} /\ f[name] = [of |-> job, whole |-> complete]
      /\ \A n \in DOMAIN files[step] : n # name => f[n] = files[step][n]
  BY DEF With
<1>3. files' = [files EXCEPT ![step] = f]
  BY DEF Put
<1> HIDE DEF f
<1>4. /\ DOMAIN files' = Kinds /\ files'[step] = f
      /\ \A k \in Kinds : k # step => files'[k] = files[k]
  BY <1>1, <1>3
<1> QED BY <1>2, <1>4

\* So the other files of the current name stay what they are,
LEMMA PutLeavesKinds ==
    ASSUME UnitsInv, step \in Kinds, NEW complete \in BOOLEAN, Put(complete),
           NEW k \in Kinds, NEW n, NEW j, n # name \/ k # step, Whole(k, n, j)
    PROVE  Whole(k, n, j)'
BY PutStep DEF Whole

\* the one it is at is written,
LEMMA PutWrites ==
    ASSUME UnitsInv, step \in Kinds, Put(TRUE), NEW k, k = step, NEW n, n = name, NEW j, j = job
    PROVE  Whole(k, n, j)'
<1>1. name \in DOMAIN files'[step] /\ files'[step][name] = [of |-> job, whole |-> TRUE]
  BY PutStep
<1> QED BY <1>1 DEF Whole

\* and a unit of another name stays complete.
LEMMA PutLeavesNames ==
    ASSUME UnitsInv, step \in Kinds, NEW complete \in BOOLEAN, Put(complete), links \subseteq links',
           NEW n, NEW j, n # name, Complete(n, j)
    PROVE  Complete(n, j)'
<1>1. "script" \in Kinds /\ "timer" \in Kinds /\ "service" \in Kinds
  BY DEF Kinds
<1>2. \A k \in Kinds : Whole(k, n, j) => Whole(k, n, j)'
  BY PutLeavesKinds
<1>3. Whole("timer", n, j)' /\ Whole("service", n, j)'
  BY <1>1, <1>2 DEF Complete
<1>4. NeedsScript(j) => Whole("script", n, j)'
  BY <1>1, <1>2 DEF Complete
<1> QED BY <1>3, <1>4 DEF Complete, NeedsScript

\* A name that is not taken over yet: all units of jobs written are theirs.
LEMMA StartJobUnits == ASSUME NamesInv, UnitsInv, StartJob PROVE UnitsInv'
<1>1. /\ step = "scan" /\ step' \in {"script", "timer"} /\ UNCHANGED <<filling, files, links, done>>
      /\ NeedsScript(job') => step' = "script"
  BY DEF StartJob, AtLine, target
<1>2. (\A d \in done : name # d.name) /\ name = NoName
  BY <1>1, NamesAreNames DEF UnitsInv, OutputInv
<1>3. OutputInv'
  BY <1>1 DEF UnitsInv, OutputInv, NeedsScript
<1>4. \A n \in DOMAIN files["service"] : n # name
  BY <1>1, <1>2 DEF UnitsInv, ServiceInv
<1>5. ServiceInv'
  BY <1>1 DEF UnitsInv, ServiceInv
<1>6. ServicesEnabled'
  BY <1>1, <1>4 DEF UnitsInv, ServicesEnabled, Damaged, Failed, Complete, Whole, NeedsScript
<1>7. FailureIsLocal'
  BY <1>1, <1>2 DEF UnitsInv, FailureIsLocal, Complete, Whole, NeedsScript
<1> QED BY <1>3, <1>5, <1>6, <1>7 DEF UnitsInv

\* A file that is created or written, and is not the last one.
LEMMA PutUnits ==
    ASSUME UnitsInv, step \in Kinds, NEW complete \in BOOLEAN, Put(complete),
           UNCHANGED <<job, name, links, done>>,
           \/ step' = step
           \/ complete /\ step = "script" /\ step' = "timer"
           \/ complete /\ step = "timer" /\ step' = "link"
    PROVE  UnitsInv'
<1>1. Kinds = {"script", "timer", "service"}
  BY DEF Kinds
<1>2. PICK u, y : u = name /\ y = job
  OBVIOUS
<1>3. OutputInv'
  <2>1. \A k \in Kinds : (k # step /\ Whole(k, u, y)) \/ (k = step /\ complete) => Whole(k, u, y)'
    BY <1>2, PutLeavesKinds, PutWrites
  <2>2. /\ "script" \in Kinds /\ "timer" \in Kinds
        /\ step \in {"timer", "link", "service"} /\ NeedsScript(y) => Whole("script", u, y)
        /\ step \in {"link", "service"} => Whole("timer", u, y)
        /\ step = "service" => name \in links
    BY <1>1, <1>2 DEF UnitsInv, OutputInv
  <2>3. \/ step' = step
        \/ complete /\ step = "script" /\ step' = "timer"
        \/ complete /\ step = "timer" /\ step' = "link"
    OBVIOUS
  <2>4. step' \in {"timer", "link", "service"} /\ NeedsScript(y) => Whole("script", u, y)'
    <3>1. CASE step = "script"
      BY <2>1, <2>2, <2>3, <3>1
    <3>2. CASE step # "script"
      <4>1. step' \in {"timer", "link", "service"} => step \in {"timer", "link", "service"}
        BY <1>1, <2>3, <3>2
      <4> QED BY <2>1, <2>2, <3>2, <4>1
    <3> QED BY <3>1, <3>2
  <2>5. step' \in {"link", "service"} => Whole("timer", u, y)'
    BY <1>1, <2>1, <2>2, <2>3
  <2>6. DOMAIN files' = Kinds /\ name' = u /\ job' = y /\ links' = links
    BY <1>2, PutStep
  <2>7. step' \in {"script", "timer", "link", "service"} /\ (step' = "service" => step = "service")
    BY <1>1, <2>3
  <2> QED BY <1>2, <2>2, <2>4, <2>5, <2>6, <2>7 DEF OutputInv, NeedsScript, Whole
<1>4. ServiceInv'
  BY <1>1, PutStep DEF UnitsInv, ServiceInv
<1>5. ASSUME NEW n \in DOMAIN files'["service"]
      PROVE  /\ n \in links /\ n \in DOMAIN files'["timer"]
             /\ n \notin Damaged \cup {name} => Complete(n, files["service"][n].of)'
  <2>1. CASE n \in DOMAIN files["service"]
    <3>1. /\ n \in links /\ n \in DOMAIN files["timer"]
          /\ n \notin Damaged \cup {name} => Complete(n, files["service"][n].of)
      BY <2>1 DEF UnitsInv, ServicesEnabled
    <3>2. n # name => files'["service"][n] = files["service"][n]
      BY <1>1, <2>1, PutStep
    <3>3. PICK i : i = files["service"][n].of
      OBVIOUS
    <3>4. n # name => (Complete(n, i) => Complete(n, i)')
      BY PutLeavesNames
    <3>5. n \notin Damaged \cup {name} => Complete(n, files["service"][n].of)'
      BY <3>1, <3>2, <3>3, <3>4 DEF Complete, Whole, NeedsScript
    <3> QED BY <1>1, <3>1, <3>5, PutStep
  <2>2. CASE n \notin DOMAIN files["service"]
    <3>1. n = name /\ step = "service"
      BY <1>1, <2>2, PutStep
    <3> QED BY <1>1, <3>1, PutStep DEF UnitsInv, OutputInv, Whole
  <2> QED BY <2>1, <2>2
<1>6. ServicesEnabled'
  BY <1>5 DEF ServicesEnabled, Damaged, Failed
<1>7. FailureIsLocal'
  <2>1. \A n, j : n # name /\ Complete(n, j) => Complete(n, j)'
    BY PutLeavesNames
  <2> QED BY <2>1 DEF UnitsInv, FailureIsLocal
<1> QED BY <1>3, <1>4, <1>6, <1>7 DEF UnitsInv

\* The link is only added.
LEMMA LinkUnits == ASSUME UnitsInv, Link PROVE UnitsInv'
<1>1. /\ step = "link" /\ step' = "service" /\ links' = links \cup {name}
      /\ UNCHANGED <<job, name, files, done>>
  BY DEF Link
<1>2. OutputInv' /\ ServiceInv'
  BY <1>1 DEF UnitsInv, OutputInv, ServiceInv, Whole, NeedsScript
<1>4. ServicesEnabled' /\ FailureIsLocal'
  BY <1>1 DEF UnitsInv, ServicesEnabled, FailureIsLocal, Damaged, Failed, Complete, Whole, NeedsScript
<1> QED BY <1>2, <1>4 DEF UnitsInv

\* The service completes a unit, and the job joins those written.
LEMMA WriteServiceUnits == ASSUME NamesInv, UnitsInv, WriteService PROVE UnitsInv'
<1> DEFINE w == [job |-> job, name |-> name, ok |-> TRUE]
<1>1. /\ step = "service" /\ step' = "scan" /\ name' = NoName /\ Put(TRUE)
      /\ done' = done \cup {w} /\ links' = links
  BY DEF WriteService, Written
<1>2. Kinds = {"script", "timer", "service"} /\ step \in Kinds
  BY <1>1 DEF Kinds
<1>0. PICK u, j : u = name /\ j = job
  OBVIOUS
<1>3. Complete(u, j)'
  <2>1. Whole("service", u, j)'
    BY <1>0, <1>1, <1>2, PutWrites
  <2>2. Whole("timer", u, j) /\ u \in links /\ (NeedsScript(j) => Whole("script", u, j))
    BY <1>0, <1>1 DEF UnitsInv, OutputInv
  <2>3. \A k \in Kinds : k # step /\ Whole(k, u, j) => Whole(k, u, j)'
    BY <1>0, <1>1, <1>2, PutLeavesKinds
  <2>4. Whole("timer", u, j)' /\ (NeedsScript(j) => Whole("script", u, j)')
    BY <1>1, <1>2, <2>2, <2>3
  <2> QED BY <1>1, <2>1, <2>2, <2>4 DEF Complete, NeedsScript
<1>4. \A n, i : n # name /\ Complete(n, i) => Complete(n, i)'
  BY <1>1, <1>2, PutLeavesNames
<1>5. OutputInv'
  BY <1>1, <1>2, PutStep DEF OutputInv
<1>6. ServiceInv'
  <2>1. \A n \in DOMAIN files'["service"] : n \in DOMAIN files["service"] \/ n = name
    BY <1>1, <1>2, PutStep
  <2>2. w \in done' /\ w.name = name
    BY <1>1
  <2> HIDE DEF w
  <2> QED BY <1>1, <2>1, <2>2 DEF UnitsInv, ServiceInv
<1>7. ServicesEnabled'
  <2> SUFFICES ASSUME NEW n \in DOMAIN files'["service"]
               PROVE  /\ n \in links /\ n \in DOMAIN files'["timer"]
                      /\ n \notin Damaged' => Complete(n, files["service"][n].of)'
    BY <1>1 DEF ServicesEnabled
  <2>1. CASE n = name
    <3>1. files'["service"][n] = [of |-> job, whole |-> TRUE]
      BY <1>1, <1>2, <2>1, PutStep
    <3>2. files["service"][n].of' = job
      BY <3>1
    <3> QED BY <1>0, <1>1, <1>3, <2>1, <3>2 DEF Complete, Whole, NeedsScript
  <2>2. CASE n # name
    <3>1. n \in DOMAIN files["service"] /\ files'["service"][n] = files["service"][n]
      BY <1>1, <1>2, <2>2, PutStep
    <3>2. /\ n \in links /\ n \in DOMAIN files["timer"]
          /\ n \notin Damaged \cup {name} => Complete(n, files["service"][n].of)
      BY <3>1 DEF UnitsInv, ServicesEnabled
    <3>3. Damaged \subseteq Damaged'
      BY <1>1 DEF Damaged, Failed
    <3>4. PICK i : i = files["service"][n].of
      OBVIOUS
    <3>5. n \notin Damaged \cup {name} => Complete(n, i)'
      BY <1>4, <2>2, <3>2, <3>4
    <3>6. n \notin Damaged' => Complete(n, files["service"][n].of)'
      BY <2>2, <3>1, <3>3, <3>4, <3>5 DEF Complete, Whole, NeedsScript
    <3> QED BY <1>1, <1>2, <3>1, <3>2, <3>6, PutStep
  <2> QED BY <2>1, <2>2
<1>8. FailureIsLocal'
  <2> SUFFICES ASSUME NEW d \in done', d.ok, \A e \in done' : e.name = d.name => e = d
               PROVE  Complete(d.name, d.job)'
    BY <1>1 DEF FailureIsLocal
  <2>1. CASE d.name = name
    <3>1. w \in done' /\ w.name = name /\ w.job = job
      BY <1>1
    <3>2. d = w
      BY <2>1, <3>1
    <3> HIDE DEF w
    <3>3. d.name = u /\ d.job = j
      BY <1>0, <2>1, <3>1, <3>2
    <3> QED BY <1>3, <3>3
  <2>2. CASE d.name # name
    <3>1. d \in done
      BY <1>1, <2>2
    <3>2. Complete(d.name, d.job)
      BY <1>1, <2>2, <3>1 DEF UnitsInv, FailureIsLocal
    <3> QED BY <1>4, <2>2, <3>2
  <2> QED BY <2>1, <2>2
<1> QED BY <1>5, <1>6, <1>7, <1>8 DEF UnitsInv

\* A call that fails may leave the unit of an earlier job of that name
\* in pieces, and no other.
LEMMA FailUnits == ASSUME UnitsInv, Fail PROVE UnitsInv'
<1> DEFINE w == [job |-> job, name |-> name, ok |-> FALSE]
<1>1. /\ step' = "scan" /\ name' = NoName /\ done' = done \cup {w}
      /\ UNCHANGED <<files, links>>
  BY DEF Fail, Written
<1>2. OutputInv' /\ ServiceInv'
  <2>1. w \in done' /\ w.name = name
    BY <1>1
  <2> HIDE DEF w
  <2> QED BY <1>1, <2>1 DEF UnitsInv, OutputInv, ServiceInv
<1>3. Damaged \cup {name} \subseteq Damaged'
  <2>1. Failed \cup {w} \subseteq Failed' /\ w.name = name
    BY <1>1 DEF Failed
  <2> HIDE DEF w
  <2> QED BY <2>1 DEF Damaged
<1>4. ServicesEnabled'
  BY <1>1, <1>3 DEF UnitsInv, ServicesEnabled, Complete, Whole, NeedsScript
<1>5. FailureIsLocal'
  <2> SUFFICES ASSUME NEW d \in done', d.ok, \A e \in done' : e.name = d.name => e = d
               PROVE  Complete(d.name, d.job)'
    BY <1>1 DEF FailureIsLocal
  <2>1. d # w /\ d \in done /\ w \in done'
    BY <1>1
  <2>2. name # d.name
    BY <2>1
  <2>3. Complete(d.name, d.job)
    <3>1. \A e \in done : e.name = d.name => e = d
      BY <1>1
    <3> HIDE DEF w
    <3> QED BY <2>1, <2>2, <3>1 DEF UnitsInv, FailureIsLocal
  <2> HIDE DEF w
  <2> QED BY <1>1, <2>3 DEF Complete, Whole, NeedsScript
<1> QED BY <1>2, <1>4, <1>5 DEF UnitsInv

\* Every step of the generator keeps the invariant.
LEMMA UnitsInductive == NamesInv /\ UnitsInv /\ [Next]_vars => UnitsInv'
<1> SUFFICES ASSUME NamesInv, UnitsInv, [Next]_vars PROVE UnitsInv'
  OBVIOUS
<1>1. CASE Open \/ SetVariable \/ SetInherit \/ Close \/ NextStage \/ SkipLine \/ Terminated \/ UNCHANGED vars
  <2>1. UNCHANGED <<job, name, step, target, done>>
    BY <1>1 DEF Open, SetVariable, SetInherit, Close, NextStage, SkipLine, Terminated, vars
  <2> QED BY <2>1, ReaderLeavesUnits
<1>2. CASE CreateFile
  BY <1>2, PutUnits DEF CreateFile
<1>3. CASE WriteFile
  BY <1>3, PutUnits DEF WriteFile, After, Kinds
<1> QED BY <1>1, <1>2, <1>3, StartJobUnits, LinkUnits, WriteServiceUnits, FailUnits DEF Next

\* UnitsInv holds throughout.
LEMMA UnitsInvariant == Spec => []UnitsInv
<1>1. Init => NamesInv /\ UnitsInv
  BY NamesInitially DEF Init, UnitsInv, OutputInv, ServiceInv, ServicesEnabled, FailureIsLocal, NoFiles, Kinds
<1>2. NamesInv /\ UnitsInv /\ [Next]_vars => NamesInv' /\ UnitsInv'
  BY NamesInductive, UnitsInductive
<1> QED BY <1>1, <1>2, PTL DEF Spec

\* At every moment of a run, whichever calls of output() have failed: a service
\* that is there has a timer and a link to it, and unless output() is at work
\* on the unit, or has failed on its name, which truncates what was there, the
\* unit is complete, and all of it is made of one job.
THEOREM ServicesAreEnabled == Spec => []ServicesEnabled
<1>1. UnitsInv => ServicesEnabled
  BY DEF UnitsInv
<1> QED BY <1>1, UnitsInvariant, PTL

\* A failure of output() costs that job only: every job that succeeded, and
\* shares its name with no other, has its scriptlet if it needs one, its
\* timer, its link and its service, complete.
THEOREM FailuresAreLocal == Spec => []FailureIsLocal
<1>1. UnitsInv => FailureIsLocal
  BY DEF UnitsInv
<1> QED BY <1>1, UnitsInvariant, PTL

-----------------------------------------------------------------------------
(* What the crontabs ask for.                                              *)


\* The greatest of numbers to which one above them all is added.
LEMMA LastAdded ==
    ASSUME NEW i \in Nat, NEW S \in SUBSET (1..(i - 1)) PROVE LastOf(S \cup {i}) = i
<1> DEFINE P(k) == k \in S \cup {i} /\ \A m \in S \cup {i} : m <= k
<1>1. P(i)
  OBVIOUS
<1>2. \A k : P(k) => k = i
  OBVIOUS
<1> QED BY <1>1, <1>2 DEF LastOf

\* A line sets one variable, for the lines below it.
LEMMA SettersBelow ==
    ASSUME NEW f, NEW i \in Nat \ {0}, NEW v
    PROVE  Setters(f, i + 1, v) = IF conf[f][i].is = "variable" /\ conf[f][i].var = v
                                  THEN Setters(f, i, v) \cup {i} ELSE Setters(f, i, v)
BY DEF Setters

LEMMA ValueBelow ==
    ASSUME NEW f, NEW i \in Nat \ {0}, NEW v, NEW x
    PROVE  ValueAt(f, i + 1, v, x) =
             IF conf[f][i].is = "variable" /\ conf[f][i].var = v THEN conf[f][i].val
             ELSE ValueAt(f, i, v, x)
<1>1. CASE conf[f][i].is = "variable" /\ conf[f][i].var = v
  <2>1. Setters(f, i + 1, v) = Setters(f, i, v) \cup {i}
    BY <1>1, SettersBelow
  <2>2. Setters(f, i, v) \in SUBSET (1..(i - 1))
    BY DEF Setters
  <2>3. LastOf(Setters(f, i + 1, v)) = i /\ Setters(f, i + 1, v) # {}
    BY <2>1, <2>2, LastAdded
  <2> QED BY <1>1, <2>3 DEF ValueAt
<1>2. CASE ~(conf[f][i].is = "variable" /\ conf[f][i].var = v)
  BY <1>2, SettersBelow DEF ValueAt
<1> QED BY <1>1, <1>2

\* A file starts with what it is given.
LEMMA ValueOnTop ==
    ASSUME NEW f, NEW v, NEW x PROVE ValueAt(f, 1, v, x) = x /\ Setters(f, 1, v) = {}
BY DEF ValueAt, Setters

\* CRON_INHERIT_VARIABLES holds for the lines below it.
LEMMA NamesBelow ==
    ASSUME NEW f, NEW i \in Nat \ {0}, NEW v
    PROVE  Names(f, i + 1, v) <=> IF conf[f][i].is = "inherit" THEN v \in conf[f][i].vars
                                  ELSE Names(f, i, v)
<1>1. CASE conf[f][i].is = "inherit"
  <2>1. ASSUME v \in conf[f][i].vars PROVE Names(f, i + 1, v)
    <3>1. i \in 1..(i + 1 - 1) /\ \A m \in (i + 1)..(i + 1 - 1) : conf[f][m].is # "inherit"
      OBVIOUS
    <3> QED BY <1>1, <2>1, <3>1 DEF Names
  <2>2. ASSUME Names(f, i + 1, v) PROVE v \in conf[f][i].vars
    <3>1. PICK k \in 1..(i + 1 - 1) : /\ v \in conf[f][k].vars
                                      /\ \A m \in (k + 1)..(i + 1 - 1) : conf[f][m].is # "inherit"
      BY <2>2 DEF Names
    <3>2. k = i
      BY <1>1, <3>1
    <3> QED BY <3>1, <3>2
  <2> QED BY <1>1, <2>1, <2>2
<1>2. CASE conf[f][i].is # "inherit"
  <2>1. ASSUME Names(f, i, v) PROVE Names(f, i + 1, v)
    <3>1. PICK k \in 1..(i - 1) : /\ conf[f][k].is = "inherit" /\ v \in conf[f][k].vars
                                  /\ \A m \in (k + 1)..(i - 1) : conf[f][m].is # "inherit"
      BY <2>1 DEF Names
    <3>2. k \in 1..(i + 1 - 1) /\ \A m \in (k + 1)..(i + 1 - 1) : conf[f][m].is # "inherit"
      BY <3>1, <1>2
    <3> QED BY <3>1, <3>2 DEF Names
  <2>2. ASSUME Names(f, i + 1, v) PROVE Names(f, i, v)
    <3>1. PICK k \in 1..(i + 1 - 1) : /\ conf[f][k].is = "inherit" /\ v \in conf[f][k].vars
                                      /\ \A m \in (k + 1)..(i + 1 - 1) : conf[f][m].is # "inherit"
      BY <2>2 DEF Names
    <3>2. k \in 1..(i - 1) /\ \A m \in (k + 1)..(i - 1) : conf[f][m].is # "inherit"
      BY <3>1, <1>2
    <3> QED BY <3>1, <3>2 DEF Names
  <2> QED BY <1>2, <2>1, <2>2
<1> QED BY <1>1, <1>2

LEMMA NoneOnTop == ASSUME NEW f, NEW v PROVE ~Names(f, 1, v)
BY DEF Names

\* What the crontabs ask for depends on them alone, and on which could be read.
LEMMA SameValues ==
    ASSUME UNCHANGED conf
    PROVE  /\ \A f, i, v : Setters(f, i, v)' = Setters(f, i, v)
           /\ \A f, i, v, x : ValueAt(f, i, v, x)' = ValueAt(f, i, v, x)
           /\ \A f, i, v : Names(f, i, v)' <=> Names(f, i, v)
<1>1. \A f, i, v : Setters(f, i, v)' = Setters(f, i, v)
  BY DEF Setters
<1>2. \A f, i, v, x : ValueAt(f, i, v, x)' = ValueAt(f, i, v, x)
  BY <1>1 DEF ValueAt
<1>3. \A f, i, v : Names(f, i, v)' <=> Names(f, i, v)
  BY DEF Names
<1> QED BY <1>1, <1>2, <1>3

LEMMA SameTop ==
    ASSUME UNCHANGED conf, Top' = Top
    PROVE  /\ \A v : AtTop(v)' = AtTop(v)
           /\ \A v : TopGives(v)' = TopGives(v)
           /\ \A f, v : Inherited(f, v)' = Inherited(f, v)
<1>1. \A v : AtTop(v)' = AtTop(v)
  BY SameValues DEF AtTop
<1>2. \A v : TopGives(v)' = TopGives(v)
  BY <1>1, SameValues DEF TopGives
<1>3. \A f, v : Inherited(f, v)' = Inherited(f, v)
  BY <1>2 DEF Inherited
<1> QED BY <1>1, <1>2, <1>3

LEMMA SameAsked ==
    ASSUME UNCHANGED <<conf, rebootFile>>, Top' = Top
    PROVE  /\ \A f, i : Asked(f, i)' = Asked(f, i)
           /\ \A f, i : Wanted(f, i)' <=> Wanted(f, i)
<1>1. \A f, i : Asked(f, i)' = Asked(f, i)
  <2> TAKE f, i
  <2>1. \A v : InForce(f, i, v)' = InForce(f, i, v)
    BY SameValues, SameTop DEF InForce
  <2>2. MailtoAt(f, i)' = MailtoAt(f, i)
    BY SameValues, SameTop DEF MailtoAt
  <2>3. SuccessAt(f, i)' = SuccessAt(f, i)
    BY <2>1, SameTop DEF SuccessAt
  <2>4. PersistentAt(f, i)' = PersistentAt(f, i)
    <3>1. PersistentAt(f, i)' <=> PersistentAt(f, i)
      BY <2>1 DEF PersistentAt
    <3>2. PersistentAt(f, i)' \in BOOLEAN /\ PersistentAt(f, i) \in BOOLEAN
      BY DEF PersistentAt
    <3> QED BY <3>1, <3>2
  <2>5. UniqueAt(f, i)' = UniqueAt(f, i)
    BY <2>1 DEF UniqueAt
  <2> QED BY <2>1, <2>2, <2>3, <2>4, <2>5 DEF Asked
<1>2. \A f, i : Wanted(f, i)' <=> Wanted(f, i)
  BY DEF Wanted
<1> QED BY <1>1, <1>2

\* /etc/crontab is the only one of its kind.
LEMMA OneTop ==
    ASSUME NEW c \in Top PROVE Top = {c} /\ \A v : AtTop(v) = ValueAt(c, Len(conf[c]) + 1, v, Unset)
<1>1. Top = {c}
  BY CrontabAssumption DEF Top
<1>2. (CHOOSE t \in Top : TRUE) = c
  BY <1>1
<1> QED BY <1>1, <1>2 DEF AtTop

\* Of three settings the first that says when counts.
LEMMA FirstOfThree ==
    ASSUME NEW a, NEW b
    PROVE  FirstSaid(<<a, b, Dflt>>) = SuccessOf(a, SuccessOf(b, Dflt))
<1> DEFINE vs == <<a, b, Dflt>>
           W == {"always", "nonempty", "never"}
           S == {i \in 1..Len(vs) : vs[i] \in W}
<1>1. Len(vs) = 3 /\ vs[1] = a /\ vs[2] = b /\ vs[3] = Dflt /\ Dflt \in W
  BY DEF Dflt
<1>2. FirstSaid(vs) = vs[CHOOSE i \in S : \A k \in S : i <= k]
  BY DEF FirstSaid
<1> HIDE DEF vs, W
<1>3. CASE a \in W
  <2>1. 1 \in S /\ S \subseteq 1..3
    BY <1>1, <1>3
  <2>2. (CHOOSE i \in S : \A k \in S : i <= k) = 1
    <3> HIDE DEF S
    <3>1. 1 \in S /\ \A k \in S : 1 <= k
      BY <2>1
    <3>2. \A i \in S : (\A k \in S : i <= k) => i = 1
      BY <2>1
    <3> QED BY <3>1, <3>2
  <2> QED BY <1>1, <1>2, <1>3, <2>2 DEF SuccessOf, vs, W
<1>4. CASE a \notin W /\ b \in W
  <2>1. 1 \notin S /\ 2 \in S /\ S \subseteq 1..3
    BY <1>1, <1>4
  <2>2. (CHOOSE i \in S : \A k \in S : i <= k) = 2
    <3> HIDE DEF S
    <3>1. 2 \in S /\ \A k \in S : 2 <= k
      BY <2>1
    <3>2. \A i \in S : (\A k \in S : i <= k) => i = 2
      BY <2>1
    <3> QED BY <3>1, <3>2
  <2> QED BY <1>1, <1>2, <1>4, <2>2 DEF SuccessOf, vs, W
<1>5. CASE a \notin W /\ b \notin W
  <2>1. S = {3}
    BY <1>1, <1>5
  <2>2. (CHOOSE i \in S : \A k \in S : i <= k) = 3
    <3> HIDE DEF S
    <3> QED BY <2>1
  <2> QED BY <1>1, <1>2, <1>5, <2>2 DEF SuccessOf, vs, W
<1> QED BY <1>3, <1>4, <1>5

\* How a map that gives a value is read.
LEMMA GetGiven ==
    ASSUME NEW m, NEW v, NEW x, NEW d, Gives(m, v, x), v # "PERSISTENT"
    PROVE  Get(m, v, d) = IF x = Unset THEN d ELSE x
BY DEF Gives, Get

\* What /etc/crontab leaves is known from its end on.
LEMMA TopIsKnown ==
    ASSUME PlaceInv, NEW f \in FilesOf(stage) \ unread, cur = f \/ f \in todo
    PROVE  /\ Stage[f] = ETC_CRONTAB => f \in Top /\ Pending
           /\ Stage[f] # ETC_CRONTAB => ~Pending
           /\ f \in File /\ f \in DOMAIN conf /\ Stage[f] = stage /\ f \notin Skipped
<1>1. f \in File /\ f \in DOMAIN conf /\ Stage[f] = stage /\ f \notin Skipped /\ f \notin unread
  BY DEF FilesOf
<1>2. Stage[f] = ETC_CRONTAB => f \in Top /\ Pending
  BY <1>1 DEF Top, Readable, Pending
<1>3. ASSUME Stage[f] # ETC_CRONTAB, NEW c \in Top, c \in todo \/ c = cur PROVE FALSE
  <2>1. c \in FilesOf(stage)
    BY <1>3, FileAssumption DEF PlaceInv, Top
  <2> QED BY <1>1, <1>3, <2>1 DEF FilesOf, Top
<1> QED BY <1>1, <1>2, <1>3 DEF Pending

\* The job that parse_crontab() makes of a line has the settings asked for.
LEMMA JobHasSettings ==
    ASSUME PlaceInv, EnvInv, TopInv, cur # NoFile
    PROVE  Settings(JobOf(cur, ln, Line, env)) = Asked(cur, ln)
<1>1. cur \in FilesOf(stage) \ unread
  BY DEF PlaceInv
<1>2. /\ Stage[cur] = ETC_CRONTAB => toplevel = [mailto |-> Unset, success |-> Dflt]
      /\ Stage[cur] # ETC_CRONTAB => /\ toplevel.mailto = AtTop("MAILTO")
                                     /\ toplevel.success = SuccessOf(AtTop("CRON_MAIL_SUCCESS"), Dflt)
  BY <1>1, TopIsKnown DEF TopInv
<1>3. \A v \in Decoded : Gives(env, v, InForce(cur, ln, v))
  BY DEF EnvInv
<1>4. Get(env, "TZ", "") = InForce(cur, ln, "TZ")
  <2>1. \A d : Get(env, "TZ", d) = IF InForce(cur, ln, "TZ") = Unset THEN d ELSE InForce(cur, ln, "TZ")
    BY <1>3, GetGiven DEF Decoded
  <2> QED BY <2>1 DEF Unset
<1>5. Get(env, "MAILTO", Fallback(cur)) = MailtoAt(cur, ln)
  <2>1. Get(env, "MAILTO", Fallback(cur)) =
          IF InForce(cur, ln, "MAILTO") = Unset THEN Fallback(cur) ELSE InForce(cur, ln, "MAILTO")
    BY <1>3, GetGiven DEF Decoded
  <2>2. CASE Stage[cur] \in {CRON_D, RUN_PARTS}
    <3>1. /\ Fallback(cur) = AtTop("MAILTO")
          /\ MailtoAt(cur, ln) = ValueAt(cur, ln, "MAILTO", AtTop("MAILTO"))
          /\ InForce(cur, ln, "MAILTO") = ValueAt(cur, ln, "MAILTO", TopGives("MAILTO"))
      BY <1>2, <2>2 DEF Fallback, MailtoAt, InForce, Inherited, ETC_CRONTAB, CRON_D, RUN_PARTS, ANACRONTAB
    <3>2. CASE Setters(cur, ln, "MAILTO") = {}
      BY <2>1, <3>1, <3>2 DEF ValueAt, TopGives
    <3>3. CASE Setters(cur, ln, "MAILTO") # {}
      <4>1. ValueAt(cur, ln, "MAILTO", Unset) # Unset
        BY <3>3 DEF EnvInv, Decoded
      <4> QED BY <2>1, <3>1, <3>3, <4>1 DEF ValueAt
    <3> QED BY <3>2, <3>3
  <2>3. CASE Stage[cur] \notin {CRON_D, RUN_PARTS}
    BY <2>1, <2>3 DEF Fallback, MailtoAt, InForce
  <2> QED BY <2>2, <2>3
<1>6. MailSuccess(env, IF Stage[cur] = ETC_CRONTAB THEN Dflt ELSE toplevel.success) = SuccessAt(cur, ln)
  <2> DEFINE d == IF Stage[cur] = ETC_CRONTAB THEN Dflt ELSE toplevel.success
             x == InForce(cur, ln, "CRON_MAIL_SUCCESS")
             t == IF Stage[cur] = ETC_CRONTAB THEN Unset ELSE AtTop("CRON_MAIL_SUCCESS")
  <2>1. Get(env, "CRON_MAIL_SUCCESS", "inherit") = IF x = Unset THEN "inherit" ELSE x
    BY <1>3, GetGiven DEF Decoded
  <2>2. MailSuccess(env, d) = SuccessOf(x, d)
    BY <2>1 DEF MailSuccess, SuccessOf, Unset
  <2>3. d = SuccessOf(t, Dflt)
    BY <1>2 DEF SuccessOf, Unset
  <2>4. SuccessAt(cur, ln) = FirstSaid(<<x, t, Dflt>>)
    BY DEF SuccessAt
  <2> HIDE DEF x, t, d
  <2>5. MailSuccess(env, d) = SuccessAt(cur, ln)
    BY <2>2, <2>3, <2>4, FirstOfThree
  <2> QED BY <2>5 DEF d
<1>7. (Get(env, "CRON_UNIQUE_UNITS", "no") = "yes") = UniqueAt(cur, ln)
  <2>1. Get(env, "CRON_UNIQUE_UNITS", "no") =
          IF InForce(cur, ln, "CRON_UNIQUE_UNITS") = Unset THEN "no"
          ELSE InForce(cur, ln, "CRON_UNIQUE_UNITS")
    BY <1>3, GetGiven DEF Decoded
  <2> QED BY <2>1 DEF UniqueAt, Unset
<1>8. Persistent(Line, env) = PersistentAt(cur, ln)
  <2>1. Gives(env, "PERSISTENT", InForce(cur, ln, "PERSISTENT"))
    BY <1>3 DEF Decoded
  <2>2. Persistent(Line, env) <=> PersistentAt(cur, ln)
    BY <2>1 DEF Persistent, PersistentAt, Gives, Get, Line, Unset, NoPeriod
  <2>3. Persistent(Line, env) \in BOOLEAN /\ PersistentAt(cur, ln) \in BOOLEAN
    BY DEF Persistent, PersistentAt
  <2> QED BY <2>2, <2>3
<1> QED BY <1>4, <1>5, <1>6, <1>7, <1>8 DEF Settings, JobOf, Asked

-----------------------------------------------------------------------------
(* Where the generator is. *)

\* Every step keeps PlaceInv.
LEMMA PlaceInductive == NamesInv /\ PlaceInv /\ [Next]_vars => PlaceInv'
<1> SUFFICES ASSUME NamesInv, PlaceInv, [Next]_vars PROVE PlaceInv'
  OBVIOUS
<1> USE FileAssumption DEF NextLine, reader, PlaceInv
<1>0. cur # NoFile => Len(conf[cur]) \in Nat
  BY ConfigAssumption DEF NamesInv, ReaderInv
<1>1. CASE Open
  <2>1. PICK f \in todo :
          /\ todo' = todo \ {f}
          /\ \/ cur' = f /\ ln' = 1 /\ UNCHANGED unread
             \/ unread' = unread \cup {f} /\ UNCHANGED <<cur, ln>>
    BY <1>1 DEF Open
  <2>2. f \in FilesOf(stage) /\ f \notin unread /\ f \in File /\ Stage[f] = stage /\ f \in DOMAIN conf
    BY <2>1 DEF FilesOf
  <2>3. Len(conf[f]) \in Nat
    BY <2>2, ConfigAssumption DEF NamesInv, ReaderInv
  <2>4. UNCHANGED <<conf, stage, step>> /\ cur = NoFile /\ stage \in Stages
    BY <1>1 DEF Open
  <2>5. FilesOf(stage)' = FilesOf(stage)
    BY <2>4 DEF FilesOf
  <2>6. \A g \in unread' : g \in File /\ Stage[g] <= stage /\ g \notin todo'
    BY <2>1, <2>2
  <2>7. cur' # NoFile => /\ cur' \in FilesOf(stage) \ (todo' \cup unread')
                         /\ ln' \in 1..(Len(conf[cur']) + 1)
    BY <2>1, <2>2, <2>3, <2>4
  <2> QED BY <2>1, <2>4, <2>5, <2>6, <2>7
<1>2. CASE SetVariable \/ SetInherit \/ SkipLine \/ StartJob
  <2>1. /\ UNCHANGED <<conf, stage, todo, cur, unread>> /\ ln' = ln + 1
        /\ cur # NoFile /\ ln <= Len(conf[cur])
    BY <1>2 DEF SetVariable, SetInherit, SkipLine, StartJob, AtLine
  <2>2. FilesOf(stage)' = FilesOf(stage)
    BY <2>1 DEF FilesOf
  <2> QED BY <1>0, <2>1, <2>2
<1>3. CASE Close
  <2>1. UNCHANGED <<conf, stage, todo, step, unread>> /\ cur' = NoFile /\ step = "scan"
    BY <1>3 DEF Close
  <2>2. FilesOf(stage)' = FilesOf(stage)
    BY <2>1 DEF FilesOf
  <2> QED BY <2>1, <2>2
<1>4. CASE NextStage
  <2>1. /\ UNCHANGED <<conf, cur, step, unread>> /\ cur = NoFile
        /\ stage' = stage + 1 /\ todo' = FilesOf(stage + 1)
    BY <1>4 DEF NextStage
  <2>2. FilesOf(stage + 1) = FilesOf(stage)'
    BY <2>1 DEF FilesOf
  <2>3. \A g \in unread : g \notin FilesOf(stage + 1)
    BY DEF FilesOf
  <2> QED BY <2>1, <2>2, <2>3 DEF Stages
<1>5. CASE Fail \/ CreateFile \/ WriteFile \/ Link \/ WriteService
  <2>1. UNCHANGED <<conf, stage, todo, cur, ln, unread>> /\ step # "scan"
    BY <1>5 DEF Fail, CreateFile, WriteFile, Link, WriteService, Kinds
  <2>2. FilesOf(stage)' = FilesOf(stage)
    BY <2>1 DEF FilesOf
  <2> QED BY <2>1, <2>2
<1>6. CASE Terminated \/ UNCHANGED vars
  <2>1. UNCHANGED <<conf, stage, todo, cur, ln, step, unread>>
    BY <1>6 DEF Terminated, vars
  <2>2. FilesOf(stage)' = FilesOf(stage)
    BY <2>1 DEF FilesOf
  <2> QED BY <2>1, <2>2
<1> QED BY <1>1, <1>2, <1>3, <1>4, <1>5, <1>6 DEF Next

\* A file that is read cannot be /etc/crontab before it: what it inherits is known.
LEMMA OpenSettings ==
    ASSUME PlaceInv, TopInv, NEW f \in todo PROVE \A v \in Decoded : Gives(OpenEnv(f), v, Inherited(f, v))
<1>1. f \in FilesOf(stage) \ unread
  BY DEF PlaceInv
<1>2. CASE Stage[f] \in {ETC_CRONTAB, ANACRONTAB}
  BY <1>2 DEF OpenEnv, Inherited, Gives, NoVars
<1>3. CASE Stage[f] \notin {ETC_CRONTAB, ANACRONTAB}
  <2>1. \A v \in Decoded : Gives(inherit, v, TopGives(v))
    BY <1>1, <1>3, TopIsKnown DEF TopInv
  <2> QED BY <1>3, <2>1 DEF OpenEnv, Inherited
<1> QED BY <1>2, <1>3

\* Every step keeps EnvInv.
LEMMA EnvInductive == NamesInv /\ PlaceInv /\ EnvInv /\ TopInv /\ [Next]_vars => EnvInv'
<1> SUFFICES ASSUME NamesInv, PlaceInv, EnvInv, TopInv, [Next]_vars, cur' # NoFile, NEW v \in Decoded
             PROVE  /\ Gives(env, v, InForce(cur, ln, v))'
                    /\ (Setters(cur, ln, v) # {} => ValueAt(cur, ln, v, Unset) # Unset)'
                    /\ (v \in inheritNames <=> Names(cur, ln, v))'
  BY DEF EnvInv, Decoded
<1> USE DEF NextLine, reader
<1>1. CASE Open /\ cur' # cur
  <2>1. PICK f \in todo : /\ cur' = f /\ ln' = 1 /\ env' = OpenEnv(f) /\ inheritNames' = {}
                          /\ UNCHANGED <<unread, conf>>
    BY <1>1 DEF Open
  <2>2. Gives(env', v, Inherited(f, v))
    BY <2>1, OpenSettings
  <2>3. Top' = Top
    BY <2>1 DEF Top, Readable
  <2>4. InForce(cur, ln, v)' = Inherited(f, v)
    BY <2>1, <2>3, SameValues, SameTop, ValueOnTop DEF InForce
  <2>5. Setters(cur, ln, v)' = {} /\ ~Names(cur, ln, v)'
    BY <2>1, SameValues, ValueOnTop, NoneOnTop
  <2> QED BY <2>1, <2>2, <2>4, <2>5
<1>2. CASE Open /\ cur' = cur
  BY <1>2 DEF Open
<1>3. CASE SetVariable \/ SetInherit \/ SkipLine \/ StartJob
  <2>1. /\ UNCHANGED <<conf, cur, unread>> /\ ln' = ln + 1 /\ AtLine
        /\ env' = IF Line.is # "variable" THEN env
                  ELSE IF Line.var = "PERSISTENT" /\ Line.val = "auto"
                  THEN Without(env, "PERSISTENT") ELSE With(env, Line.var, Line.val)
        /\ inheritNames' = IF Line.is = "inherit" THEN Line.vars ELSE inheritNames
    BY <1>3 DEF SetVariable, SetInherit, SkipLine, StartJob
  <2>2. ln \in Nat \ {0} /\ ln \in 1..Len(conf[cur]) /\ cur \in DOMAIN conf /\ conf \in Configs
    <3>1. cur \in DOMAIN conf /\ conf \in Configs /\ ln \in Nat \ {0} /\ ln <= Len(conf[cur])
      BY <2>1 DEF AtLine, NamesInv, ReaderInv
    <3>2. Len(conf[cur]) \in Nat
      BY <3>1, ConfigAssumption
    <3> QED BY <3>1, <3>2
  <2>3. Top' = Top
    BY <2>1 DEF Top, Readable
  <2>4. \A x : ValueAt(cur, ln, v, x)' = IF Line.is = "variable" /\ Line.var = v THEN Line.val
                                         ELSE ValueAt(cur, ln, v, x)
    <3>1. \A x : ValueAt(cur, ln, v, x)' = ValueAt(cur, ln + 1, v, x)
      BY <2>1, SameValues
    <3> QED BY <2>2, <3>1, ValueBelow DEF Line
  <2>5. InForce(cur, ln, v)' = IF Line.is = "variable" /\ Line.var = v THEN Line.val ELSE InForce(cur, ln, v)
    BY <2>1, <2>3, <2>4, SameTop DEF InForce
  <2>6. Line.is = "variable" => Line.val # Unset
    BY <2>2, ConfigAssumption DEF Line, Unset
  <2>7. Gives(env, v, InForce(cur, ln, v)) /\ (Setters(cur, ln, v) # {} => ValueAt(cur, ln, v, Unset) # Unset)
        /\ (v \in inheritNames <=> Names(cur, ln, v))
    BY <2>1 DEF EnvInv, AtLine
  <2>8. Gives(env, v, InForce(cur, ln, v))'
    BY <2>1, <2>5, <2>6, <2>7 DEF Gives, With, Without
  <2>9. (Setters(cur, ln, v) # {} => ValueAt(cur, ln, v, Unset) # Unset)'
    <3>1. Setters(cur, ln, v)' = Setters(cur, ln + 1, v)
      BY <2>1, SameValues
    <3>2. Setters(cur, ln, v)' # {} => (Line.is = "variable" /\ Line.var = v) \/ Setters(cur, ln, v) # {}
      BY <2>2, <3>1, SettersBelow DEF Line
    <3>3. ValueAt(cur, ln, v, Unset)' = IF Line.is = "variable" /\ Line.var = v THEN Line.val
                                        ELSE ValueAt(cur, ln, v, Unset)
      BY <2>4 DEF Unset
    <3> QED BY <2>6, <2>7, <3>2, <3>3
  <2>10. (v \in inheritNames <=> Names(cur, ln, v))'
    BY <2>1, <2>2, <2>7, SameValues, NamesBelow DEF Line
  <2> QED BY <2>8, <2>9, <2>10
<1>4. CASE Close
  BY <1>4 DEF Close
<1>5. CASE NextStage
  BY <1>5 DEF NextStage
<1>6. CASE Fail \/ CreateFile \/ WriteFile \/ Link \/ WriteService \/ Terminated \/ UNCHANGED vars
  <2>1. UNCHANGED <<conf, cur, ln, env, inheritNames, unread>>
    BY <1>6 DEF Fail, CreateFile, WriteFile, Link, WriteService, Terminated, vars
  <2>2. Top' = Top
    BY <2>1 DEF Top, Readable
  <2>3. InForce(cur, ln, v)' = InForce(cur, ln, v)
    BY <2>1, <2>2, SameValues, SameTop DEF InForce
  <2> QED BY <2>1, <2>3, SameValues DEF EnvInv, Gives
<1> QED BY <1>1, <1>2, <1>3, <1>4, <1>5, <1>6 DEF Next

-----------------------------------------------------------------------------
(* What /etc/crontab leaves to the others. *)

\* A step that neither reads nor ends /etc/crontab.
LEMMA SameTopInv ==
    ASSUME TopInv, UNCHANGED <<conf, inherit, toplevel>>, Top' = Top, Pending' <=> Pending
    PROVE  TopInv'
<1>1. CASE Pending
  BY <1>1 DEF TopInv
<1>2. CASE ~Pending
  BY <1>2, SameTop DEF TopInv, Gives
<1> QED BY <1>1, <1>2

\* A file that cannot be read asks for nothing, and leaves nothing if it is
\* /etc/crontab.
LEMMA UnreadTop ==
    ASSUME PlaceInv, TopInv, NEW f \in todo, todo' = todo \ {f}, unread' = unread \cup {f},
           UNCHANGED <<conf, cur, inherit, toplevel>>
    PROVE  /\ Stage[f] # ETC_CRONTAB => Top' = Top
           /\ TopInv'
<1>1. f \in FilesOf(stage) \ unread
  BY DEF PlaceInv
<1>2. CASE Stage[f] # ETC_CRONTAB
  <2>1. Top' = Top
    BY <1>2 DEF Top, Readable
  <2>2. Pending' <=> Pending
    BY <1>2, <2>1 DEF Pending, Top
  <2> QED BY <1>2, <2>1, <2>2, SameTopInv
<1>3. CASE Stage[f] = ETC_CRONTAB
  <2>1. f \in Top /\ Pending
    BY <1>1, <1>3, TopIsKnown
  <2>2. Top' = {}
    <3>1. Top = {f}
      BY <2>1, OneTop
    <3>2. Top' = Top \ {f}
      BY DEF Top, Readable
    <3> QED BY <3>1, <3>2
  <2>3. inherit = NoVars /\ toplevel = [mailto |-> Unset, success |-> Dflt]
    BY <2>1 DEF TopInv
  <2>4. ~Pending'
    BY <2>2 DEF Pending
  <2>5. \A v : AtTop(v)' = Unset /\ TopGives(v)' = Unset
    BY <2>2 DEF AtTop, TopGives
  <2>6. SuccessOf(Unset, Dflt) = Dflt
    BY DEF SuccessOf, Unset
  <2>7. \A v : Gives(NoVars, v, Unset)
    BY DEF Gives, NoVars
  <2>8. \A v : Gives(inherit, v, TopGives(v))'
    BY <2>3, <2>5, <2>7 DEF Gives
  <2> QED BY <1>3, <2>3, <2>4, <2>5, <2>6, <2>8 DEF TopInv
<1> QED BY <1>2, <1>3

\* The end of /etc/crontab.
LEMMA CloseTop == ASSUME NamesInv, PlaceInv, EnvInv, TopInv, Close PROVE TopInv'
<1>1. /\ cur # NoFile /\ cur' = NoFile /\ ln > Len(conf[cur])
      /\ UNCHANGED <<conf, todo, unread>>
      /\ inherit' = IF Stage[cur] = ETC_CRONTAB THEN Only(env, inheritNames) ELSE inherit
      /\ toplevel' = Remembered
  BY DEF Close
<1>2. cur \in FilesOf(stage) \ unread /\ cur \notin todo /\ ln = Len(conf[cur]) + 1
  <2>1. Len(conf[cur]) \in Nat
    BY <1>1, ConfigAssumption DEF NamesInv, ReaderInv
  <2> QED BY <1>1, <2>1 DEF PlaceInv
<1>3. Top' = Top
  BY <1>1 DEF Top, Readable
<1>4. CASE Stage[cur] # ETC_CRONTAB
  <2>1. ~Pending /\ ~Pending'
    <3>1. ~Pending
      BY <1>2, <1>4, TopIsKnown
    <3> QED BY <1>1, <1>3, <3>1, FileAssumption DEF Pending, Top
  <2> QED BY <1>1, <1>3, <1>4, <2>1, SameTopInv DEF Remembered
<1>5. CASE Stage[cur] = ETC_CRONTAB
  <2>1. cur \in Top
    BY <1>2, <1>5, TopIsKnown
  <2>2. Top = {cur} /\ \A v : AtTop(v) = ValueAt(cur, ln, v, Unset)
    BY <1>2, <2>1, OneTop
  <2>3. ~Pending'
    BY <1>1, <1>2, <1>3, <2>2, FileAssumption DEF Pending, Top
  <2>4. \A v : InForce(cur, ln, v) = AtTop(v)
    BY <1>5, <2>2 DEF InForce, Inherited
  <2>5. \A v \in Decoded : Gives(env, v, AtTop(v)) /\ (v \in inheritNames <=> Names(cur, ln, v))
    BY <1>1, <2>4 DEF EnvInv
  <2>6. \A v \in Decoded : TopGives(v) = IF v \in inheritNames THEN AtTop(v) ELSE Unset
    BY <1>2, <2>2, <2>5 DEF TopGives
  <2>7. \A v \in Decoded : Gives(Only(env, inheritNames), v, TopGives(v))
    BY <2>5, <2>6 DEF Gives, Only
  <2>8. \A v \in Decoded : Gives(inherit, v, TopGives(v))'
    BY <1>1, <1>3, <1>5, <2>7, SameTop DEF Gives
  <2>9. Remembered.mailto = AtTop("MAILTO")
    <3>1. \A d : Get(env, "MAILTO", d) = IF AtTop("MAILTO") = Unset THEN d ELSE AtTop("MAILTO")
      BY <2>5, GetGiven DEF Decoded
    <3> QED BY <1>5, <3>1 DEF Remembered
  <2>10. Remembered.success = SuccessOf(AtTop("CRON_MAIL_SUCCESS"), Dflt)
    <3>1. Get(env, "CRON_MAIL_SUCCESS", "inherit") =
            IF AtTop("CRON_MAIL_SUCCESS") = Unset THEN "inherit" ELSE AtTop("CRON_MAIL_SUCCESS")
      BY <2>5, GetGiven DEF Decoded
    <3>2. MailSuccess(env, Dflt) = SuccessOf(AtTop("CRON_MAIL_SUCCESS"), Dflt)
      BY <3>1 DEF MailSuccess, SuccessOf, Unset
    <3> QED BY <1>5, <3>2 DEF Remembered
  <2> QED BY <1>1, <1>3, <2>3, <2>8, <2>9, <2>10, SameTop DEF TopInv
<1> QED BY <1>4, <1>5

\* Every step keeps TopInv.
LEMMA TopInductive == NamesInv /\ PlaceInv /\ EnvInv /\ TopInv /\ [Next]_vars => TopInv'
<1> SUFFICES ASSUME NamesInv, PlaceInv, EnvInv, TopInv, [Next]_vars PROVE TopInv'
  OBVIOUS
<1> USE DEF NextLine, reader
<1>1. CASE Open
  <2>1. PICK f \in todo :
          /\ todo' = todo \ {f}
          /\ (cur' = f /\ UNCHANGED unread) \/ (unread' = unread \cup {f} /\ UNCHANGED cur)
    BY <1>1 DEF Open
  <2>2. UNCHANGED <<conf, inherit, toplevel>> /\ cur = NoFile
    BY <1>1 DEF Open
  <2>3. CASE cur' = f /\ UNCHANGED unread
    <3>1. Top' = Top
      BY <2>2, <2>3 DEF Top, Readable
    <3>2. Pending' <=> Pending
      BY <2>1, <2>2, <2>3, <3>1, FileAssumption DEF Pending, Top
    <3> QED BY <2>2, <3>1, <3>2, SameTopInv
  <2>4. CASE unread' = unread \cup {f} /\ UNCHANGED cur
    BY <2>1, <2>2, <2>4, UnreadTop
  <2> QED BY <2>1, <2>3, <2>4
<1>2. CASE Close
  BY <1>2, CloseTop
<1>3. CASE NextStage
  <2>1. /\ UNCHANGED <<conf, cur, unread, inherit, toplevel>> /\ cur = NoFile /\ todo = {}
        /\ todo' = FilesOf(stage + 1) /\ stage \in Nat \ {0}
    BY <1>3 DEF NextStage, PlaceInv
  <2>2. Top' = Top
    BY <2>1 DEF Top, Readable
  <2>3. ~Pending /\ ~Pending'
    BY <2>1, <2>2, FileAssumption DEF Pending, Top, FilesOf, ETC_CRONTAB
  <2> QED BY <2>1, <2>2, <2>3, SameTopInv
<1>4. CASE SetVariable \/ SetInherit \/ SkipLine \/ StartJob \/ Fail \/ CreateFile \/ WriteFile \/ Link \/ WriteService
           \/ Terminated \/ UNCHANGED vars
  <2>1. UNCHANGED <<conf, todo, cur, unread, inherit, toplevel>>
    BY <1>4 DEF SetVariable, SetInherit, SkipLine, StartJob, Fail, CreateFile, WriteFile, Link, WriteService,
                Terminated, vars
  <2>2. Top' = Top
    BY <2>1 DEF Top, Readable
  <2> QED BY <2>1, <2>2, SameTopInv DEF Pending
<1> QED BY <1>1, <1>2, <1>3, <1>4 DEF Next

-----------------------------------------------------------------------------
(* The jobs that the lines read so far ask for. *)

\* The lines of the crontabs.
LEMMA SameDone ==
    ASSUME DoneInv, UNCHANGED <<conf, rebootFile, done, job, step>>, Top' = Top,
           \A f \in File \cap DOMAIN conf : \A i \in 1..Len(conf[f]) : Reached(f, i)' <=> Reached(f, i)
    PROVE  DoneInv'
<1>1. \A f, i : Asked(f, i)' = Asked(f, i)
  BY SameAsked
<1>2. \A j : AskedFor(j)' <=> AskedFor(j)
  BY <1>1 DEF AskedFor
<1>3. \A d \in done' : AskedFor(d.job)'
  BY <1>2 DEF DoneInv
<1>4. (step # "scan" => AskedFor(job))'
  BY <1>2 DEF DoneInv
<1>5. \A f \in (File \cap DOMAIN conf)' : \A i \in 1..Len(conf[f])' :
        Reached(f, i)' => (\E d \in done' : Settings(d.job) = Asked(f, i)')
                          \/ (step' # "scan" /\ Settings(job') = Asked(f, i)')
  BY <1>1 DEF DoneInv
<1> QED BY <1>3, <1>4, <1>5 DEF DoneInv, Settings

\* A file is opened: no line of it was read.
LEMMA OpenDone == ASSUME PlaceInv, DoneInv, TopInv, Open PROVE DoneInv'
<1>1. PICK f \in todo :
        /\ todo' = todo \ {f}
        /\ (cur' = f /\ ln' = 1 /\ UNCHANGED unread) \/ (unread' = unread \cup {f} /\ UNCHANGED <<cur, ln>>)
  BY DEF Open
<1>2. UNCHANGED <<conf, rebootFile, stage, inherit, toplevel, done, job, step>> /\ cur = NoFile
  BY DEF Open
<1>3. f \in FilesOf(stage) \ unread /\ f \in File /\ Stage[f] = stage /\ step = "scan"
  BY <1>2 DEF PlaceInv, FilesOf
<1>4. \A g, i : Wanted(g, i)' <=> Wanted(g, i)
  BY <1>2 DEF Wanted
<1>5. ASSUME NEW g \in File, NEW i \in Nat \ {0} PROVE Reached(g, i)' <=> Reached(g, i)
  <2>1. cur # g /\ ~Past(f)
    BY <1>2, <1>3, FileAssumption DEF Past, PlaceInv
  <2>2. CASE cur' = f /\ ln' = 1 /\ UNCHANGED unread
    BY <1>1, <1>2, <1>4, <2>1, <2>2 DEF Reached, Past, Readable
  <2>3. CASE unread' = unread \cup {f} /\ UNCHANGED <<cur, ln>>
    BY <1>1, <1>2, <1>4, <2>1, <2>3 DEF Reached, Past, Readable
  <2> QED BY <1>1, <2>2, <2>3
<1>6. CASE UNCHANGED unread
  <2>1. Top' = Top
    BY <1>2, <1>6 DEF Top, Readable
  <2> QED BY <1>2, <1>5, <2>1, SameDone
<1>7. CASE unread' = unread \cup {f} /\ UNCHANGED cur /\ Stage[f] # ETC_CRONTAB
  <2>1. Top' = Top
    BY <1>1, <1>2, <1>7, UnreadTop
  <2> QED BY <1>2, <1>5, <2>1, SameDone
<1>8. CASE unread' = unread \cup {f} /\ Stage[f] = ETC_CRONTAB
  <2>1. ASSUME NEW g \in File, NEW i PROVE ~Reached(g, i)
    <3>1. Stage[g] \in Stages /\ stage = 1 /\ Stage[g] >= 1
      BY <1>3, <1>8, FileAssumption DEF Stages, ETC_CRONTAB
    <3>2. Stage[g] = stage => g = f
      BY <1>3, <1>8, CrontabAssumption
    <3> QED BY <1>2, <3>1, <3>2, FileAssumption DEF Reached, Past, Stages
  <2>2. done = {}
    BY <2>1 DEF DoneInv, AskedFor
  <2> QED BY <1>2, <1>3, <1>5, <2>1, <2>2 DEF DoneInv
<1> QED BY <1>1, <1>6, <1>7, <1>8

\* A line that asks for no job is passed.
LEMMA LineDone ==
    ASSUME PlaceInv, DoneInv, AtLine, NextLine, ~Wanted(cur, ln),
           UNCHANGED <<conf, rebootFile, unread, done, job, step>>
    PROVE  DoneInv'
<1>1. Top' = Top
  BY DEF Top, Readable
<1>2. UNCHANGED <<cur, stage, todo>> /\ ln' = ln + 1 /\ ln \in Nat
  BY DEF NextLine, PlaceInv, AtLine
<1>3. \A g, i : Wanted(g, i)' <=> Wanted(g, i)
  BY DEF Wanted
<1>4. ASSUME NEW g \in File, NEW i \in Nat PROVE Reached(g, i)' <=> Reached(g, i)
  BY <1>2, <1>3 DEF Reached, Past, Readable
<1> QED BY <1>1, <1>4, SameDone

\* A line becomes the job it asks for.
LEMMA StartDone ==
    ASSUME NamesInv, PlaceInv, EnvInv, TopInv, DoneInv, StartJob PROVE DoneInv'
<1>1. /\ UNCHANGED <<conf, rebootFile, unread, done, cur, stage, todo>> /\ ln' = ln + 1 /\ AtLine
      /\ job' = JobOf(cur, ln, Line, env) /\ step = "scan" /\ step' # "scan" /\ cur # NoFile
  BY DEF StartJob, NextLine, AtLine
<1>2. cur \in File /\ cur \in DOMAIN conf /\ conf \in Configs /\ ln \in 1..Len(conf[cur])
  <2>1. cur \in File /\ cur \in DOMAIN conf /\ conf \in Configs
    BY <1>1, ConfigAssumption DEF NamesInv, ReaderInv
  <2>2. Len(conf[cur]) \in Nat
    BY <2>1, ConfigAssumption
  <2> QED BY <1>1, <2>1, <2>2 DEF AtLine, PlaceInv
<1>3. Wanted(cur, ln)
  <2>1. Line.is = "job" /\ Line.valid /\ ~(Stage[cur] = ETC_CRONTAB /\ Line.runs # "none")
    BY DEF StartJob, IsBoilerplate
  <2>2. ~(rebootFile /\ Line.period = "reboot")
    <3>1. CASE Stage[cur] = RUN_PARTS
      BY <1>2, <2>1, <3>1, ConfigAssumption DEF Line
    <3>2. CASE is_active(JobOf(cur, ln, Line, env))
      BY <3>2 DEF is_active, JobOf
    <3> QED BY <3>1, <3>2 DEF StartJob
  <2> QED BY <2>1, <2>2 DEF Wanted, Line
<1>4. Settings(job') = Asked(cur, ln)
  BY <1>1, JobHasSettings
<1>5. Top' = Top
  BY <1>1 DEF Top, Readable
<1>6. (\A g, i : Asked(g, i)' = Asked(g, i)) /\ (\A g, i : Wanted(g, i)' <=> Wanted(g, i))
  BY <1>1, <1>5, SameAsked
<1>7. ASSUME NEW g \in File, NEW i \in Nat PROVE Reached(g, i)' <=> Reached(g, i) \/ (g = cur /\ i = ln)
  BY <1>1, <1>2, <1>3, <1>6 DEF Reached, Past, Readable
<1>8. AskedFor(job)'
  <2>1. PICK g \in File \cap DOMAIN conf, i \in 1..Len(conf[cur]) : g = cur /\ i = ln
    BY <1>2
  <2>2. Reached(g, i)'
    BY <1>7, <2>1
  <2>3. Settings(job)' = Asked(g, i)'
    BY <1>4, <1>6, <2>1 DEF Settings
  <2>4. conf' = conf /\ i \in 1..Len(conf[g])
    BY <1>1, <2>1
  <2> QED BY <2>2, <2>3, <2>4 DEF AskedFor
<1>9. \A d \in done' : AskedFor(d.job)'
  <2>1. \A j : AskedFor(j) => AskedFor(j)'
    BY <1>1, <1>6, <1>7 DEF AskedFor
  <2> QED BY <1>1, <2>1 DEF DoneInv
<1>10. ASSUME NEW g \in File \cap DOMAIN conf, NEW i \in 1..Len(conf[g]), Reached(g, i)'
       PROVE  (\E d \in done : Settings(d.job) = Asked(g, i)) \/ Settings(job') = Asked(g, i)
  <2>1. CASE Reached(g, i)
    BY <1>1, <2>1 DEF DoneInv
  <2>2. CASE g = cur /\ i = ln
    BY <1>4, <2>2
  <2> QED BY <1>7, <1>10, <2>1, <2>2
<1> QED BY <1>1, <1>6, <1>8, <1>9, <1>10 DEF DoneInv, Settings

\* The file that was read joins the past.
LEMMA CloseDone == ASSUME NamesInv, PlaceInv, DoneInv, Close PROVE DoneInv'
<1>1. /\ UNCHANGED <<conf, rebootFile, unread, done, job, step, stage, todo>>
      /\ cur # NoFile /\ cur' = NoFile /\ ln > Len(conf[cur])
  BY DEF Close
<1>2. Top' = Top
  BY <1>1 DEF Top, Readable
<1>3. Stage[cur] = stage /\ cur \notin todo /\ Readable(cur) /\ Len(conf[cur]) \in Nat /\ ln \in Nat
  <2>1. Len(conf[cur]) \in Nat
    BY <1>1, ConfigAssumption DEF NamesInv, ReaderInv
  <2> QED BY <1>1, <2>1 DEF PlaceInv, FilesOf, Readable
<1>4. \A g, i : Wanted(g, i)' <=> Wanted(g, i)
  BY <1>1 DEF Wanted
<1>5. ASSUME NEW g \in File, NEW i \in 1..Len(conf[g]) PROVE Reached(g, i)' <=> Reached(g, i)
  <2>1. CASE g = cur
    BY <1>1, <1>3, <1>4, <2>1 DEF Reached, Past, Readable
  <2>2. CASE g # cur
    BY <1>1, <1>4, <2>2, FileAssumption DEF Reached, Past, Readable
  <2> QED BY <2>1, <2>2
<1> QED BY <1>1, <1>2, <1>5, SameDone

\* Every file of a stage was read, or could not be, before the next one.
LEMMA NextStageDone == ASSUME PlaceInv, DoneInv, NextStage PROVE DoneInv'
<1>1. /\ UNCHANGED <<conf, rebootFile, unread, done, job, step, cur, ln>>
      /\ cur = NoFile /\ todo = {} /\ stage' = stage + 1 /\ todo' = FilesOf(stage + 1) /\ stage \in Nat
  BY DEF NextStage, PlaceInv
<1>2. Top' = Top
  BY <1>1 DEF Top, Readable
<1>3. \A g, i : Wanted(g, i)' <=> Wanted(g, i)
  BY <1>1 DEF Wanted
<1>4. ASSUME NEW g \in File PROVE Past(g)' <=> Past(g)
  <2>1. Stage[g] \in Nat
    BY FileAssumption DEF Stages
  <2>2. Readable(g)' <=> Readable(g)
    BY <1>1 DEF Readable
  <2>3. Readable(g) => (Stage[g] = stage + 1 => g \in todo')
    BY <1>1 DEF Readable, FilesOf
  <2>4. Past(g) <=> Readable(g) /\ Stage[g] <= stage
    <3>1. Stage[g] <= stage <=> Stage[g] < stage \/ Stage[g] = stage
      BY <1>1, <2>1
    <3>2. g # cur /\ g \notin todo
      BY <1>1, FileAssumption
    <3> QED BY <3>1, <3>2 DEF Past
  <2>5. Past(g)' <=> Readable(g) /\ Stage[g] < stage + 1
    BY <1>1, <2>1, <2>2, <2>3, FileAssumption DEF Past
  <2> QED BY <1>1, <2>1, <2>4, <2>5
<1>5. ASSUME NEW g \in File, NEW i \in Nat PROVE Reached(g, i)' <=> Reached(g, i)
  BY <1>1, <1>3, <1>4, FileAssumption DEF Reached
<1> QED BY <1>1, <1>2, <1>5, SameDone

\* A job that is done is still one that was asked for.
LEMMA WrittenDone ==
    ASSUME DoneInv, step # "scan", NEW ok, Written(ok),
           UNCHANGED <<conf, rebootFile, unread, cur, ln, stage, todo>>
    PROVE  DoneInv'
<1> DEFINE w == [job |-> job, name |-> name, ok |-> ok]
<1>1. done' = done \cup {w} /\ step' = "scan" /\ w.job = job
  BY DEF Written
<1>2. Top' = Top
  BY DEF Top, Readable
<1>3. (\A g, i : Asked(g, i)' = Asked(g, i)) /\ (\A g, i : Wanted(g, i)' <=> Wanted(g, i))
  BY <1>2, SameAsked
<1>4. \A g, i : Reached(g, i)' <=> Reached(g, i)
  BY <1>3 DEF Reached, Past, Readable
<1>5. \A j : AskedFor(j)' <=> AskedFor(j)
  BY <1>3, <1>4 DEF AskedFor
<1> HIDE DEF w
<1>6. \A d \in done' : AskedFor(d.job)'
  BY <1>1, <1>5 DEF DoneInv
<1>7. ASSUME NEW g \in File \cap DOMAIN conf, NEW i \in 1..Len(conf[g]), Reached(g, i)
      PROVE  \E d \in done' : Settings(d.job) = Asked(g, i)
  BY <1>1, <1>7 DEF DoneInv
<1> QED BY <1>1, <1>3, <1>4, <1>6, <1>7 DEF DoneInv, Settings

\* Every step keeps DoneInv.
LEMMA DoneInductive ==
    NamesInv /\ PlaceInv /\ EnvInv /\ TopInv /\ DoneInv /\ [Next]_vars => DoneInv'
<1> SUFFICES ASSUME NamesInv, PlaceInv, EnvInv, TopInv, DoneInv, [Next]_vars PROVE DoneInv'
  OBVIOUS
<1>1. CASE SetVariable \/ SetInherit
  BY <1>1, LineDone DEF SetVariable, SetInherit, Wanted, Line
<1>2. CASE SkipLine
  <2>1. ~Wanted(cur, ln)
    BY <1>2 DEF SkipLine, Wanted, Line, IsBoilerplate, is_active, JobOf
  <2> QED BY <1>2, <2>1, LineDone DEF SkipLine
<1>3. CASE Fail
  BY <1>3, WrittenDone DEF Fail, reader
<1>4. CASE WriteService
  BY <1>4, WrittenDone DEF WriteService, reader
<1>5. CASE CreateFile \/ WriteFile \/ Link \/ Terminated \/ UNCHANGED vars
  <2>1. /\ UNCHANGED <<conf, rebootFile, unread, cur, ln, stage, todo, done, job>>
        /\ step' # "scan" <=> step # "scan"
    BY <1>5 DEF CreateFile, WriteFile, Link, Kinds, After, Terminated, vars, reader
  <2>2. Top' = Top
    BY <2>1 DEF Top, Readable
  <2>3. (\A g, i : Asked(g, i)' = Asked(g, i)) /\ (\A g, i : Wanted(g, i)' <=> Wanted(g, i))
    BY <2>1, <2>2, SameAsked
  <2>4. \A g, i : Reached(g, i)' <=> Reached(g, i)
    BY <2>1, <2>3 DEF Reached, Past, Readable
  <2>5. \A j : AskedFor(j)' <=> AskedFor(j)
    BY <2>1, <2>3, <2>4 DEF AskedFor
  <2> QED BY <2>1, <2>3, <2>4, <2>5 DEF DoneInv, Settings
<1> QED BY <1>1, <1>2, <1>3, <1>4, <1>5, OpenDone, StartDone, CloseDone, NextStageDone DEF Next

\* SettingsInv holds when realmain() starts.
LEMMA SettingsInitially == Init => SettingsInv
<1> SUFFICES ASSUME Init PROVE SettingsInv
  OBVIOUS
<1>1. /\ stage = 1 /\ todo = FilesOf(1) /\ cur = NoFile /\ inherit = NoVars /\ step = "scan"
      /\ toplevel = [mailto |-> Unset, success |-> Dflt] /\ done = {} /\ unread = {}
  BY DEF Init
<1>2. PlaceInv /\ EnvInv
  BY <1>1 DEF PlaceInv, EnvInv
<1>3. TopInv
  <2>1. CASE Pending
    BY <1>1, <2>1 DEF TopInv
  <2>2. CASE ~Pending
    <3>1. Top = {}
      BY <1>1, <2>2 DEF Pending, Top, Readable, FilesOf, ETC_CRONTAB
    <3>2. \A v : AtTop(v) = Unset /\ TopGives(v) = Unset
      BY <3>1 DEF AtTop, TopGives
    <3>3. SuccessOf(Unset, Dflt) = Dflt /\ \A v : Gives(NoVars, v, Unset)
      BY DEF SuccessOf, Unset, Gives, NoVars
    <3> QED BY <1>1, <2>2, <3>2, <3>3 DEF TopInv
  <2> QED BY <2>1, <2>2
<1>4. DoneInv
  <2>1. ASSUME NEW f \in File, NEW i PROVE ~Reached(f, i)
    BY <1>1, FileAssumption DEF Reached, Past, Readable, FilesOf, Stages
  <2> QED BY <1>1, <2>1 DEF DoneInv
<1> QED BY <1>2, <1>3, <1>4 DEF SettingsInv

\* When every stage was read, so was every file.
LEMMA AllReached == NamesInv /\ SettingsInv => JobsAsAsked
<1> SUFFICES ASSUME NamesInv, SettingsInv, stage \notin Stages
             PROVE  {Settings(d.job) : d \in done}
                    = UNION {{Asked(f, i) : i \in {k \in 1..Len(conf[f]) : Wanted(f, k)}}
                             : f \in {g \in File : Readable(g)}}
  BY DEF JobsAsAsked
<1>1. cur = NoFile /\ step = "scan" /\ stage \in Nat /\ stage > 5
  BY DEF SettingsInv, PlaceInv, Stages
<1>2. \A f \in File : Past(f) <=> Readable(f)
  BY <1>1, FileAssumption DEF Past, Stages
<1>3. \A f \in File : \A i : Reached(f, i) <=> Readable(f) /\ Wanted(f, i)
  BY <1>1, <1>2, FileAssumption DEF Reached
<1>4. ASSUME NEW d \in done
      PROVE  \E f \in {g \in File : Readable(g)} : \E i \in {k \in 1..Len(conf[f]) : Wanted(f, k)} :
                 Settings(d.job) = Asked(f, i)
  BY <1>3 DEF SettingsInv, DoneInv, AskedFor
<1>5. ASSUME NEW f \in {g \in File : Readable(g)}, NEW i \in {k \in 1..Len(conf[f]) : Wanted(f, k)}
      PROVE  \E d \in done : Settings(d.job) = Asked(f, i)
  <2>1. f \in DOMAIN conf
    BY DEF Readable
  <2> QED BY <1>1, <1>3, <2>1 DEF SettingsInv, DoneInv
<1> QED BY <1>4, <1>5

\* Whatever the crontabs, the order a directory is read in, the files that cannot
\* be read and the writes that fail: when realmain() is done, the jobs it handed to
\* output() were those of the valid lines of the readable crontabs, each with
\* the variables in force at its line and what /etc/crontab leaves to it.
THEOREM SettingsReachTheirLines == Spec => []JobsAsAsked
<1>1. Init => NamesInv /\ SettingsInv
  BY NamesInitially, SettingsInitially
<1>2. NamesInv /\ SettingsInv /\ [Next]_vars => NamesInv' /\ SettingsInv'
  BY NamesInductive, PlaceInductive, EnvInductive, TopInductive, DoneInductive DEF SettingsInv
<1> QED BY <1>1, <1>2, AllReached, PTL DEF Spec

=============================================================================
