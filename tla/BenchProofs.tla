----------------------------- MODULE BenchProofs -----------------------------
(***************************************************************************)
(* The gates of the benchmark are right for every set of arguments, every  *)
(* number of samples, and every choice of the packets the AEAD refuses.    *)
(***************************************************************************)
EXTENDS BenchPassProofs

\* In round 0 the buffer is the sender's until the third job, in round 1 the
\* copy's from the end of its cold pass on.
LEMMA KeptFill ==
    ASSUME BenchInv, Unrefused, pc \in {"warm", "sample"}, src' = src,
           dst' = take_sample(jobs[order[pos]], {}).dst
    PROVE  /\ round = 0 /\ pos <= 2 => Fills("session_encrypt", dst)'
           /\ round = 1 /\ pos >= 17 => Fills("copy_payload", dst)'
<1> DEFINE job == jobs[order[pos]]
<1>1. Running /\ stage = 0
  BY DEF Unrefused
<1>2. pos \in DOMAIN jobs /\ job \in Job /\ Pooled
  BY <1>1, NextJob
<1>3. Runnable(job)
  BY <1>2, JobRunnable, Zenon
<1>4. DOMAIN jobs = 1..19 /\ Len(jobs) = 19
  BY <1>1, MainRun
<1>5. ASSUME round = 0, pos <= 2 PROVE Fills("session_encrypt", dst)'
  <2>1. order[pos] = pos /\ Fills("session_encrypt", dst)
    BY <1>2, <1>5 DEF BenchInv, Drifts, Identity
  <2>2. pos \in {1, 2}
    BY <1>2, <1>4, <1>5
  <2>3. job.name = "null"
    BY <1>1, <2>1, <2>2, MainRun
  <2> HIDE DEF job
  <2>4. take_sample(job, {}).dst = dst
    BY <1>2, <1>3, <2>3, NullPass, Zenon
  <2> QED BY <2>1, <2>4 DEF job, Fills
<1>6. ASSUME round = 1, pos >= 17 PROVE Fills("copy_payload", dst)'
  <2>1. pos \in {17, 18, 19}
    BY <1>2, <1>4, <1>6
  <2>2. \A q \in 2..19 : order[q] = 21 - q
    <3>1. Backwards
      BY <1>6 DEF BenchInv, Drifts
    <3> QED BY <1>4, <3>1 DEF Backwards
  <2>3. pos >= 18 => Fills("copy_payload", dst)
    <3>1. pos >= Len(jobs) - 1 => Fills("copy_payload", dst)
      BY <1>6, Zenon DEF BenchInv, Drifts
    <3> QED BY <1>4, <3>1
  <2>4. CASE pos = 17
    <3>1. job.name = "copy_payload" /\ ~job.hot
      <4>1. order[pos] = 4
        BY <2>2, <2>4
      <4> QED BY <1>1, <4>1, MainRun
    <3> HIDE DEF job
    <3>2. Fills("copy_payload", take_sample(job, {}).dst)
      BY <1>2, <1>3, <3>1, WritingPass DEF Writing
    <3> QED BY <3>2 DEF job, Fills
  <2>5. CASE pos = 18
    <3>1. job.name = "copy_payload"
      <4>1. order[pos] = 3
        BY <2>2, <2>5
      <4> QED BY <1>1, <4>1, MainRun
    <3> HIDE DEF job
    <3>2. Fills("copy_payload", take_sample(job, {}).dst)
      <4>1. Fills("copy_payload", dst)
        BY <2>3, <2>5
      <4> QED BY <1>2, <1>3, <3>1, <4>1, WritingPass, Zenon DEF Writing
    <3> QED BY <3>2 DEF job, Fills
  <2>6. CASE pos = 19
    <3>1. job.name = "null"
      <4>1. order[pos] = 2
        BY <2>2, <2>6
      <4> QED BY <1>1, <4>1, MainRun
    <3> HIDE DEF job
    <3>2. take_sample(job, {}).dst = dst
      BY <1>2, <1>3, <3>1, NullPass, Zenon
    <3> QED BY <2>3, <2>6, <3>2 DEF job, Fills
  <2> QED BY <2>1, <2>4, <2>5, <2>6
<1> QED BY <1>5, <1>6

\* A discarded sample changes nothing but the buffer.
LEMMA WarmUpSample ==
    ASSUME BenchInv, warm_up_sample
    PROVE  BenchInv'
<1> USE DEF BenchInv
<1> DEFINE job == jobs[order[pos]]
<1>1. PICK refused \in Refused(job) : Passes(take_sample(job, refused), refused)
  BY Zenon DEF warm_up_sample
<1>2. /\ pc = "warm" /\ pc' \in {"warm", "sample"}
      /\ UNCHANGED <<cfg, src, st, stage, jobs, results, order, round, pos, res, spoiled>>
  BY DEF warm_up_sample
<1>3. Running /\ Running'
  BY <1>2 DEF Running
<1>4. pos \in DOMAIN jobs /\ job \in Job /\ Pooled /\ refusals \in Nat
  BY <1>2, <1>3, NextJob
<1>5. Runnable(job)
  BY <1>4, JobRunnable, Zenon
<1>6. Pooled' /\ refusals' \in Nat /\ (refusals' = 0 => refusals = 0 /\ refused = {})
  <2> HIDE DEF job
  <2> QED BY <1>1, <1>2, <1>4, <1>5, PassStep
<1>7. BenchTypeOK'
  BY <1>2, <1>3, <1>6 DEF BenchTypeOK
<1>8. RunTypeOK'
  <2>1. RunShape'
    BY <1>2, <1>3 DEF RunShape, RunTypeOK
  <2> QED BY <1>2, <1>4, <2>1 DEF RunTypeOK
<1>9. Counted'
  BY <1>2, <1>3, Zenon DEF Counted
<1>10. Unrefused' => Unrefused
  BY <1>2, <1>3, <1>6 DEF Unrefused
<1>11. Sound'
  <2>1. refusals' = 0 => round_trips'
    BY <1>2, <1>6, GatesKept DEF Sound
  <2>2. pc' \notin {"calibrate", "round"} /\ pc \in {"warm", "sample"}
    BY <1>2
  <2> QED BY <1>2, <1>10, <2>1, <2>2, Zenon DEF Sound
<1>12. Drifts'
  <2> SUFFICES ASSUME Unrefused' PROVE Drifts'
    BY DEF Drifts
  <2>1. Unrefused /\ refused = {} /\ pc \in {"warm", "sample"}
    BY <1>2, <1>6, <1>10 DEF Unrefused
  <2>2. dst' = take_sample(job, {}).dst
    BY <1>1, <2>1, Zenon DEF Passes
  <2>3. DOMAIN jobs = 1..19 /\ Len(jobs) = 19
    BY <1>3, <2>1, MainRun DEF Unrefused
  <2>4. /\ round = 0 /\ pos <= 2 => Fills("session_encrypt", dst)'
        /\ round = 1 /\ pos >= 17 => Fills("copy_payload", dst)'
    BY <1>2, <2>1, <2>2, KeptFill, Zenon
  <2>5. pos >= Len(jobs) - 1 => pos >= 17
    BY <1>4, <2>3
  <2>6. pc' \notin {"calibrate", "round"}
    BY <1>2
  <2>7. /\ round = 0 => Identity
        /\ round = 1 => Backwards
        /\ results[2].total_ops > 0 => results[2].acc = [k \in 1..src.slots |-> wire_packet(k - 1)]
        /\ round >= 2 => ~results[2].acc_stable
    BY <2>1, Zenon DEF Drifts
  <2>8. (round = 0 => Identity') /\ (round = 1 => Backwards')
    BY <1>2, <2>7, Zenon DEF Identity, Backwards
  <2> QED BY <1>2, <2>4, <2>5, <2>6, <2>7, <2>8, Zenon DEF Drifts
<1>13. Settled'
  <2>1. Returned' => Returned
    BY <1>2 DEF Returned
  <2> QED BY <1>2, <1>6, <2>1, GatesKept, Zenon DEF Settled
<1>14. RunSurvives'
  BY <1>2 DEF RunSurvives
<1> QED BY <1>7, <1>8, <1>9, <1>11, <1>12, <1>13, <1>14

\* run_all returns: what the report judges is what the run's invariants say.
LEMMA RunReturns ==
    ASSUME BenchInv, run_returns
    PROVE  BenchInv'
<1> USE DEF BenchInv
<1>1. /\ pc = "round" /\ round = rounds /\ res' = IF stage = 0 THEN results ELSE res
      /\ pc' = IF cfg.sweep /\ stage < Len(SweepLens) THEN "sweep" ELSE "report"
      /\ UNCHANGED <<cfg, src, st, dst, stage, jobs, results, order, round, pos, refusals, spoiled>>
  BY DEF run_returns, run_vars
<1>2. Running /\ ~Running' /\ pc' \in {"sweep", "report"}
  BY <1>1 DEF Running
<1>3. BenchTypeOK'
  BY <1>1, <1>2 DEF BenchTypeOK
<1>4. (RunTypeOK /\ Counted /\ Drifts /\ RunSurvives)'
  BY <1>2 DEF RunTypeOK, Counted, Drifts, Unrefused, RunSurvives
<1>5. round_trips' = round_trips
  BY <1>1, Zenon DEF round_trips
<1>6. Sound'
  BY <1>1, <1>2, <1>5 DEF Sound, Unrefused
<1>7. ASSUME stage = 0
      PROVE  /\ spoiled' => ~all_ok'
             /\ refusals' = 0 => gates' /\ (cfg'.rounds >= 2 => Drifted')
  <2>1. /\ res' = results /\ jobs = main_jobs /\ DOMAIN jobs = 1..19 /\ round = cfg.rounds
        /\ jobs \in Seq(Job) /\ results \in [DOMAIN jobs -> Result] /\ round \in Nat
    BY <1>1, <1>2, <1>7, MainRun, Zenon DEF rounds, RunTypeOK, RunShape
  <2>2. DOMAIN res' = DOMAIN jobs
    BY <2>1
  <2>3. ASSUME spoiled PROVE ~all_ok'
    <3>1. PICK j \in DOMAIN jobs : results[j].total_ops < results[j].expected_ops
      BY <1>2, <1>7, <2>3 DEF Counted
    <3>2. results[j].total_ops # results[j].expected_ops
      <4>1. results[j].total_ops \in Nat /\ results[j].expected_ops \in Nat
        BY <2>1, Zenon DEF Result
      <4> QED BY <3>1, <4>1
    <3> QED BY <2>1, <2>2, <3>2, Zenon DEF all_ok
  <2>4. ASSUME refusals = 0 PROVE gates' /\ (cfg.rounds >= 2 => Drifted')
    <3>1. Unrefused
      BY <1>2, <1>7, <2>4 DEF Unrefused
    <3> DEFINE Sum(j) == IF round > 0 THEN Checksum(src.slots, jobs[j].family, jobs[j].hot) ELSE <<>>
    <3>2. ASSUME NEW j \in DOMAIN jobs
          PROVE  /\ results[j].total_ops = results[j].expected_ops
                 /\ jobs[j].family # "Null" => results[j].acc_stable /\ results[j].acc = Sum(j)
      <4>1. /\ results[j].total_ops = results[j].expected_ops
            /\ results[j].total_ops = 0 => results[j].acc = <<>>
            /\ jobs[j].family # "Null" =>
                  /\ results[j].acc_stable
                  /\ results[j].total_ops > 0 =>
                        results[j].acc = Checksum(src.slots, jobs[j].family, jobs[j].hot)
            /\ round > 0 => results[j].total_ops > 0
            /\ round = 0 => results[j].total_ops = 0
        BY <1>1, <3>1, Zenon DEF Sound
      <4>2. round > 0 \/ round = 0
        <5>1. round \in Nat
          BY <2>1, Zenon
        <5> QED BY <5>1
      <4>3. ~(0 > 0)
        OBVIOUS
      <4> QED BY <4>1, <4>2, <4>3, Zenon
    <3>3. family_ok("Dec")' /\ family_ok("Enc")'
      <4> SUFFICES ASSUME NEW family \in {"Dec", "Enc"} PROVE family_ok(family)'
        OBVIOUS
      <4> SUFFICES ASSUME NEW i \in DOMAIN res', NEW j \in DOMAIN res',
                          main_jobs[i].family = family, main_jobs[j].family = family,
                          main_jobs[i].hot = main_jobs[j].hot
                   PROVE  res'[i].acc = res'[j].acc
        BY DEF family_ok
      <4>1. res' = results /\ i \in DOMAIN jobs /\ j \in DOMAIN jobs /\ main_jobs = jobs
        BY <2>1, <2>2, Zenon
      <4>2. family # "Null"
        OBVIOUS
      <4>3. results[i].acc = Sum(i) /\ results[j].acc = Sum(j)
        BY <3>2, <4>1, <4>2, Zenon
      <4> QED BY <4>1, <4>3, Zenon
    <3>4. all_acc' /\ all_ok'
      BY <2>1, <2>2, <3>2, Zenon DEF all_acc, all_ok
    <3>5. round_trips'
      BY <1>5, <2>4 DEF Sound
    <3>6. cfg.rounds >= 2 => Drifted'
      <4>1. cfg.rounds >= 2 => ~results[2].acc_stable
        BY <2>1, <3>1, Zenon DEF Drifts
      <4>2. 2 \in DOMAIN jobs /\ jobs[2] \in Job /\ jobs[2].name = "null"
        <5>1. 2 \in 1..19
          OBVIOUS
        <5>2. \A j \in DOMAIN jobs : jobs[j] \in Job
          <6>1. jobs \in Seq(Job)
            BY <2>1, Zenon
          <6> QED BY <6>1
        <5>3. 2 \in DOMAIN jobs /\ jobs[2].name = "null"
          BY <1>2, <1>7, <2>1, <5>1, MainRun, Zenon
        <5> QED BY <5>2, <5>3, Zenon
      <4>3. jobs[2].family = "Null"
        BY <4>2, JobRunnable, Zenon
      <4> QED BY <2>1, <2>2, <4>1, <4>2, <4>3, Zenon DEF Drifted
    <3> QED BY <3>3, <3>4, <3>5, <3>6 DEF gates
  <2> QED BY <1>1, <2>3, <2>4
<1>8. ASSUME stage # 0
      PROVE  /\ spoiled' => ~all_ok'
             /\ refusals' = 0 => gates' /\ (cfg'.rounds >= 2 => Drifted')
  <2>1. Returned
    BY <1>8 DEF Returned, BenchTypeOK
  <2>2. res' = res /\ st' = st /\ spoiled' = spoiled /\ refusals' = refusals /\ cfg' = cfg
    BY <1>1, <1>8, Zenon
  <2>3. gates' = gates /\ all_ok' = all_ok /\ Drifted' = Drifted
    BY <2>2, GatesKept
  <2> QED BY <2>1, <2>2, <2>3, Zenon DEF Settled
<1> QED BY <1>3, <1>4, <1>6, <1>7, <1>8 DEF Settled

\* What a recorded sample does to the result of its job.
Tally(r, p, q) ==
    /\ q.total_ops = r.total_ops + p.ok /\ q.expected_ops = r.expected_ops + src.slots
    /\ q.acc = IF r.total_ops = 0 THEN p.acc ELSE r.acc
    /\ q.acc_stable <=> r.acc_stable /\ (r.total_ops = 0 \/ r.acc = p.acc)

\* The result after a sample is the one before with the sample tallied.
LEMMA Recorded ==
    ASSUME Pooled, NEW r \in Result, NEW p \in Pass(src.slots), p.ok \in 0..src.slots
    PROVE  recorded(r, p) \in Result /\ Tally(r, p, recorded(r, p))
<1>1. /\ r.total_ops \in Nat /\ r.expected_ops \in Nat /\ r.acc \in Seq(Word)
      /\ r.acc_stable \in BOOLEAN
  BY Zenon DEF Result
<1>2. p.acc \in Seq(Word) /\ p.ok \in Nat /\ src.slots \in Nat
  BY DEF Pass, Pooled
<1>3. r.total_ops + p.ok \in Nat /\ r.expected_ops + src.slots \in Nat
  BY <1>1, <1>2
<1>4. (IF r.total_ops = 0 THEN p.acc ELSE r.acc) \in Seq(Word)
  BY <1>1, <1>2, Zenon
<1>5. (r.acc_stable /\ (r.total_ops = 0 \/ r.acc = p.acc)) \in BOOLEAN
  OBVIOUS
<1>6. recorded(r, p) \in Result
  BY <1>3, <1>4, <1>5, Zenon DEF recorded, Result
<1>7. /\ recorded(r, p).total_ops = r.total_ops + p.ok
      /\ recorded(r, p).expected_ops = r.expected_ops + src.slots
      /\ recorded(r, p).acc = IF r.total_ops = 0 THEN p.acc ELSE r.acc
      /\ recorded(r, p).acc_stable = (r.acc_stable /\ (r.total_ops = 0 \/ r.acc = p.acc))
  BY Zenon DEF recorded
<1> QED BY <1>6, <1>7, Zenon DEF Tally

\* A recorded sample, as a step: job j runs, and only its result changes.
Records(j, refused, p) ==
    /\ pc = "sample" /\ j = order[pos] /\ p = take_sample(jobs[j], refused)
    /\ Passes(p, refused)
    /\ results' = [results EXCEPT ![j] = recorded(results[j], p)]
    /\ spoiled' = (spoiled \/ (stage = 0 /\ p.ok < src.slots))
    /\ pc' = "aborted" => jobs[j].name = "session_decrypt" /\ p.rx # 1..src.slots
    /\ \/ pc' \in {"sample", "aborted"} /\ pos' = pos /\ round' = round
       \/ pos' = pos + 1 /\ pos < Len(order) /\ pc' \in {"warm", "aborted"} /\ round' = round
       \/ pos' = pos + 1 /\ pos = Len(order) /\ pc' \in {"round", "aborted"} /\ round' = round + 1
    /\ UNCHANGED <<cfg, src, st, stage, jobs, order, res>>

\* The action that records a sample is such a step.
LEMMA RecordedSampleIs ==
    ASSUME BenchInv, recorded_sample
    PROVE  \E j, refused, p : Records(j, refused, p)
<1> DEFINE j == order[pos]
           last == sample + 1 = n_samples[j]
<1>1. pc = "sample"
  BY DEF recorded_sample
<1>2. PICK refused \in Refused(jobs[j]) :
        /\ Passes(take_sample(jobs[j], refused), refused)
        /\ results' = [results EXCEPT ![j] = recorded(@, take_sample(jobs[j], refused))]
        /\ spoiled' = (spoiled \/ (stage = 0 /\ take_sample(jobs[j], refused).ok < src.slots))
        /\ pc' = IF jobs[j].name = "session_decrypt"
                       /\ take_sample(jobs[j], refused).rx # 1..src.slots
                 THEN "aborted"
                 ELSE IF ~last THEN "sample"
                 ELSE IF pos < Len(order) THEN "warm" ELSE "round"
  BY Zenon DEF recorded_sample
<1>3. /\ pos' = IF last THEN pos + 1 ELSE pos
      /\ round' = IF last /\ pos = Len(order) THEN round + 1 ELSE round
      /\ UNCHANGED <<cfg, src, st, stage, jobs, order, res>>
  BY Zenon DEF recorded_sample
<1> DEFINE p == take_sample(jobs[j], refused)
<1>4. pos \in 1..Len(order) /\ Len(order) \in Nat
  <2>1. Running
    BY <1>1 DEF Running
  <2>2. order \in Seq(DOMAIN jobs)
    BY <2>1 DEF BenchInv, RunTypeOK, RunShape
  <2>3. pos \in DOMAIN order
    BY <1>1, <2>1, NextJob
  <2> QED BY <2>2, <2>3
<1>5. pos < Len(order) \/ pos = Len(order)
  BY <1>4
<1>6. pos < Len(order) => pos # Len(order)
  BY <1>4
<1> HIDE DEF last, p
<1>7. pc' = "aborted" => jobs[j].name = "session_decrypt" /\ p.rx # 1..src.slots
  BY <1>2 DEF p
<1>8. \/ pc' \in {"sample", "aborted"} /\ pos' = pos /\ round' = round
      \/ pos' = pos + 1 /\ pos < Len(order) /\ pc' \in {"warm", "aborted"} /\ round' = round
      \/ pos' = pos + 1 /\ pos = Len(order) /\ pc' \in {"round", "aborted"} /\ round' = round + 1
  <2>1. pc' = "aborted" \/ pc' = (IF ~last THEN "sample" ELSE IF pos < Len(order) THEN "warm" ELSE "round")
    BY <1>2, Zenon
  <2>2. CASE ~last
    BY <1>3, <2>1, <2>2, Zenon
  <2>3. CASE last /\ pos < Len(order)
    BY <1>3, <1>6, <2>1, <2>3, Zenon
  <2>4. CASE last /\ pos = Len(order)
    <3>1. ~(pos < Len(order))
      BY <1>6, <2>4, Zenon
    <3> QED BY <1>3, <2>1, <2>4, <3>1, Zenon
  <2> QED BY <1>5, <2>2, <2>3, <2>4, Zenon
<1>9. Records(j, refused, p)
  BY <1>1, <1>2, <1>3, <1>7, <1>8, Zenon DEF Records, p
<1> QED BY <1>9, Zenon

\* What such a step says of the job, the pass and the refusals.
LEMMA RecordsStep ==
    ASSUME BenchInv, NEW j, NEW refused, NEW p, Records(j, refused, p)
    PROVE  /\ Running /\ Pooled /\ Pooled' /\ refusals' \in Nat
           /\ refusals' = 0 => refusals = 0 /\ refused = {}
           /\ j \in DOMAIN jobs /\ jobs[j] \in Job /\ Runnable(jobs[j])
           /\ p \in Pass(src.slots) /\ p.ok \in 0..src.slots
           /\ results' \in [DOMAIN jobs -> Result] /\ results \in [DOMAIN jobs -> Result]
           /\ \A i \in DOMAIN jobs \ {j} : results'[i] = results[i]
           /\ Tally(results[j], p, results'[j])
<1>1. /\ pc = "sample" /\ j = order[pos] /\ p = take_sample(jobs[j], refused)
      /\ Passes(p, refused) /\ src' = src
      /\ results' = [results EXCEPT ![j] = recorded(results[j], p)]
  BY Zenon DEF Records
<1>2. Running
  BY <1>1 DEF Running
<1>3. j \in DOMAIN jobs /\ jobs[j] \in Job /\ Pooled /\ refusals \in Nat
  BY <1>1, <1>2, NextJob
<1>4. Runnable(jobs[j])
  BY <1>3, JobRunnable, Zenon
<1>5. p \in Pass(src.slots) /\ p.ok \in 0..src.slots
  BY <1>1, <1>3, <1>4, PassType, Zenon
<1>6. Pooled' /\ refusals' \in Nat /\ (refusals' = 0 => refusals = 0 /\ refused = {})
  BY <1>1, <1>3, <1>4, PassStep, Zenon
<1>7. results \in [DOMAIN jobs -> Result]
  BY <1>2, Zenon DEF BenchInv, RunTypeOK, RunShape
<1>8. results[j] \in Result
  BY <1>3, <1>7, Zenon
<1>9. recorded(results[j], p) \in Result
  BY <1>3, <1>5, <1>8, Recorded, Zenon
<1>10. results' \in [DOMAIN jobs -> Result] /\ results'[j] = recorded(results[j], p)
  BY <1>1, <1>3, <1>7, <1>9, Zenon
<1>11. \A i \in DOMAIN jobs \ {j} : results'[i] = results[i]
  BY <1>1, <1>7, Zenon
<1>12. Tally(results[j], p, results'[j])
  <2>1. Tally(results[j], p, recorded(results[j], p))
    BY <1>3, <1>5, <1>8, Recorded, Zenon
  <2> QED BY <1>10, <2>1, Zenon
<1> QED BY <1>2, <1>3, <1>4, <1>5, <1>6, <1>7, <1>10, <1>11, <1>12, Zenon

\* The counts after a recorded sample.
LEMMA RecordsCounted ==
    ASSUME BenchInv, NEW j, NEW refused, NEW p, Records(j, refused, p)
    PROVE  /\ \A i \in DOMAIN jobs : results'[i].total_ops <= results'[i].expected_ops
           /\ \A i \in DOMAIN jobs : results[i].total_ops > 0 => results'[i].total_ops > 0
           /\ stage = 0 /\ spoiled' =>
                 \E i \in DOMAIN jobs : results'[i].total_ops < results'[i].expected_ops
<1>1. /\ Running /\ j \in DOMAIN jobs /\ p.ok \in 0..src.slots /\ src.slots \in Nat
      /\ results \in [DOMAIN jobs -> Result]
      /\ \A i \in DOMAIN jobs \ {j} : results'[i] = results[i]
      /\ Tally(results[j], p, results'[j])
  BY RecordsStep, Zenon DEF Pooled
<1>2. \A i \in DOMAIN jobs : results[i].total_ops \in Nat /\ results[i].expected_ops \in Nat
  BY <1>1, Zenon DEF Result
<1>3. /\ \A i \in DOMAIN jobs : results[i].total_ops <= results[i].expected_ops
      /\ stage = 0 /\ spoiled =>
            \E i \in DOMAIN jobs : results[i].total_ops < results[i].expected_ops
  BY <1>1, Zenon DEF BenchInv, Counted
<1>4. /\ results'[j].total_ops = results[j].total_ops + p.ok
      /\ results'[j].expected_ops = results[j].expected_ops + src.slots
  BY <1>1, Zenon DEF Tally
<1>5. p.ok \in Nat /\ p.ok <= src.slots /\ src.slots \in Nat
  BY <1>1
<1> DEFINE T(i) == results[i].total_ops
           X(i) == results[i].expected_ops
           TT(i) == results'[i].total_ops
           XX(i) == results'[i].expected_ops
<1>6. \A i \in DOMAIN jobs : i = j \/ (TT(i) = T(i) /\ XX(i) = X(i))
  BY <1>1, Zenon
<1> HIDE DEF T, X, TT, XX
<1>7. TT(j) = T(j) + p.ok /\ XX(j) = X(j) + src.slots
  BY <1>4 DEF T, X, TT, XX
<1>8. \A i \in DOMAIN jobs : T(i) \in Nat /\ X(i) \in Nat /\ T(i) <= X(i)
  BY <1>2, <1>3 DEF T, X
<1>9. ASSUME NEW i \in DOMAIN jobs
      PROVE  TT(i) <= XX(i) /\ (T(i) > 0 => TT(i) > 0) /\ (T(i) < X(i) => TT(i) < XX(i))
  <2>1. T(i) \in Nat /\ X(i) \in Nat /\ T(i) <= X(i)
    BY <1>8
  <2>2. \/ TT(i) = T(i) /\ XX(i) = X(i)
        \/ TT(i) = T(i) + p.ok /\ XX(i) = X(i) + src.slots
    BY <1>6, <1>7, Zenon
  <2> QED BY <1>5, <2>1, <2>2
<1>10. ASSUME stage = 0, spoiled' PROVE \E i \in DOMAIN jobs : TT(i) < XX(i)
  <2>1. CASE spoiled
    BY <1>3, <1>9, <1>10, <2>1, Zenon DEF T, X
  <2>2. CASE ~spoiled
    <3>1. p.ok < src.slots
      BY <1>10, <2>2, Zenon DEF Records
    <3>2. TT(j) < XX(j)
      <4>1. T(j) \in Nat /\ X(j) \in Nat /\ T(j) <= X(j)
        BY <1>1, <1>8, Zenon
      <4> QED BY <1>5, <1>7, <3>1, <4>1
    <3> QED BY <1>1, <3>2, Zenon
  <2> QED BY <2>1, <2>2
<1> QED BY <1>9, <1>10, Zenon DEF T, X, TT, XX

\* The checksums after a recorded sample, when nothing was refused.
LEMMA RecordsSound ==
    ASSUME BenchInv, NEW j, NEW refused, NEW p, Records(j, refused, p), Unrefused, refused = {}
    PROVE  /\ \A i \in DOMAIN jobs :
                 LET r == results'[i]
                 IN  /\ r.total_ops = r.expected_ops
                     /\ r.total_ops = 0 => r.acc = <<>>
                     /\ jobs[i].family # "Null" =>
                           /\ r.acc_stable
                           /\ r.total_ops > 0 =>
                                 r.acc = Checksum(src.slots, jobs[i].family, jobs[i].hot)
           /\ results'[j].total_ops > 0
           /\ jobs[j].name = "session_decrypt" => p.rx = 1..src.slots
<1>1. /\ Pooled /\ j \in DOMAIN jobs /\ jobs[j] \in Job /\ Runnable(jobs[j])
      /\ results \in [DOMAIN jobs -> Result]
      /\ \A i \in DOMAIN jobs \ {j} : results'[i] = results[i]
      /\ Tally(results[j], p, results'[j])
  BY RecordsStep, Zenon
<1> DEFINE r == results[j]
           q == results'[j]
           sum == Checksum(src.slots, jobs[j].family, jobs[j].hot)
           Sane(x, i) == /\ x.total_ops = x.expected_ops
                         /\ x.total_ops = 0 => x.acc = <<>>
                         /\ jobs[i].family # "Null" =>
                               /\ x.acc_stable
                               /\ x.total_ops > 0 =>
                                     x.acc = Checksum(src.slots, jobs[i].family, jobs[i].hot)
<1>2. \A i \in DOMAIN jobs : Sane(results[i], i)
  BY Zenon DEF BenchInv, Sound
<1>3. p = take_sample(jobs[j], {})
  BY Zenon DEF Records
<1>4. jobs[j].family = Family(jobs[j].name) /\ (jobs[j].family = "Null" <=> jobs[j].name = "null")
  BY <1>1, JobRunnable, Zenon
<1>5. /\ p.ok = src.slots
      /\ jobs[j].family # "Null" => p.acc = sum
      /\ jobs[j].name = "session_decrypt" => p.rx = 1..src.slots
  <2>1. CASE jobs[j].name = "null"
    <3>1. p.ok = src.slots
      BY <1>1, <1>3, <2>1, NullPass, Zenon
    <3> QED BY <1>4, <2>1, <3>1
  <2>2. CASE jobs[j].name # "null"
    <3>1. /\ take_sample(jobs[j], {}).ok = src.slots
          /\ take_sample(jobs[j], {}).acc = Checksum(src.slots, Family(jobs[j].name), jobs[j].hot)
          /\ jobs[j].name = "session_decrypt" => take_sample(jobs[j], {}).rx = 1..src.slots
      BY <1>1, <2>2, SoundPass, Zenon
    <3> QED BY <1>3, <1>4, <3>1, Zenon
  <2> QED BY <2>1, <2>2, Zenon
<1>6. /\ q.total_ops = r.total_ops + src.slots /\ q.expected_ops = r.expected_ops + src.slots
      /\ q.acc = IF r.total_ops = 0 THEN p.acc ELSE r.acc
      /\ q.acc_stable <=> r.acc_stable /\ (r.total_ops = 0 \/ r.acc = p.acc)
  BY <1>1, <1>5, Zenon DEF Tally
<1>7. r.total_ops \in Nat /\ src.slots \in Nat \ {0}
  BY <1>1, Zenon DEF Result, Pooled
<1>8. Sane(r, j)
  BY <1>1, <1>2, Zenon
<1> HIDE DEF r, q, sum
<1>9. q.total_ops > 0 /\ q.total_ops # 0 /\ (r.total_ops > 0 \/ r.total_ops = 0)
  BY <1>6, <1>7
<1>10. Sane(q, j)
  <2>1. q.total_ops = q.expected_ops
    BY <1>6, <1>8, Zenon
  <2>2. jobs[j].family # "Null" => q.acc_stable /\ q.acc = sum
    BY <1>5, <1>6, <1>8, <1>9, Zenon DEF sum
  <2> QED BY <1>9, <2>1, <2>2, Zenon DEF sum
<1>11. ASSUME NEW i \in DOMAIN jobs PROVE Sane(results'[i], i)
  <2>1. CASE i = j
    BY <1>10, <2>1, Zenon DEF q
  <2>2. CASE i # j
    BY <1>1, <1>2, <2>2, Zenon
  <2> QED BY <2>1, <2>2, Zenon
<1> QED BY <1>5, <1>9, <1>11, Zenon DEF q

\* The cold null job keeps the first checksum it recorded, which was of the
\* sender's packets; the one it takes in round 1 is of the copy's.
LEMMA RecordsDrift ==
    ASSUME BenchInv, NEW j, NEW refused, NEW p, Records(j, refused, p), Unrefused, refused = {}
    PROVE  /\ results'[2].total_ops > 0 =>
                 results'[2].acc = [k \in 1..src.slots |-> wire_packet(k - 1)]
           /\ ~results[2].acc_stable => ~results'[2].acc_stable
           /\ round = 1 /\ pos = Len(order) => ~results'[2].acc_stable
<1> DEFINE wires == [k \in 1..src.slots |-> wire_packet(k - 1)]
<1>1. /\ Running /\ Pooled /\ j \in DOMAIN jobs /\ Runnable(jobs[j])
      /\ results \in [DOMAIN jobs -> Result]
      /\ \A i \in DOMAIN jobs \ {j} : results'[i] = results[i]
      /\ Tally(results[j], p, results'[j])
  BY RecordsStep, Zenon
<1>2. stage = 0 /\ pc = "sample" /\ j = order[pos] /\ p = take_sample(jobs[j], {})
  BY Zenon DEF Unrefused, Records
<1>3. /\ Len(jobs) = 19 /\ DOMAIN jobs = 1..19 /\ jobs[2].name = "null" /\ ~jobs[2].hot
  BY <1>1, <1>2, MainRun, Zenon
<1>4. results[2].total_ops > 0 => results[2].acc = wires
  BY Zenon DEF BenchInv, Drifts
<1>5. CASE j # 2
  <2>1. 2 \in DOMAIN jobs
    BY <1>3
  <2>2. results'[2] = results[2]
    BY <1>1, <1>5, <2>1, Zenon
  <2>3. ASSUME round = 1, pos = Len(order) PROVE FALSE
    <3>1. Len(order) = Len(jobs)
      BY <1>1, Zenon DEF BenchInv, RunTypeOK, RunShape
    <3>2. pos = 19
      BY <1>3, <2>3, <3>1, Zenon
    <3>3. Backwards
      BY <1>2, <2>3 DEF BenchInv, Drifts
    <3>4. order[19] = 2
      BY <1>3, <3>3 DEF Backwards
    <3> QED BY <1>2, <1>5, <3>2, <3>4, Zenon
  <2> QED BY <1>4, <2>2, <2>3, Zenon
<1>6. CASE j = 2
  <2> DEFINE r == results[2]
             q == results'[2]
             cold == [k \in 1..src.slots |-> dst[k - 1]]
  <2>1. /\ q.acc = IF r.total_ops = 0 THEN p.acc ELSE r.acc
        /\ q.acc_stable <=> r.acc_stable /\ (r.total_ops = 0 \/ r.acc = p.acc)
    BY <1>1, <1>6, Zenon DEF Tally
  <2>2. p.acc = cold
    <3> DEFINE job == jobs[j]
    <3>1. job.name = "null" /\ ~job.hot /\ Runnable(job) /\ Pooled
      BY <1>1, <1>3, <1>6, Zenon
    <3> HIDE DEF job
    <3>2. take_sample(job, {}).acc = cold
      BY <3>1, NullPass
    <3> QED BY <1>2, <3>2, Zenon DEF job
  <2>3. r.total_ops \in Nat
    BY <1>1, <1>6, Zenon DEF Result
  <2>4. r.total_ops = 0 => cold = wires
    <3> SUFFICES ASSUME r.total_ops = 0 PROVE cold = wires
      OBVIOUS
    <3>1. round = 0
      <4>1. round > 0 => r.total_ops > 0
        BY <1>1, <1>6, Zenon DEF BenchInv, Sound
      <4>2. round \in Nat
        BY <1>1, Zenon DEF BenchInv, RunTypeOK, RunShape
      <4>3. ~(r.total_ops > 0)
        BY <2>3
      <4> HIDE DEF r
      <4> QED BY <4>1, <4>2, <4>3
    <3>2. pos = 2
      <4>1. pos \in DOMAIN jobs
        BY <1>1, <1>2, NextJob
      <4>2. Identity
        BY <3>1 DEF BenchInv, Drifts
      <4> QED BY <1>2, <1>6, <4>1, <4>2, Zenon DEF Identity
    <3>3. Fills("session_encrypt", dst)
      <4>1. pos <= 2
        BY <3>2
      <4> QED BY <1>2, <3>1, <4>1 DEF BenchInv, Drifts
    <3>4. \A k \in 1..src.slots : dst[k - 1] = wire_packet(k - 1)
      <4>1. \A k \in 1..src.slots : k - 1 \in 0..src.slots - 1
        BY <1>1 DEF Pooled
      <4>2. \A t : Written("session_encrypt", t) = wire_packet(t)
        BY DEF Written
      <4> QED BY <3>3, <4>1, <4>2, Zenon DEF Fills
    <3> QED BY <3>4, Zenon
  <2>5. round = 1 /\ pos = Len(order) => r.total_ops > 0 /\ cold # wires
    <3> SUFFICES ASSUME round = 1, pos = Len(order) PROVE r.total_ops > 0 /\ cold # wires
      OBVIOUS
    <3>1. r.total_ops > 0
      <4>1. round > 0
        OBVIOUS
      <4> QED BY <1>1, <1>6, <4>1, Zenon DEF BenchInv, Sound
    <3>2. Fills("copy_payload", dst)
      <4>1. Len(order) = Len(jobs)
        BY <1>1, Zenon DEF BenchInv, RunTypeOK, RunShape
      <4>2. pos >= Len(jobs) - 1
        BY <1>3, <4>1
      <4> QED BY <1>2, <4>2 DEF BenchInv, Drifts
    <3>3. dst[0] = sealed("aes", 0)
      <4>1. 0 \in 0..src.slots - 1
        BY <1>1 DEF Pooled
      <4> QED BY <3>2, <4>1, Zenon DEF Fills, Written
    <3>4. 1 \in 1..src.slots /\ 1 - 1 = 0
      BY <1>1 DEF Pooled
    <3>5. cold[1] = sealed("aes", 0) /\ wires[1] = wire_packet(0)
      BY <3>3, <3>4, Zenon
    <3>6. sealed("aes", 0) # wire_packet(0)
      BY DEF sealed, wire_packet
    <3> HIDE DEF cold, wires
    <3> QED BY <3>1, <3>5, <3>6, Zenon
  <2>6. r.total_ops > 0 \/ r.total_ops = 0
    BY <2>3
  <2>7. r.total_ops > 0 => r.total_ops # 0
    BY <2>3
  <2> HIDE DEF r, q, cold, wires
  <2>8. r.total_ops > 0 => r.acc = wires
    BY <1>4 DEF r
  <2>9. /\ q.acc = wires
        /\ ~r.acc_stable => ~q.acc_stable
        /\ round = 1 /\ pos = Len(order) => ~q.acc_stable
    BY <2>1, <2>2, <2>4, <2>5, <2>6, <2>7, <2>8, Zenon
  <2> QED BY <2>9, Zenon DEF r, q, wires
<1> QED BY <1>5, <1>6

\* A recorded sample keeps the invariant.
LEMMA RecordedSample ==
    ASSUME BenchInv, recorded_sample
    PROVE  BenchInv'
<1> USE DEF BenchInv
<1>1. PICK j, refused, p : Records(j, refused, p)
  BY RecordedSampleIs, Zenon
<1>2. /\ pc = "sample" /\ j = order[pos] /\ p = take_sample(jobs[j], refused)
      /\ Passes(p, refused)
      /\ spoiled' = (spoiled \/ (stage = 0 /\ p.ok < src.slots))
      /\ pc' = "aborted" => jobs[j].name = "session_decrypt" /\ p.rx # 1..src.slots
      /\ UNCHANGED <<cfg, src, st, stage, jobs, order, res>>
  BY <1>1, Zenon DEF Records
<1>3. \/ pc' \in {"sample", "aborted"} /\ pos' = pos /\ round' = round
      \/ pos' = pos + 1 /\ pos < Len(order) /\ pc' \in {"warm", "aborted"} /\ round' = round
      \/ pos' = pos + 1 /\ pos = Len(order) /\ pc' \in {"round", "aborted"} /\ round' = round + 1
  BY <1>1, Zenon DEF Records
<1>4. /\ Running /\ Pooled /\ Pooled' /\ refusals' \in Nat
      /\ refusals' = 0 => refusals = 0 /\ refused = {}
      /\ j \in DOMAIN jobs
      /\ results' \in [DOMAIN jobs -> Result]
  BY <1>1, RecordsStep, Zenon
<1>5. pc' \in {"sample", "warm", "round", "aborted"}
  BY <1>3
<1>6. /\ RunShape /\ jobs \in Seq(Job) /\ order \in Seq(DOMAIN jobs) /\ Len(order) = Len(jobs)
      /\ round \in Nat
  BY <1>4, Zenon DEF RunTypeOK, RunShape
<1>7. Len(order) \in Nat /\ DOMAIN jobs = 1..Len(order) /\ DOMAIN order = 1..Len(order)
  BY <1>6
<1>8. pos \in 1..Len(order)
  BY <1>2, <1>4, <1>7, NextJob
<1>9. refused = {} => (jobs[j].name = "session_decrypt" => p.rx = 1..src.slots)
  <2> SUFFICES ASSUME refused = {}, jobs[j].name = "session_decrypt" PROVE p.rx = 1..src.slots
    OBVIOUS
  <2>1. Runnable(jobs[j])
    BY <1>1, RecordsStep, Zenon
  <2>2. jobs[j].name # "null"
    OBVIOUS
  <2> QED BY <1>2, <1>4, <2>1, <2>2, SoundPass, Zenon
<1>10. BenchTypeOK'
  <2>1. spoiled' \in BOOLEAN
    BY <1>2
  <2> QED BY <1>2, <1>4, <1>5, <2>1 DEF BenchTypeOK
<1>11. RunTypeOK'
  <2>1. round' \in Nat
    BY <1>3, <1>6
  <2>2. RunShape'
    <3>1. jobs' = jobs /\ order' = order /\ stage' = stage
      BY <1>2, Zenon
    <3>2. results' \in [DOMAIN jobs -> Result] /\ RunShape
      BY <1>4, <1>6, Zenon
    <3> QED BY <2>1, <3>1, <3>2, Zenon DEF RunShape
  <2>3. pc' \in {"sample", "warm"} => pos' \in DOMAIN jobs
    <3> DEFINE n == Len(order)
    <3>1. n \in Nat /\ DOMAIN jobs = 1..n /\ pos \in 1..n
      BY <1>7, <1>8, Zenon
    <3>2. \/ pc' \in {"sample", "aborted"} /\ pos' = pos
          \/ pos' = pos + 1 /\ pos < n
          \/ pc' \in {"round", "aborted"}
      BY <1>3, Zenon
    <3> HIDE DEF n
    <3>3. pc' \in {"sample", "warm"} => pos' \in 1..n
      BY <3>1, <3>2
    <3> QED BY <3>1, <3>3, Zenon
  <2> QED BY <1>2, <1>5, <2>2, <2>3 DEF RunTypeOK, Running
<1>12. Counted'
  <2>1. /\ \A i \in DOMAIN jobs : results'[i].total_ops <= results'[i].expected_ops
        /\ stage = 0 /\ spoiled' =>
              \E i \in DOMAIN jobs : results'[i].total_ops < results'[i].expected_ops
    BY <1>1, RecordsCounted, Zenon
  <2>2. pc' \notin {"start", "self_test", "warm_up"}
    BY <1>5
  <2> QED BY <1>2, <2>1, <2>2, Zenon DEF Counted
<1>13. Unrefused' => Unrefused /\ refused = {}
  BY <1>2, <1>4, Zenon DEF Unrefused
<1>14. pc' = "round" => round' = round + 1
  BY <1>3
<1>15. Sound'
  <2>1. refusals' = 0 => round_trips'
    BY <1>2, <1>4, GatesKept DEF Sound
  <2> SUFFICES ASSUME Unrefused' PROVE Sound'
    BY <2>1 DEF Sound
  <2>2. Unrefused /\ refused = {} /\ pc' # "aborted"
    BY <1>13 DEF Unrefused, Running
  <2> DEFINE Sane(i) == LET r == results'[i]
                        IN  /\ r.total_ops = r.expected_ops
                            /\ r.total_ops = 0 => r.acc = <<>>
                            /\ jobs[i].family # "Null" =>
                                  /\ r.acc_stable
                                  /\ r.total_ops > 0 =>
                                        r.acc = Checksum(src.slots, jobs[i].family, jobs[i].hot)
  <2>3. (\A i \in DOMAIN jobs : Sane(i)) /\ results'[j].total_ops > 0
    BY <1>1, <2>2, RecordsSound, Zenon
  <2>4. \A i \in DOMAIN jobs : results[i].total_ops > 0 => results'[i].total_ops > 0
    BY <1>1, RecordsCounted, Zenon
  <2>5. ASSUME NEW q \in 1..pos PROVE results'[order[q]].total_ops > 0
    <3>1. CASE q = pos
      BY <1>2, <2>3, <3>1, Zenon
    <3>2. CASE q # pos
      <4>1. q \in 1..pos - 1 /\ q \in DOMAIN order
        BY <1>7, <1>8, <3>2
      <4>2. results[order[q]].total_ops > 0
        BY <1>2, <2>2, <4>1, Zenon DEF Sound
      <4>3. order[q] \in DOMAIN jobs
        BY <1>6, <4>1
      <4> QED BY <2>4, <4>2, <4>3, Zenon
    <3> QED BY <3>1, <3>2
  <2>6. round' > 0 => \A i \in DOMAIN jobs : results'[i].total_ops > 0
    <3>1. CASE round' = round
      BY <2>2, <2>4, <3>1, Zenon DEF Sound
    <3>2. CASE pos = Len(order)
      <4>1. \A i \in DOMAIN jobs : \E q \in DOMAIN order : order[q] = i
        BY <1>6, Zenon DEF RunShape
      <4> QED BY <1>7, <2>5, <3>2, <4>1, Zenon
    <3> QED BY <1>3, <3>1, <3>2
  <2>7. ~(round' = 0 /\ pc' \in {"calibrate", "round"})
    BY <1>5, <1>6, <1>14
  <2>8. pc' \in {"warm", "sample"} => \A q \in 1..pos' - 1 : results'[order[q]].total_ops > 0
    <3>1. 1..pos' - 1 \subseteq 1..pos
      BY <1>3, <1>8
    <3> QED BY <2>5, <3>1, Zenon
  <2> HIDE DEF Sane
  <2>9. \A i \in DOMAIN jobs' : LET r == results'[i]
                               IN  /\ r.total_ops = r.expected_ops
                                   /\ r.total_ops = 0 => r.acc = <<>>
                                   /\ jobs'[i].family # "Null" =>
                                         /\ r.acc_stable
                                         /\ r.total_ops > 0 =>
                                            r.acc = Checksum(src'.slots, jobs'[i].family, jobs'[i].hot)
    BY <1>2, <2>3, Zenon DEF Sane
  <2> QED BY <1>2, <2>1, <2>6, <2>7, <2>8, <2>9, Zenon DEF Sound
<1>16. Drifts'
  <2> SUFFICES ASSUME Unrefused' PROVE Drifts'
    BY DEF Drifts
  <2>1. Unrefused /\ refused = {} /\ pc' # "aborted" /\ stage = 0
    BY <1>13 DEF Unrefused, Running
  <2>2. Len(jobs) = 19
    BY <1>4, <2>1, MainRun, Zenon
  <2>3. /\ results'[2].total_ops > 0 =>
              results'[2].acc = [k \in 1..src.slots |-> wire_packet(k - 1)]
        /\ ~results[2].acc_stable => ~results'[2].acc_stable
        /\ round = 1 /\ pos = Len(order) => ~results'[2].acc_stable
    BY <1>1, <2>1, RecordsDrift, Zenon
  <2>4. dst' = take_sample(jobs[order[pos]], {}).dst
    BY <1>2, <2>1, Zenon DEF Passes
  <2>5. /\ round = 0 /\ pos <= 2 => Fills("session_encrypt", dst)'
        /\ round = 1 /\ pos >= 17 => Fills("copy_payload", dst)'
    BY <1>2, <2>1, <2>4, KeptFill, Zenon
  <2>6. /\ round = 0 => Identity
        /\ round = 1 => Backwards
        /\ round >= 2 => ~results[2].acc_stable
    BY <1>2, <2>1 DEF Drifts
  <2>7. (Identity => Identity') /\ (Backwards => Backwards')
    BY <1>2, Zenon DEF Identity, Backwards
  <2>8. /\ round' = 0 => round = 0
        /\ pc' = "round" /\ round' = 1 => round = 0
        /\ pc' = "round" => round' # 0
        /\ pc' # "calibrate"
    BY <1>3, <1>5, <1>6
  <2>9. /\ pc' \in {"warm", "sample"} => round' = round
        /\ pos' <= 2 => pos <= 2
        /\ pos' >= Len(jobs) - 1 => pos >= 17
    BY <1>3, <1>8, <2>1, <2>2
  <2>10. round' >= 2 => ~results'[2].acc_stable
    <3>1. round' >= 2 => round >= 2 \/ (round = 1 /\ pos = Len(order))
      BY <1>3, <1>6
    <3> QED BY <2>3, <2>6, <3>1, Zenon
  <2> QED BY <1>2, <2>3, <2>5, <2>6, <2>7, <2>8, <2>9, <2>10, Zenon DEF Drifts
<1>17. Settled'
  <2> SUFFICES ASSUME Returned' PROVE Settled'
    BY DEF Settled
  <2>1. stage # 0 /\ Returned
    BY <1>2, <1>5 DEF Returned, BenchTypeOK
  <2>2. gates' = gates /\ all_ok' = all_ok /\ Drifted' = Drifted
    BY <1>2, GatesKept
  <2>3. (spoiled' => spoiled) /\ cfg' = cfg
    BY <1>2, <2>1, Zenon
  <2> QED BY <1>4, <2>1, <2>2, <2>3, Zenon DEF Settled
<1>18. RunSurvives'
  <2>1. pc' = "aborted" => refused # {}
    BY <1>2, <1>9, Zenon
  <2>2. refusals' = 0 \/ refusals' > 0
    BY <1>4
  <2> QED BY <1>4, <2>1, <2>2, Zenon DEF RunSurvives
<1> QED BY <1>10, <1>11, <1>12, <1>15, <1>16, <1>17, <1>18

\* The next length of the sweep: a pool again, and jobs.
LEMMA SweepStep ==
    ASSUME BenchInv, sweep
    PROVE  BenchInv'
<1> USE DEF BenchInv
<1>1. /\ pc = "sweep" /\ stage' = stage + 1 /\ Build(SweepLens[stage'], "calibrate")
      /\ run_all(sweep_arms) /\ UNCHANGED <<cfg, st, committed, res, refusals, spoiled>>
  BY DEF sweep
<1>2. stage \in 0..4 /\ stage < 4
  BY <1>1, Sweep DEF BenchTypeOK
<1>3. stage' \in 1..4 /\ stage' \in 0..4 /\ stage' # 0 /\ stage' > 0
  BY <1>1, <1>2
<1>4. SweepLens[stage'] \in Nat /\ cfg \in Config
  BY <1>3, Sweep, Zenon DEF BenchTypeOK
<1>5. src' = build(SweepLens[stage'], cfg) /\ src'.slots \in Nat \ {0}
  BY <1>1, <1>4, BuildSlots, Zenon DEF Build
<1>6. pc' = "calibrate" /\ dst' = [i \in 0..(src'.slots - 1) |-> zero]
  <2>1. /\ dst' = [i \in 0..(src'.slots - 1) |-> zero]
        /\ pc' = IF src'.slots = 0 THEN "aborted" ELSE "calibrate"
    BY <1>1, <1>5, Zenon DEF Build
  <2> QED BY <1>5, <2>1
<1>7. Pooled'
  BY <1>5, <1>6, WordType DEF Pooled
<1>8. jobs_of(sweep_arms) \in Seq(Job) /\ jobs_of(sweep_arms) # <<>>
  <2>1. "rc_aesgcm256_dec" \in sweep_arms
    BY DEF sweep_arms
  <2> QED BY <2>1, SomeJobs, Zenon
<1>9. /\ jobs' = jobs_of(sweep_arms)
      /\ results' \in [DOMAIN jobs' -> Result]
      /\ \A j \in DOMAIN jobs' : Fresh(results'[j])
      /\ order' \in Seq(DOMAIN jobs') /\ Len(order') = Len(jobs')
      /\ \A q \in DOMAIN jobs' : order'[q] = q
      /\ DOMAIN order' = DOMAIN jobs' /\ round' = 0 /\ pos' = 1 /\ pos' \in DOMAIN jobs'
  BY <1>1, <1>8, RunAllStarts, Zenon
<1>10. BenchTypeOK'
  <2>1. stage' \in 0..Len(SweepLens)
    BY <1>3, Sweep, Zenon
  <2> QED BY <1>1, <1>6, <1>7, <2>1 DEF BenchTypeOK
<1>11. RunTypeOK'
  <2>1. \A j \in DOMAIN jobs' : \E q \in DOMAIN order' : order'[q] = j
    BY <1>9, Zenon
  <2>2. 0 \in Nat
    OBVIOUS
  <2>3. RunShape'
    BY <1>3, <1>8, <1>9, <2>1, <2>2, Zenon DEF RunShape
  <2> QED BY <1>6, <1>9, <2>3, Zenon DEF RunTypeOK
<1>12. Counted'
  <2>1. \A j \in DOMAIN jobs' : results'[j].total_ops = 0 /\ results'[j].expected_ops = 0
    BY <1>9, Zenon DEF Fresh
  <2>2. ASSUME NEW j \in DOMAIN jobs' PROVE results'[j].total_ops <= results'[j].expected_ops
    BY <2>1
  <2>3. pc' \notin {"start", "self_test", "warm_up"}
    BY <1>6
  <2> QED BY <1>3, <2>2, <2>3, Zenon DEF Counted
<1>13. ~Unrefused'
  BY <1>3, Zenon DEF Unrefused
<1>14. gates' = gates /\ all_ok' = all_ok /\ Drifted' = Drifted /\ round_trips' = round_trips
  BY <1>1, GatesKept
<1>15. Sound' /\ Drifts'
  BY <1>1, <1>13, <1>14, Zenon DEF Sound, Drifts
<1>16. Settled'
  <2>1. Returned
    BY <1>1 DEF Returned
  <2> QED BY <1>1, <1>14, <2>1, Zenon DEF Settled
<1>17. RunSurvives'
  BY <1>6 DEF RunSurvives
<1> QED BY <1>10, <1>11, <1>12, <1>15, <1>16, <1>17

\* The report judges, and changes nothing it judges by.
LEMMA PrintReport ==
    ASSUME BenchInv, print_report
    PROVE  BenchInv'
<1> USE DEF BenchInv
<1>1. /\ pc = "report" /\ pc' = "done"
      /\ UNCHANGED <<cfg, src, st, dst, stage, res, refusals, spoiled>>
  BY DEF print_report
<1>2. gates' = gates /\ all_ok' = all_ok /\ Drifted' = Drifted /\ round_trips' = round_trips
  BY <1>1, GatesKept
<1>3. ~Running' /\ ~Unrefused' /\ Returned
  BY <1>1 DEF Running, Unrefused, Returned
<1>4. BenchTypeOK'
  BY <1>1, <1>3 DEF BenchTypeOK
<1>5. Counted' /\ RunSurvives'
  BY <1>1, <1>3 DEF Counted, RunSurvives
<1> QED BY <1>1, <1>2, <1>3, <1>4, <1>5, Zenon DEF RunTypeOK, Sound, Drifts, Settled

\* A finished program stays as it is.
LEMMA BenchStutters ==
    ASSUME BenchInv, UNCHANGED bench_vars
    PROVE  BenchInv'
<1> USE DEF BenchInv
<1>1. UNCHANGED <<pc, cfg, src, st, dst, stage, jobs, results, order, round, pos, res, refusals,
                  spoiled>>
  BY DEF bench_vars, run_vars
<1>2. gates' = gates /\ all_ok' = all_ok /\ Drifted' = Drifted /\ round_trips' = round_trips
  BY <1>1, GatesKept
<1>3. Running' = Running /\ Unrefused' = Unrefused /\ Returned' = Returned /\ Pooled' = Pooled
  BY <1>1 DEF Running, Unrefused, Returned, Pooled
<1>4. BenchTypeOK' /\ Counted' /\ RunSurvives'
  BY <1>1, <1>3, Zenon DEF BenchTypeOK, Counted, RunSurvives
<1>5. RunTypeOK'
  <2>1. RunShape' = RunShape
    BY <1>1, Zenon DEF RunShape
  <2> QED BY <1>1, <1>3, <2>1, Zenon DEF RunTypeOK
<1>6. Sound' /\ Drifts'
  BY <1>1, <1>2, <1>3, Zenon DEF Sound, Drifts, Identity, Backwards, Fills
<1>7. Settled'
  BY <1>1, <1>2, <1>3, Zenon DEF Settled
<1> QED BY <1>4, <1>5, <1>6, <1>7

\* Every step of the program keeps the invariant.
LEMMA BenchStep ==
    ASSUME BenchInv, [BenchNext]_bench_vars
    PROVE  BenchInv'
<1>1. CASE main_builds
  BY <1>1, MainBuilds
<1>2. CASE self_test
  BY <1>2, SelfTest
<1>3. CASE warm_up
  BY <1>3, WarmUp
<1>4. CASE calibrate
  BY <1>4, Calibrate
<1>5. CASE begin_round
  BY <1>5, BeginRound
<1>6. CASE warm_up_sample
  BY <1>6, WarmUpSample
<1>7. CASE recorded_sample
  BY <1>7, RecordedSample
<1>8. CASE run_returns
  BY <1>8, RunReturns
<1>9. CASE sweep
  BY <1>9, SweepStep
<1>10. CASE print_report
  BY <1>10, PrintReport
<1>11. CASE Finished \/ UNCHANGED bench_vars
  BY <1>11, BenchStutters DEF Finished
<1> QED BY <1>1, <1>2, <1>3, <1>4, <1>5, <1>6, <1>7, <1>8, <1>9, <1>10, <1>11 DEF BenchNext

\* The invariant of a run (BenchInv) holds throughout: main, its self test, the
\* calibration, every round and sample of run_all, the sweep and the report.
THEOREM BenchInvariant == BenchSpec => []BenchInv
<1>1. BenchInv /\ [BenchNext]_bench_vars => BenchInv'
  BY BenchStep, Zenon
<1> QED BY <1>1, BenchInitial, PTL DEF BenchSpec

\* Given memory and a sealed pool, main panics or exits early only after the AEAD
\* refused a packet: no argument crosses the bounds of the clamp in Src::build,
\* and session_decrypt commits every packet once.
THEOREM BenchRunSurvives == BenchSpec => []RunSurvives
<1>1. BenchInv => RunSurvives
  BY DEF BenchInv
<1> QED BY <1>1, BenchInvariant, PTL

\* When the AEAD refused nothing, every gate of the report passes: within a family
\* and a residency all arms have one checksum, every job but null keeps its own,
\* every count is full, and every provider round-trips.
THEOREM BenchSoundRunPasses == BenchSpec => []SoundRunPasses
<1>1. BenchInv => SoundRunPasses
  BY DEF BenchInv, Settled, Returned, SoundRunPasses
<1> QED BY <1>1, BenchInvariant, PTL

\* When every gate of the report passes, no recorded sample of the main run had a
\* refused packet: a count once short is never made up by later samples.
THEOREM BenchGatesCatchRefusals == BenchSpec => []GatesCatchRefusals
<1>1. BenchInv => GatesCatchRefusals
  BY DEF BenchInv, Settled, Returned, GatesCatchRefusals, gates
<1> QED BY <1>1, BenchInvariant, PTL

\* The exemption of null from the stability gate is needed: from two rounds on, its
\* cold checksum differs between rounds of a run in which nothing was refused.
THEOREM BenchNullDrifts == BenchSpec => []NullDrifts
<1>1. BenchInv => NullDrifts
  BY DEF BenchInv, Settled, Returned, NullDrifts, Drifted
<1> QED BY <1>1, BenchInvariant, PTL
=============================================================================
