-------------------------------- MODULE Bench --------------------------------
(***************************************************************************)
(* The AEAD benchmark (lightway-expresslane-bench): its packet pool, its   *)
(* ten arms, the runner that interleaves them over one shared destination  *)
(* buffer, and the gates its report prints.  What an arm folds into its    *)
(* checksum is what it left in the buffer, or, if it wrote nothing, what   *)
(* some earlier arm left there.  The cycle counts are not modelled.        *)
(***************************************************************************)
EXTENDS Integers, Sequences

CONSTANTS RoundChoices,    \* --rounds
          MaxSlotsChoices, \* --max-slots
          PoolChoices,     \* --pool-mib, in bytes
          MinSlots,        \* the floor of the pool: 64 in the code
          SampleChoices,   \* samples of an arm in a round: 8..512 in the code
          MaxRefusals      \* bound: passes in which the AEAD refuses a packet

ASSUME BenchAssumption ==
    /\ MinSlots \in Nat \ {0} /\ MaxRefusals \in Nat
    /\ SampleChoices \subseteq Nat \ {0}
    /\ RoundChoices \cup MaxSlotsChoices \cup PoolChoices \subseteq Nat

VARIABLES pc, cfg, src, st,
          dst,       \* what lies in each slot of the destination buffer
          committed, \* the counters the last receive session has committed
          stage,     \* the run_all in progress: 0 the main one, then the sweep's
          jobs, results, n_samples, order, round, pos, sample,
          res,       \* the results of the main run, which the report judges
          refusals,  \* history: passes with a refused packet
          spoiled    \* history: one of them was a recorded sample of the main run

run_vars == <<jobs, results, n_samples, order, round, pos, sample>>
bench_vars == <<pc, cfg, src, st, dst, committed, stage, run_vars, res, refusals, spoiled>>

-----------------------------------------------------------------------------
WIRE_OVERHEAD == 40
M1_MEAN_PKT == 1350
SweepLens == <<64, 256, 576, M1_MEAN_PKT>>

align_up(v, a) == ((v + a - 1) \div a) * a

\* Fault: the argument as it is.
slot_cap_bare(max_slots) == max_slots

\* max_slots.max(64).
slot_cap(max_slots) == IF max_slots < MinSlots THEN MinSlots ELSE max_slots

\* Ord::clamp panics when its bounds are crossed: no pool.  Memory is enough
\* for the buffers, and the session seals every packet of the pool: the panics
\* of the allocations and of the two expects are left out.
build(len, c) ==
    LET aligned == align_up(WIRE_OVERHEAD + len + 16, 64) + 128
        stride  == IF \E k \in 0..16 : aligned = 2^k THEN aligned + 64 ELSE aligned
        fit     == c.pool_bytes \div stride
        cap     == slot_cap(c.max_slots)
    IN  [len |-> len, stride |-> stride,
         slots |-> IF cap < MinSlots THEN 0
                   ELSE IF fit < MinSlots THEN MinSlots
                   ELSE IF fit > cap THEN cap ELSE fit]

\* Sched::new: a hot pass stays on slot 0.  The offset it folds at is the same
\* in every arm, so a word is told by what lies in the slot.
sched(hot) == [i \in 1..src.slots |-> IF hot THEN 0 ELSE i - 1]

-----------------------------------------------------------------------------
\* What eight bytes of a slot can be: of the plaintext, of a ciphertext, of a
\* tag, of a whole wire packet, zeros, or a provider's debris.  aes-gcm and
\* ring are one cipher: that they agree byte for byte is taken from outside.
plain(s) == <<"plain", s>>
sealed(cipher, s) == <<cipher, s>>
tag(cipher, s) == <<"tag", cipher, s>>
wire_packet(s) == <<"wire", s>>
zero == <<"zero">>
debris == <<"debris">>

\* A pass under way: the buffer, the checksum, the count of successes, and the
\* counters the receive session has committed.
left(p, s, out, words, ok) ==
    [dst |-> [p.dst EXCEPT ![s] = out], acc |-> p.acc \o words,
     ok |-> IF ok THEN p.ok + 1 ELSE p.ok, rx |-> p.rx]

\* One packet of each arm, in slot s; the AEAD refuses it or not.
arm_null(p, s, refuse) == left(p, s, p.dst[s], <<p.dst[s]>>, TRUE)

arm_copy(p, s, refuse) == left(p, s, sealed("aes", s), <<sealed("aes", s)>>, TRUE)

\* RustCrypto checks the tag first: a refused packet stays ciphertext.
arm_rc_aesgcm_dec(p, s, refuse) ==
    LET out == IF refuse THEN sealed("aes", s) ELSE plain(s)
    IN  left(p, s, out, <<out>>, ~refuse)

arm_ring_aesgcm_dec(p, s, refuse) ==
    LET out == IF refuse THEN debris ELSE plain(s)
    IN  left(p, s, out, <<out>>, ~refuse)

arm_rc_chacha_dec(p, s, refuse) ==
    LET out == IF refuse THEN sealed("chacha", s) ELSE plain(s)
    IN  left(p, s, out, <<out>>, ~refuse)

\* A refused seal leaves the copied plaintext, and folds no tag.
arm_rc_aesgcm_enc(p, s, refuse) ==
    IF refuse THEN left(p, s, plain(s), <<plain(s)>>, FALSE)
    ELSE left(p, s, sealed("aes", s), <<tag("aes", s), sealed("aes", s)>>, TRUE)

arm_ring_aesgcm_enc(p, s, refuse) ==
    IF refuse THEN left(p, s, debris, <<debris>>, FALSE)
    ELSE left(p, s, sealed("aes", s), <<tag("aes", s), sealed("aes", s)>>, TRUE)

arm_rc_chacha_enc(p, s, refuse) ==
    IF refuse THEN left(p, s, plain(s), <<plain(s)>>, FALSE)
    ELSE left(p, s, sealed("chacha", s), <<tag("chacha", s), sealed("chacha", s)>>, TRUE)

\* The replay window rejects a repeat before it touches the buffer; a packet
\* that fails authentication is scrubbed.
arm_session_dec(p, s, refuse) ==
    IF s + 1 \in p.rx THEN left(p, s, p.dst[s], <<p.dst[s]>>, FALSE)
    ELSE IF refuse THEN left(p, s, zero, <<zero>>, FALSE)
    ELSE [left(p, s, plain(s), <<plain(s)>>, TRUE) EXCEPT !.rx = p.rx \cup {s + 1}]

\* Fault: folds at the packet's offset, not at the ciphertext's.
arm_session_enc_at_header(p, s, refuse) ==
    IF refuse THEN left(p, s, zero, <<p.dst[s], zero>>, FALSE)
    ELSE left(p, s, wire_packet(s), <<tag("aes", s), wire_packet(s)>>, TRUE)

\* Leaves a wire packet, header first, and folds its tag and ciphertext.  A
\* refused seal leaves the header bytes as they were.
arm_session_enc(p, s, refuse) ==
    IF refuse THEN left(p, s, zero, <<p.dst[s], zero>>, FALSE)
    ELSE left(p, s, wire_packet(s), <<tag("aes", s), sealed("aes", s)>>, TRUE)

specs == <<
    [name |-> "null",               family |-> "Null",      cold_only |-> FALSE],
    [name |-> "copy_payload",       family |-> "Copy",      cold_only |-> FALSE],
    [name |-> "rc_aesgcm256_dec",   family |-> "Dec",       cold_only |-> FALSE],
    [name |-> "ring_aesgcm256_dec", family |-> "Dec",       cold_only |-> FALSE],
    [name |-> "rc_chacha_dec *",    family |-> "Dec",       cold_only |-> FALSE],
    [name |-> "session_decrypt",    family |-> "Dec",       cold_only |-> TRUE],
    [name |-> "rc_aesgcm256_enc",   family |-> "Enc",       cold_only |-> FALSE],
    [name |-> "ring_aesgcm256_enc", family |-> "Enc",       cold_only |-> FALSE],
    [name |-> "rc_chacha_enc *",    family |-> "EncChaCha", cold_only |-> FALSE],
    [name |-> "session_encrypt",    family |-> "Enc",       cold_only |-> FALSE]>>

arm(name, p, s, refuse) ==
    CASE name = "null"               -> arm_null(p, s, refuse)
      [] name = "copy_payload"       -> arm_copy(p, s, refuse)
      [] name = "rc_aesgcm256_dec"   -> arm_rc_aesgcm_dec(p, s, refuse)
      [] name = "ring_aesgcm256_dec" -> arm_ring_aesgcm_dec(p, s, refuse)
      [] name = "rc_chacha_dec *"    -> arm_rc_chacha_dec(p, s, refuse)
      [] name = "session_decrypt"    -> arm_session_dec(p, s, refuse)
      [] name = "rc_aesgcm256_enc"   -> arm_rc_aesgcm_enc(p, s, refuse)
      [] name = "ring_aesgcm256_enc" -> arm_ring_aesgcm_enc(p, s, refuse)
      [] name = "rc_chacha_enc *"    -> arm_rc_chacha_enc(p, s, refuse)
      [] name = "session_encrypt"    -> arm_session_enc(p, s, refuse)

-----------------------------------------------------------------------------
\* A session of its own for every sample.
fresh_rx == {}

\* The packets of a pass that the AEAD, if the arm has one, refuses: as a rule
\* none.
Refused(job) ==
    {{}} \cup IF refusals < MaxRefusals /\ job.name \notin {"null", "copy_payload"}
             THEN {{1}, {src.slots}, 1..src.slots} ELSE {}

\* One pass of a job over its schedule.
take_sample(job, refused) ==
    LET slot == sched(job.hot)
        run[i \in 0..src.slots] ==
            IF i = 0 THEN [dst |-> dst, acc |-> <<>>, ok |-> 0, rx |-> fresh_rx]
            ELSE arm(job.name, run[i - 1], slot[i], i \in refused)
    IN  run[src.slots]

\* The pass as a step: its effect on the buffer and on the session.
Passes(p, refused) ==
    /\ dst' = p.dst /\ committed' = p.rx
    /\ refusals' = IF refused = {} THEN refusals ELSE refusals + 1

BenchInit ==
    /\ pc = "start" /\ stage = 0
    /\ cfg \in [rounds : RoundChoices, max_slots : MaxSlotsChoices,
                pool_bytes : PoolChoices, sweep : BOOLEAN]
    /\ src = <<>> /\ st = <<>> /\ dst = <<>> /\ committed = {} /\ res = <<>>
    /\ jobs = <<>> /\ results = <<>> /\ n_samples = <<>> /\ order = <<>>
    /\ round = 0 /\ pos = 1 /\ sample = 0
    /\ refusals = 0 /\ spoiled = FALSE

\* The pool and a zeroed buffer for it, or a panic.
Build(len, next) ==
    LET s == build(len, cfg)
    IN  /\ src' = s
        /\ dst' = [i \in 0..(s.slots - 1) |-> zero]
        /\ pc' = IF s.slots = 0 THEN "aborted" ELSE next

main_builds ==
    /\ pc = "start"
    /\ Build(M1_MEAN_PKT, "self_test")
    /\ UNCHANGED <<cfg, st, committed, stage, run_vars, res, refusals, spoiled>>

\* Packet 0 through each provider and a session of its own, into a buffer of
\* its own.
self_test ==
    /\ pc = "self_test"
    /\ \E refused \in {{}} \cup IF refusals < MaxRefusals
                              THEN {{"rc"}, {"ring"}, {"cc"}, {"session"}} ELSE {} :
          /\ st' = [provider \in {"rc", "ring", "cc", "session"} |-> provider \notin refused]
          /\ refusals' = IF refused = {} THEN refusals ELSE refusals + 1
    /\ pc' = "warm_up"
    /\ UNCHANGED <<cfg, src, dst, committed, stage, run_vars, res, spoiled>>

\* The jobs of an arm: one for each residency.
residencies(s) ==
    LET job(hot) == [name |-> s.name, family |-> s.family, hot |-> hot]
    IN  IF s.cold_only THEN <<job(FALSE)>> ELSE <<job(TRUE), job(FALSE)>>

\* The jobs of the arms that are wanted, in the order of specs.
jobs_of(wanted) ==
    LET js[i \in 0..Len(specs)] ==
            IF i = 0 THEN <<>>
            ELSE js[i - 1] \o (IF specs[i].name \in wanted THEN residencies(specs[i])
                               ELSE <<>>)
    IN  js[Len(specs)]

all_arms == {specs[i].name : i \in DOMAIN specs}
sweep_arms == {"rc_aesgcm256_dec", "ring_aesgcm256_dec"}

\* The head of run_all.
run_all(wanted) ==
    /\ jobs' = jobs_of(wanted)
    /\ results' = [j \in DOMAIN jobs' |-> [total_ops |-> 0, expected_ops |-> 0,
                                           acc |-> <<>>, acc_stable |-> TRUE]]
    /\ n_samples' = <<>>
    /\ order' = [j \in DOMAIN jobs' |-> j]
    /\ round' = 0 /\ pos' = 1 /\ sample' = 0

\* Passes of the incumbent's arm; another pass changes nothing more.
warm_up ==
    /\ pc = "warm_up"
    /\ LET job == [name |-> "rc_aesgcm256_dec", hot |-> FALSE]
       IN  \E refused \in Refused(job) : Passes(take_sample(job, refused), refused)
    /\ run_all(all_arms)
    /\ pc' = "calibrate"
    /\ UNCHANGED <<cfg, src, st, stage, res, spoiled>>

\* One pass of each job sets its number of samples.  Bound: the arms other
\* than session_decrypt get the same number.
calibrate ==
    /\ pc = "calibrate"
    /\ \E refused \in Refused(jobs[pos]) : Passes(take_sample(jobs[pos], refused), refused)
    /\ \E n \in SampleChoices :
          /\ \A j \in DOMAIN n_samples :
                "session_decrypt" \notin {jobs[j].name, jobs[pos].name} => n_samples[j] = n
          /\ n_samples' = Append(n_samples, n)
    /\ pos' = pos + 1
    /\ pc' = IF pos = Len(jobs) THEN "round" ELSE "calibrate"
    /\ UNCHANGED <<cfg, src, st, stage, jobs, results, order, round, sample, res, spoiled>>

-----------------------------------------------------------------------------
\* Fault: the arms keep their order.
permuted_not(o, r) == o

\* rotate_left(round % n), then reverse on an odd round; cumulative.
permuted(o, r) ==
    LET k == r % Len(o)
        rotated == SubSeq(o, k + 1, Len(o)) \o SubSeq(o, 1, k)
    IN  IF r % 2 = 1 THEN [i \in DOMAIN rotated |-> rotated[Len(rotated) + 1 - i]] ELSE rotated

rounds == IF stage = 0 THEN cfg.rounds ELSE 3

begin_round ==
    /\ pc = "round" /\ round < rounds
    /\ order' = permuted(order, round)
    /\ pos' = 1 /\ sample' = 0
    /\ pc' = "warm"
    /\ UNCHANGED <<cfg, src, st, dst, committed, stage, jobs, results, n_samples, round, res,
                   refusals, spoiled>>

\* Two discarded samples, one step each.
warm_up_sample ==
    /\ pc = "warm"
    /\ \E refused \in Refused(jobs[order[pos]]) :
          Passes(take_sample(jobs[order[pos]], refused), refused)
    /\ sample' = (sample + 1) % 2
    /\ pc' = IF sample = 1 THEN "sample" ELSE "warm"
    /\ UNCHANGED <<cfg, src, st, stage, jobs, results, n_samples, order, round, pos, res,
                   spoiled>>

\* Fault: counts the operations tried.
recorded_tried(r, p) ==
    [total_ops |-> r.total_ops + src.slots, expected_ops |-> r.expected_ops + src.slots,
     acc |-> IF r.total_ops = 0 THEN p.acc ELSE r.acc,
     acc_stable |-> r.acc_stable /\ (r.total_ops = 0 \/ r.acc = p.acc)]

\* The first checksum is kept, every later one compared with it.
recorded(r, p) ==
    [total_ops |-> r.total_ops + p.ok, expected_ops |-> r.expected_ops + src.slots,
     acc |-> IF r.total_ops = 0 THEN p.acc ELSE r.acc,
     acc_stable |-> r.acc_stable /\ (r.total_ops = 0 \/ r.acc = p.acc)]

\* A recorded sample.  The session arm must have committed every packet, or
\* the run is aborted.
recorded_sample ==
    LET j == order[pos]
        last == sample + 1 = n_samples[j]
    IN  /\ pc = "sample"
        /\ \E refused \in Refused(jobs[j]) :
             LET p == take_sample(jobs[j], refused)
             IN  /\ Passes(p, refused)
                 /\ results' = [results EXCEPT ![j] = recorded(@, p)]
                 /\ spoiled' = (spoiled \/ (stage = 0 /\ p.ok < src.slots))
                 /\ pc' = IF jobs[j].name = "session_decrypt" /\ p.rx # 1..src.slots
                          THEN "aborted"
                          ELSE IF ~last THEN "sample"
                          ELSE IF pos < Len(order) THEN "warm" ELSE "round"
        /\ sample' = IF last THEN 0 ELSE sample + 1
        /\ pos' = IF last THEN pos + 1 ELSE pos
        /\ round' = IF last /\ pos = Len(order) THEN round + 1 ELSE round
        /\ UNCHANGED <<cfg, src, st, stage, jobs, n_samples, order, res>>

-----------------------------------------------------------------------------
\* run_all returns.  Of a run of the sweep only the medians are kept.
run_returns ==
    /\ pc = "round" /\ round = rounds
    /\ res' = IF stage = 0 THEN results ELSE res
    /\ pc' = IF cfg.sweep /\ stage < Len(SweepLens) THEN "sweep" ELSE "report"
    /\ UNCHANGED <<cfg, src, st, dst, committed, stage, run_vars, refusals, spoiled>>

\* The next payload length: a pool and a buffer of its own, two arms, three
\* rounds.
sweep ==
    /\ pc = "sweep"
    /\ stage' = stage + 1
    /\ Build(SweepLens[stage'], "calibrate")
    /\ run_all(sweep_arms)
    /\ UNCHANGED <<cfg, st, committed, res, refusals, spoiled>>

print_report ==
    /\ pc = "report"
    /\ pc' = "done"
    /\ UNCHANGED <<cfg, src, st, dst, committed, stage, run_vars, res, refusals, spoiled>>

Finished == pc \in {"done", "aborted"} /\ UNCHANGED bench_vars

BenchNext ==
    \/ main_builds \/ self_test \/ warm_up \/ calibrate \/ begin_round
    \/ warm_up_sample \/ recorded_sample \/ run_returns \/ sweep
    \/ print_report \/ Finished

BenchSpec == BenchInit /\ [][BenchNext]_bench_vars

-----------------------------------------------------------------------------
main_jobs == jobs_of(all_arms)

\* G1 and G1b: within a family and a residency, one checksum.
family_ok(family) ==
    \A i, j \in DOMAIN res :
        /\ main_jobs[i].family = family /\ main_jobs[j].family = family
        /\ main_jobs[i].hot = main_jobs[j].hot
        => res[i].acc = res[j].acc

\* G1c: null is exempt.
all_acc == \A j \in DOMAIN res : main_jobs[j].family # "Null" => res[j].acc_stable

\* G2.
all_ok == \A j \in DOMAIN res : res[j].total_ops = res[j].expected_ops

\* G3b.
round_trips == \A provider \in DOMAIN st : st[provider]

gates == family_ok("Dec") /\ family_ok("Enc") /\ all_acc /\ all_ok /\ round_trips

\* No false alarm: when the AEAD refused nothing, every checksum gate passes,
\* although all arms share one buffer, hot passes overwrite slot 0 of what cold
\* ones left, and the order changes from round to round.
SoundRunPasses == pc = "done" /\ refusals = 0 => gates

\* The run dies only because the AEAD refused a packet, given memory for the
\* pool and the samples and that the pool could be sealed: no --max-slots and no
\* --pool-mib crosses the bounds of the clamp, and the session arm commits every
\* packet of every sample.
RunSurvives == pc = "aborted" => refusals > 0

\* No silent failure: when the gates pass, every operation of every recorded
\* sample of the main run succeeded.  A first sample with no success at all
\* has its checksum replaced by the second's; the count still tells.
GatesCatchRefusals == pc = "done" /\ gates => ~spoiled

\* null folds what its predecessor left, and from two rounds on the order
\* makes that drift, so without its exemption G1c would fail on a sound run.
NullDrifts ==
    pc = "done" /\ refusals = 0 /\ cfg.rounds >= 2 =>
        \E j \in DOMAIN res : main_jobs[j].family = "Null" /\ ~res[j].acc_stable
=============================================================================
