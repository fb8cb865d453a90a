--------------------------- MODULE BenchPassProofs ---------------------------
(***************************************************************************)
(* What the benchmark's passes, jobs and orders do for every pool, number  *)
(* of rounds and choice of refused packets, the invariant of a run, and    *)
(* the steps up to the first recorded sample.                              *)
(*                                                                         *)
(* A pass over the pool, a checksum and the list of jobs are recursive     *)
(* functions; they are described by their courses (Loop), which exist and  *)
(* are followed by induction over Nat, stated as a fact about sets.        *)
(***************************************************************************)
EXTENDS Bench, WellFoundedInduction, TLAPS

\* Induction over Nat, as a fact about sets.
LEMMA NatSet ==
    ASSUME NEW S, 0 \in S, \A n \in Nat : n \in S => n + 1 \in S
    PROVE  \A n \in Nat : n \in S
<1> DEFINE T == {n \in Nat : n \notin S}
<1> SUFFICES ASSUME T # {} PROVE FALSE
  OBVIOUS
<1>1. PICK x \in T : \A y \in T : ~(<<y, x>> \in OpToRel(<, Nat))
  BY WFMin, NatLessThanWellFounded, Zenon
<1>2. x \in Nat /\ x # 0 /\ x - 1 \in Nat /\ x - 1 < x
  BY DEF T
<1>3. ~(x - 1 \in T)
  <2>1. <<x - 1, x>> \in OpToRel(<, Nat)
    BY <1>2, Zenon DEF OpToRel
  <2> QED BY <1>1, <2>1, Zenon
<1>4. x - 1 \in S
  BY <1>2, <1>3 DEF T
<1>5. x \in S
  <2>1. (x - 1) + 1 = x
    BY <1>2
  <2> QED BY <1>2, <1>4, <2>1
<1> QED BY <1>5 DEF T

\* Induction up to a bound.
LEMMA UpTo ==
    ASSUME NEW n \in Nat, NEW S, 0 \in S, \A i \in 0..n - 1 : i \in S => i + 1 \in S
    PROVE  \A i \in 0..n : i \in S
<1> DEFINE T == {i \in Nat : i <= n => i \in S}
<1>1. 0 \in T
  OBVIOUS
<1>2. ASSUME NEW i \in Nat, i \in T PROVE i + 1 \in T
  BY <1>2
<1> HIDE DEF T
<1>3. \A i \in Nat : i \in T
  BY <1>1, <1>2, NatSet, Zenon
<1> QED BY <1>3 DEF T

\* The courses of a loop over 1..n from a, whose steps are functions on S.
Loop(n, S, a, step) ==
    {f \in [0..n -> S] : f[0] = a /\ \A i \in 1..n : f[i] = step[i][f[i - 1]]}

\* The loop has a course.
LEMMA LoopRuns ==
    ASSUME NEW n \in Nat, NEW S, NEW a \in S, NEW step, step \in [1..n -> [S -> S]]
    PROVE  Loop(n, S, a, step) # {}
<1> DEFINE Course(m, f) == f[0] = a /\ \A i \in 1..m : f[i] = step[i][f[i - 1]]
           M == {m \in Nat : m <= n => \E f \in [0..m -> S] : Course(m, f)}
<1>1. 0 \in M
  <2> DEFINE f == [i \in 0..0 |-> a]
  <2>1. f \in [0..0 -> S] /\ Course(0, f)
    OBVIOUS
  <2> QED BY <2>1, Zenon
<1>2. ASSUME NEW m \in Nat, m \in M PROVE m + 1 \in M
  <2> SUFFICES ASSUME m + 1 <= n PROVE \E f \in [0..m + 1 -> S] : Course(m + 1, f)
    OBVIOUS
  <2>1. PICK g \in [0..m -> S] : Course(m, g)
    BY <1>2
  <2> DEFINE h == [i \in 0..m + 1 |-> IF i = m + 1 THEN step[m + 1][g[m]] ELSE g[i]]
  <2>2. h \in [0..m + 1 -> S]
    OBVIOUS
  <2>3. h[0] = a
    BY <2>1
  <2>4. ASSUME NEW i \in 1..m + 1 PROVE h[i] = step[i][h[i - 1]]
    <3>1. h[i - 1] = g[i - 1]
      OBVIOUS
    <3>2. CASE i = m + 1
      BY <3>1, <3>2
    <3>3. CASE i # m + 1
      <4>1. i \in 1..m /\ h[i] = g[i]
        BY <3>3
      <4> QED BY <2>1, <3>1, <4>1
    <3> QED BY <3>2, <3>3
  <2> HIDE DEF h
  <2> QED BY <2>2, <2>3, <2>4, Zenon
<1>3. n \in M
  <2> HIDE DEF M
  <2> QED BY <1>1, <1>2, NatSet, Zenon
<1> QED BY <1>3 DEF Loop

-----------------------------------------------------------------------------
(* One packet.                                                             *)

Word ==
    {zero, debris} \cup {plain(s) : s \in Nat} \cup {wire_packet(s) : s \in Nat}
    \cup {sealed(c, s) : c \in {"aes", "chacha"}, s \in Nat}
    \cup {tag(c, s) : c \in {"aes", "chacha"}, s \in Nat}

\* A pass under way over a pool of n slots.
Pass(n) == [dst : [0..n - 1 -> Word], acc : Seq(Word), ok : Nat, rx : SUBSET Nat]

ArmNames == {"null", "copy_payload", "rc_aesgcm256_dec", "ring_aesgcm256_dec",
             "rc_chacha_dec *", "session_decrypt", "rc_aesgcm256_enc",
             "ring_aesgcm256_enc", "rc_chacha_enc *", "session_encrypt"}

\* The words the arms leave in a slot.
LEMMA WordType ==
    ASSUME NEW s \in Nat
    PROVE  /\ zero \in Word /\ debris \in Word /\ plain(s) \in Word /\ wire_packet(s) \in Word
           /\ sealed("aes", s) \in Word /\ sealed("chacha", s) \in Word
           /\ tag("aes", s) \in Word /\ tag("chacha", s) \in Word
BY DEF Word

\* What an arm leaves is a pass over the same slots.
LEMMA LeftType ==
    ASSUME NEW n \in Nat, NEW p \in Pass(n), NEW s \in 0..n - 1, NEW out \in Word,
           NEW words \in Seq(Word), NEW ok \in BOOLEAN
    PROVE  /\ left(p, s, out, words, ok) \in Pass(n)
           /\ left(p, s, out, words, ok).dst = [p.dst EXCEPT ![s] = out]
           /\ left(p, s, out, words, ok).acc = p.acc \o words
           /\ left(p, s, out, words, ok).ok = IF ok THEN p.ok + 1 ELSE p.ok
           /\ left(p, s, out, words, ok).rx = p.rx
<1>1. /\ p.dst \in [0..n - 1 -> Word] /\ p.acc \in Seq(Word) /\ p.ok \in Nat
      /\ p.rx \in SUBSET Nat
  BY DEF Pass
<1>2. /\ [p.dst EXCEPT ![s] = out] \in [0..n - 1 -> Word]
      /\ p.acc \o words \in Seq(Word)
      /\ (IF ok THEN p.ok + 1 ELSE p.ok) \in Nat
  BY <1>1
<1>3. left(p, s, out, words, ok) \in Pass(n)
  BY <1>1, <1>2, Zenon DEF Pass, left
<1> QED BY <1>3 DEF left

\* Every arm takes a pass to a pass, and counts its packet at most once.
LEMMA ArmType ==
    ASSUME NEW n \in Nat, NEW p \in Pass(n), NEW s \in 0..n - 1, NEW name \in ArmNames,
           NEW refuse \in BOOLEAN
    PROVE  /\ arm(name, p, s, refuse) \in Pass(n)
           /\ arm(name, p, s, refuse).ok \in {p.ok, p.ok + 1}
<1> DEFINE Tells(q) == q \in Pass(n) /\ q.ok \in {p.ok, p.ok + 1}
<1>1. p.dst[s] \in Word /\ p.ok \in Nat /\ s \in Nat
  BY DEF Pass
<1>2. ASSUME NEW out \in Word, NEW words \in Seq(Word), NEW ok \in BOOLEAN
      PROVE  Tells(left(p, s, out, words, ok))
  <2>1. left(p, s, out, words, ok) \in Pass(n)
    BY LeftType, Zenon
  <2>2. left(p, s, out, words, ok).ok = IF ok THEN p.ok + 1 ELSE p.ok
    BY Zenon DEF left
  <2> QED BY <2>1, <2>2
<1>3. ASSUME NEW v \in Word, NEW w \in Word
      PROVE  <<v>> \in Seq(Word) /\ <<v, w>> \in Seq(Word)
  OBVIOUS
<1>4. Tells([left(p, s, plain(s), <<plain(s)>>, TRUE) EXCEPT !.rx = p.rx \cup {s + 1}])
  <2> DEFINE q == left(p, s, plain(s), <<plain(s)>>, TRUE)
  <2>1. <<plain(s)>> \in Seq(Word) /\ plain(s) \in Word
    BY <1>1, <1>3, WordType, Zenon
  <2>2. Tells(q)
    BY <1>2, <2>1, Zenon
  <2>3. p.rx \cup {s + 1} \in SUBSET Nat
    BY <1>1 DEF Pass
  <2> HIDE DEF q
  <2>4. [q EXCEPT !.rx = p.rx \cup {s + 1}] \in Pass(n)
    BY <2>2, <2>3, Zenon DEF Pass
  <2>5. [q EXCEPT !.rx = p.rx \cup {s + 1}].ok = q.ok
    BY <2>2, Zenon DEF Pass
  <2> QED BY <2>2, <2>4, <2>5, Zenon DEF q
<1> HIDE DEF Tells
<1>5. Tells(arm(name, p, s, refuse))
  <2> USE <1>1, <1>2, <1>3, WordType DEF arm, ArmNames
  <2>1. CASE name = "null"
    BY <2>1, Zenon DEF arm_null
  <2>2. CASE name = "copy_payload"
    BY <2>2, Zenon DEF arm_copy
  <2>3. CASE name = "rc_aesgcm256_dec"
    BY <2>3, Zenon DEF arm_rc_aesgcm_dec
  <2>4. CASE name = "ring_aesgcm256_dec"
    BY <2>4, Zenon DEF arm_ring_aesgcm_dec
  <2>5. CASE name = "rc_chacha_dec *"
    BY <2>5, Zenon DEF arm_rc_chacha_dec
  <2>6. CASE name = "session_decrypt"
    BY <2>6, <1>4, Zenon DEF arm_session_dec
  <2>7. CASE name = "rc_aesgcm256_enc"
    BY <2>7, Zenon DEF arm_rc_aesgcm_enc
  <2>8. CASE name = "ring_aesgcm256_enc"
    BY <2>8, Zenon DEF arm_ring_aesgcm_enc
  <2>9. CASE name = "rc_chacha_enc *"
    BY <2>9, Zenon DEF arm_rc_chacha_enc
  <2>10. CASE name = "session_encrypt"
    BY <2>10, Zenon DEF arm_session_enc
  <2> QED BY <2>1, <2>2, <2>3, <2>4, <2>5, <2>6, <2>7, <2>8, <2>9, <2>10, Zenon
<1> QED BY <1>5 DEF Tells

\* The words an arm of each family folds for a packet that is not refused.
Words(family, s) ==
    CASE family = "Copy"      -> <<sealed("aes", s)>>
      [] family = "Dec"       -> <<plain(s)>>
      [] family = "Enc"       -> <<tag("aes", s), sealed("aes", s)>>
      [] family = "EncChaCha" -> <<tag("chacha", s), sealed("chacha", s)>>

\* The family of an arm, as specs has it.
Family(name) ==
    CASE name = "null"            -> "Null"
      [] name = "copy_payload"    -> "Copy"
      [] name = "rc_chacha_enc *" -> "EncChaCha"
      [] name \in {"rc_aesgcm256_dec", "ring_aesgcm256_dec", "rc_chacha_dec *",
                   "session_decrypt"} -> "Dec"
      [] OTHER -> "Enc"

\* A packet is folded into a checksum as a sequence of words.
LEMMA WordsType ==
    ASSUME NEW name \in ArmNames \ {"null"}, NEW s \in Nat
    PROVE  Words(Family(name), s) \in Seq(Word)
<1>1. Family(name) \in {"Copy", "Dec", "Enc", "EncChaCha"}
  BY Zenon DEF Family, ArmNames
<1>2. ASSUME NEW v \in Word, NEW w \in Word
      PROVE  <<v>> \in Seq(Word) /\ <<v, w>> \in Seq(Word)
  OBVIOUS
<1> HIDE DEF Family
<1> QED BY <1>1, <1>2, WordType, Zenon DEF Words

\* Pass q is pass p after one more success, of arm name on slot s.
Succeeds(name, p, s, q) ==
    /\ q.ok = p.ok + 1 /\ q.acc = p.acc \o Words(Family(name), s)
    /\ name = "session_decrypt" => q.rx = p.rx \cup {s + 1}

\* A packet that is not refused is counted, and folded as its family says.  A
\* receive session takes it if it has not seen it.
LEMMA SoundArm ==
    ASSUME NEW n \in Nat, NEW p \in Pass(n), NEW s \in 0..n - 1,
           NEW name \in ArmNames \ {"null"}, name = "session_decrypt" => s + 1 \notin p.rx
    PROVE  Succeeds(name, p, s, arm(name, p, s, FALSE))
<1> DEFINE q == arm(name, p, s, FALSE)
           Says(r, words) == r.ok = p.ok + 1 /\ r.acc = p.acc \o words
<1>1. ASSUME NEW out, NEW words
      PROVE  Says(left(p, s, out, words, TRUE), words) /\ left(p, s, out, words, TRUE).rx = p.rx
  BY DEF left
<1> HIDE DEF Says
<1>2. CASE name = "session_decrypt"
  <2> DEFINE r == left(p, s, plain(s), <<plain(s)>>, TRUE)
  <2>1. q = [r EXCEPT !.rx = p.rx \cup {s + 1}] /\ Family(name) = "Dec"
    BY <1>2, Zenon DEF arm, arm_session_dec, Family
  <2>2. r \in [dst : {r.dst}, acc : {r.acc}, ok : {r.ok}, rx : {r.rx}]
    BY Zenon DEF left
  <2> HIDE DEF r, q
  <2>3. q.ok = r.ok /\ q.acc = r.acc /\ q.rx = p.rx \cup {s + 1}
    BY <2>1, <2>2
  <2> QED BY <1>1, <1>2, <2>1, <2>3, Zenon DEF r, q, Says, Words, Succeeds
<1>3. CASE name # "session_decrypt"
  <2> SUFFICES ASSUME NEW words, words = Words(Family(name), s)
               PROVE  \E out : q = left(p, s, out, words, TRUE)
    BY <1>1, <1>3, Zenon DEF Says, Succeeds
  <2> USE DEF arm, Words, Family
  <2>1. CASE name = "copy_payload"
    BY <2>1, Zenon DEF arm_copy
  <2>2. CASE name = "rc_aesgcm256_dec"
    BY <2>2, Zenon DEF arm_rc_aesgcm_dec
  <2>3. CASE name = "ring_aesgcm256_dec"
    BY <2>3, Zenon DEF arm_ring_aesgcm_dec
  <2>4. CASE name = "rc_chacha_dec *"
    BY <2>4, Zenon DEF arm_rc_chacha_dec
  <2>5. CASE name = "rc_aesgcm256_enc"
    BY <2>5, Zenon DEF arm_rc_aesgcm_enc
  <2>6. CASE name = "ring_aesgcm256_enc"
    BY <2>6, Zenon DEF arm_ring_aesgcm_enc
  <2>7. CASE name = "rc_chacha_enc *"
    BY <2>7, Zenon DEF arm_rc_chacha_enc
  <2>8. CASE name = "session_encrypt"
    BY <2>8, Zenon DEF arm_session_enc
  <2> QED BY <1>3, <2>1, <2>2, <2>3, <2>4, <2>5, <2>6, <2>7, <2>8, Zenon DEF ArmNames
<1> QED BY <1>2, <1>3, Zenon

\* What null, the copy and the sender's arm leave behind.
LEMMA NullArm ==
    ASSUME NEW n \in Nat, NEW p \in Pass(n), NEW s \in 0..n - 1, NEW refuse
    PROVE  /\ arm("null", p, s, refuse).dst = p.dst
           /\ arm("null", p, s, refuse).acc = Append(p.acc, p.dst[s])
           /\ arm("null", p, s, refuse).ok = p.ok + 1
<1>1. arm("null", p, s, refuse) = left(p, s, p.dst[s], <<p.dst[s]>>, TRUE)
  BY Zenon DEF arm, arm_null
<1>2. p.dst \in [0..n - 1 -> Word] /\ p.acc \in Seq(Word) /\ p.dst[s] \in Word
  BY DEF Pass
<1>3. [p.dst EXCEPT ![s] = p.dst[s]] = p.dst
  BY <1>2
<1>4. p.acc \o <<p.dst[s]>> = Append(p.acc, p.dst[s])
  BY <1>2
<1>5. /\ arm("null", p, s, refuse).dst = [p.dst EXCEPT ![s] = p.dst[s]]
      /\ arm("null", p, s, refuse).acc = p.acc \o <<p.dst[s]>>
      /\ arm("null", p, s, refuse).ok = p.ok + 1
  BY <1>1 DEF left
<1> QED BY <1>3, <1>4, <1>5

Writing == {"copy_payload", "session_encrypt"}
Written(name, s) == IF name = "copy_payload" THEN sealed("aes", s) ELSE wire_packet(s)

\* Pass q is pass p with slot s written.
Writes(name, p, s, q) ==
    \A t \in DOMAIN p.dst : q.dst[t] = IF t = s THEN Written(name, s) ELSE p.dst[t]

\* An arm that writes leaves its own output, whatever was there before.
LEMMA WritingArms ==
    ASSUME NEW n \in Nat, NEW p \in Pass(n), NEW s \in 0..n - 1, NEW name \in Writing
    PROVE  Writes(name, p, s, arm(name, p, s, FALSE))
<1> DEFINE q == arm(name, p, s, FALSE)
<1>1. q.dst = [p.dst EXCEPT ![s] = Written(name, s)]
  <2>1. CASE name = "copy_payload"
    BY <2>1, Zenon DEF arm, arm_copy, left, Written
  <2>2. CASE name = "session_encrypt"
    BY <2>2, Zenon DEF arm, arm_session_enc, left, Written
  <2> QED BY <2>1, <2>2, Zenon DEF Writing
<1>2. p.dst \in [0..n - 1 -> Word]
  BY DEF Pass
<1> HIDE DEF q
<1>3. Writes(name, p, s, q)
  BY <1>1, <1>2, Zenon DEF Writes
<1> QED BY <1>3, Zenon DEF q

-----------------------------------------------------------------------------
(* One pass.                                                               *)

\* There is a pool, and a buffer for it.
Pooled == src.slots \in Nat \ {0} /\ dst \in [0..src.slots - 1 -> Word]

\* A job that take_sample can be called for.
Runnable(job) ==
    /\ job.name \in ArmNames /\ job.hot \in BOOLEAN
    /\ job.name = "session_decrypt" => ~job.hot

\* The pass of a job, packet by packet.
Courses(job, refused) ==
    {run \in [0..src.slots -> Pass(src.slots)] :
        /\ run[0] = [dst |-> dst, acc |-> <<>>, ok |-> 0, rx |-> {}]
        /\ \A i \in 1..src.slots :
              run[i] = arm(job.name, run[i - 1], sched(job.hot)[i], i \in refused)
        /\ run[src.slots] = take_sample(job, refused)}

\* The schedule stays in the pool: slot 0 when hot, each slot when cold.
LEMMA SlotOf ==
    ASSUME Pooled, NEW hot \in BOOLEAN, NEW i \in 1..src.slots
    PROVE  sched(hot)[i] = (IF hot THEN 0 ELSE i - 1) /\ sched(hot)[i] \in 0..src.slots - 1
BY DEF Pooled, sched

\* The loop of a sample terminates: it has a course.
LEMMA SampleRuns ==
    ASSUME Pooled, NEW job, Runnable(job), NEW refused
    PROVE  Courses(job, refused) # {}
<1> DEFINE n == src.slots
           slot == sched(job.hot)
           start == [dst |-> dst, acc |-> <<>>, ok |-> 0, rx |-> {}]
           step == [i \in 1..n |-> [p \in Pass(n) |->
                                      arm(job.name, p, slot[i], i \in refused)]]
           Course(f) == f = [i \in 0..n |-> IF i = 0 THEN start
                                   ELSE arm(job.name, f[i - 1], slot[i], i \in refused)]
           run == CHOOSE f : Course(f)
<1>1. n \in Nat /\ n # 0 /\ n \in 0..n /\ 0 \in 0..n
  BY DEF Pooled
<1>2. start \in Pass(n)
  BY DEF Pooled, Pass
<1>3. ASSUME NEW i \in 1..n, NEW p \in Pass(n)
      PROVE  arm(job.name, p, slot[i], i \in refused) \in Pass(n)
  <2>1. slot[i] \in 0..n - 1
    BY SlotOf DEF Runnable
  <2>2. (i \in refused) \in BOOLEAN
    OBVIOUS
  <2> HIDE DEF slot, n
  <2> QED BY <1>1, <2>1, <2>2, ArmType, Zenon DEF Runnable
<1>4. step \in [1..n -> [Pass(n) -> Pass(n)]]
  BY <1>3
<1>5. PICK f \in Loop(n, Pass(n), start, step) : TRUE
  <2> HIDE DEF n, start, step
  <2> QED BY <1>1, <1>2, <1>4, LoopRuns
<1>6. Course(f)
  <2>1. ASSUME NEW i \in 1..n
        PROVE  step[i][f[i - 1]] = arm(job.name, f[i - 1], slot[i], i \in refused)
    <3>1. f[i - 1] \in Pass(n)
      <4> HIDE DEF n
      <4>1. i - 1 \in 0..n
        BY <1>1
      <4> QED BY <1>5, <4>1, Zenon DEF Loop
    <3> QED BY <3>1
  <2> HIDE DEF n, start, slot, step
  <2>2. \A i \in 0..n : i # 0 => i \in 1..n
    BY <1>1
  <2> QED BY <1>5, <2>1, <2>2 DEF Loop
<1>7. Course(run)
  <2> HIDE DEF Course
  <2> QED BY <1>6, Zenon
<1>8. take_sample(job, refused) = run[n]
  BY Zenon DEF take_sample, fresh_rx
<1> HIDE DEF run
<1>9. run[0] = start /\ \A i \in 1..n : run[i] = arm(job.name, run[i - 1], slot[i], i \in refused)
  <2> HIDE DEF slot, start, n
  <2>1. \A i \in 0..n : run[i] = IF i = 0 THEN start
                                ELSE arm(job.name, run[i - 1], slot[i], i \in refused)
    BY <1>7, Zenon
  <2>2. \A i \in 1..n : i \in 0..n /\ i # 0
    BY <1>1
  <2> QED BY <1>1, <2>1, <2>2, Zenon
<1>10. \A i \in 0..n : run[i] \in Pass(n)
  <2> DEFINE S == {i \in 0..n : run[i] \in Pass(n)}
  <2> HIDE DEF slot, start, n
  <2>1. 0 \in S
    BY <1>1, <1>2, <1>9
  <2>2. ASSUME NEW i \in 0..n - 1, i \in S PROVE i + 1 \in S
    <3>1. i + 1 \in 1..n /\ i + 1 \in 0..n /\ (i + 1) - 1 = i
      BY <1>1
    <3> QED BY <1>3, <1>9, <2>2, <3>1
  <2> HIDE DEF S
  <2>3. \A i \in 0..n : i \in S
    BY <1>1, <2>1, <2>2, UpTo, Zenon
  <2> QED BY <2>3 DEF S
<1>11. run \in [0..n -> Pass(n)]
  <2> HIDE DEF slot, start, n
  <2> QED BY <1>7, <1>10
<1> QED BY <1>8, <1>9, <1>11, Zenon DEF Courses

\* The i-th packet of a course.
LEMMA CourseStep ==
    ASSUME Pooled, NEW job, Runnable(job), NEW refused, NEW run \in Courses(job, refused),
           NEW i \in 0..src.slots - 1
    PROVE  \E s \in 0..src.slots - 1, refuse \in BOOLEAN :
              /\ s = (IF job.hot THEN 0 ELSE i) /\ (refused = {} => ~refuse)
              /\ run[i] \in Pass(src.slots)
              /\ run[i + 1] = arm(job.name, run[i], s, refuse)
<1>1. i + 1 \in 1..src.slots /\ (i + 1) - 1 = i /\ i \in 0..src.slots
  BY DEF Pooled
<1>2. /\ sched(job.hot)[i + 1] = (IF job.hot THEN 0 ELSE i)
      /\ sched(job.hot)[i + 1] \in 0..src.slots - 1
  BY <1>1, SlotOf DEF Runnable
<1>3. run[i] \in Pass(src.slots)
  BY <1>1 DEF Courses
<1>4. run[i + 1] = arm(job.name, run[i], sched(job.hot)[i + 1], (i + 1) \in refused)
  BY <1>1, Zenon DEF Courses
<1>5. CASE (i + 1) \in refused
  <2>1. ((i + 1) \in refused) = TRUE /\ refused # {}
    BY <1>5
  <2>2. run[i + 1] = arm(job.name, run[i], sched(job.hot)[i + 1], TRUE)
    BY <1>4, <2>1, Zenon
  <2> QED BY <1>2, <1>3, <2>1, <2>2, Zenon
<1>6. CASE ~((i + 1) \in refused)
  <2>1. ((i + 1) \in refused) = FALSE
    BY <1>6
  <2>2. run[i + 1] = arm(job.name, run[i], sched(job.hot)[i + 1], FALSE)
    BY <1>4, <2>1, Zenon
  <2> QED BY <1>2, <1>3, <2>2, Zenon
<1> QED BY <1>5, <1>6, Zenon

\* A pass counts at most one success per packet.
LEMMA PassType ==
    ASSUME Pooled, NEW job, Runnable(job), NEW refused
    PROVE  /\ take_sample(job, refused) \in Pass(src.slots)
           /\ take_sample(job, refused).ok \in 0..src.slots
<1>1. PICK run \in Courses(job, refused) : TRUE
  BY SampleRuns
<1> DEFINE S == {i \in 0..src.slots : run[i].ok \in 0..i}
<1>2. src.slots \in Nat
  BY DEF Pooled
<1>3. 0 \in S
  BY <1>1, <1>2 DEF Courses
<1>4. ASSUME NEW i \in 0..src.slots - 1, i \in S PROVE i + 1 \in S
  <2>1. run[i + 1].ok \in {run[i].ok, run[i].ok + 1}
    <3>1. PICK s \in 0..src.slots - 1, refuse \in BOOLEAN :
                  /\ s = (IF job.hot THEN 0 ELSE i) /\ (refused = {} => ~refuse)
                  /\ run[i] \in Pass(src.slots)
                  /\ run[i + 1] = arm(job.name, run[i], s, refuse)
      BY CourseStep, Zenon
    <3>2. job.name \in ArmNames
      BY Zenon DEF Runnable
    <3>3. arm(job.name, run[i], s, refuse).ok \in {run[i].ok, run[i].ok + 1}
      BY <1>2, <3>1, <3>2, ArmType, Zenon
    <3> QED BY <3>1, <3>3, Zenon
  <2> QED BY <1>2, <1>4, <2>1
<1> HIDE DEF S
<1>5. src.slots \in S
  BY <1>2, <1>3, <1>4, UpTo
<1> QED BY <1>1, <1>2, <1>5 DEF S, Courses

\* The checksum of a pass in which nothing is refused: the words of its family
\* over its schedule, whatever lay in the buffer.
Slot(hot, i) == IF hot THEN 0 ELSE i - 1

Checksum(n, family, hot) ==
    LET sum[i \in 0..n] == IF i = 0 THEN <<>> ELSE sum[i - 1] \o Words(family, Slot(hot, i))
    IN  sum[n]

\* The checksum, packet by packet.
Sums(n, family, hot) ==
    {sum \in [0..n -> Seq(Word)] :
        /\ sum[0] = <<>>
        /\ \A i \in 1..n : sum[i] = sum[i - 1] \o Words(family, Slot(hot, i))
        /\ sum[n] = Checksum(n, family, hot)}

\* Checksums are closed under folding one more word.
LEMMA Concat ==
    /\ <<>> \in Seq(Word)
    /\ \A a, b \in Seq(Word) : a \o b \in Seq(Word)
OBVIOUS

\* A family's checksum exists.
LEMMA ChecksumRuns ==
    ASSUME NEW n \in Nat \ {0}, NEW name \in ArmNames \ {"null"}, NEW hot \in BOOLEAN
    PROVE  Sums(n, Family(name), hot) # {}
<1> DEFINE words == [i \in 1..n |-> Words(Family(name), Slot(hot, i))]
           step == [i \in 1..n |-> [a \in Seq(Word) |-> a \o words[i]]]
           Course(f) == f = [i \in 0..n |-> IF i = 0 THEN <<>> ELSE
                                   f[i - 1] \o Words(Family(name), Slot(hot, i))]
           sum == CHOOSE f : Course(f)
           Sum == Seq(Word)
<1>1. n \in Nat /\ n # 0 /\ n \in 0..n /\ 0 \in 0..n
  OBVIOUS
<1>2. words \in [1..n -> Seq(Word)]
  <2> SUFFICES ASSUME NEW i \in 1..n PROVE Words(Family(name), Slot(hot, i)) \in Seq(Word)
    OBVIOUS
  <2>1. Slot(hot, i) \in Nat
    BY <1>1 DEF Slot
  <2> QED BY <2>1, WordsType
<1>3. step \in [1..n -> [Seq(Word) -> Seq(Word)]]
  <2> HIDE DEF words
  <2> QED BY <1>2
<1>4. PICK f \in Loop(n, Sum, <<>>, step) : TRUE
  <2>1. <<>> \in Sum /\ step \in [1..n -> [Sum -> Sum]]
    BY <1>3, Concat, Zenon
  <2> HIDE DEF step, Sum
  <2> QED BY <1>1, <2>1, LoopRuns
<1>5. Course(f)
  <2>1. ASSUME NEW i \in 1..n
        PROVE  step[i][f[i - 1]] = f[i - 1] \o Words(Family(name), Slot(hot, i))
    <3>1. f[i - 1] \in Seq(Word)
      <4>1. i - 1 \in 0..n
        BY <1>1
      <4> QED BY <1>4, <4>1, Zenon DEF Loop
    <3> QED BY <3>1, Zenon
  <2> HIDE DEF step
  <2>2. \A i \in 0..n : i # 0 => i \in 1..n
    BY <1>1
  <2> QED BY <1>4, <2>1, <2>2, Zenon DEF Loop
<1>6. Course(sum)
  <2> HIDE DEF Course
  <2> QED BY <1>5, Zenon
<1>7. Checksum(n, Family(name), hot) = sum[n]
  BY Zenon DEF Checksum
<1> HIDE DEF sum
<1>8. sum[0] = <<>> /\ \A i \in 1..n : sum[i] = sum[i - 1] \o Words(Family(name), Slot(hot, i))
  <2>1. \A i \in 0..n : sum[i] = IF i = 0 THEN <<>> ELSE
                                 sum[i - 1] \o Words(Family(name), Slot(hot, i))
    BY <1>6, Zenon
  <2>2. \A i \in 1..n : i \in 0..n /\ i # 0
    BY <1>1
  <2> QED BY <1>1, <2>1, <2>2, Zenon
<1>9. \A i \in 0..n : sum[i] \in Seq(Word)
  <2> DEFINE S == {i \in 0..n : sum[i] \in Seq(Word)}
  <2>1. 0 \in S
    BY <1>1, <1>8, Concat, Zenon
  <2>2. ASSUME NEW i \in 0..n - 1, i \in S PROVE i + 1 \in S
    <3>1. i + 1 \in 1..n /\ i + 1 \in 0..n /\ (i + 1) - 1 = i
      BY <1>1
    <3>2. sum[i + 1] = sum[i] \o words[i + 1] /\ words[i + 1] \in Seq(Word)
      BY <1>2, <1>8, <3>1, Zenon
    <3> HIDE DEF words
    <3> QED BY <2>2, <3>1, <3>2, Concat, Zenon
  <2> HIDE DEF S
  <2>3. \A i \in 0..n : i \in S
    BY <1>1, <2>1, <2>2, UpTo, Zenon
  <2> QED BY <2>3 DEF S
<1>10. sum \in [0..n -> Seq(Word)]
  <2> QED BY <1>6, <1>9, Zenon
<1> QED BY <1>7, <1>8, <1>10, Zenon DEF Sums

\* When the AEAD refuses nothing, every packet succeeds, the checksum is the
\* family's, and a receive session commits the counter of every packet.
LEMMA SoundPass ==
    ASSUME Pooled, NEW job, Runnable(job), job.name # "null"
    PROVE  /\ take_sample(job, {}).ok = src.slots
           /\ take_sample(job, {}).acc = Checksum(src.slots, Family(job.name), job.hot)
           /\ job.name = "session_decrypt" => take_sample(job, {}).rx = 1..src.slots
<1>1. PICK run \in Courses(job, {}) : TRUE
  BY SampleRuns
<1> DEFINE name == job.name
           fam == Family(name)
<1>2. /\ name \in ArmNames \ {"null"} /\ job.hot \in BOOLEAN /\ src.slots \in Nat
      /\ name = "session_decrypt" => ~job.hot
  BY DEF Runnable, Pooled
<1>3. PICK sum \in Sums(src.slots, fam, job.hot) : TRUE
  BY <1>2, ChecksumRuns, Zenon DEF Pooled
<1> DEFINE Good(i) == /\ run[i].ok = i /\ run[i].acc = sum[i]
                      /\ name = "session_decrypt" => run[i].rx = 1..i
           S == {i \in 0..src.slots : Good(i)}
<1>4. 0 \in S
  BY <1>1, <1>2, <1>3 DEF Courses, Sums
<1>5. ASSUME NEW i \in 0..src.slots - 1, i \in S PROVE i + 1 \in S
  <2>1. PICK s \in 0..src.slots - 1, refuse \in BOOLEAN :
              /\ s = (IF job.hot THEN 0 ELSE i) /\ ~refuse
              /\ run[i] \in Pass(src.slots) /\ run[i + 1] = arm(name, run[i], s, refuse)
    BY CourseStep, Zenon
  <2>2. run[i + 1] = arm(name, run[i], s, FALSE)
    <3>1. refuse = FALSE
      BY <2>1
    <3> QED BY <2>1, <3>1, Zenon
  <2>3. sum[i + 1] = sum[i] \o Words(fam, s)
    <3>1. i + 1 \in 1..src.slots /\ (i + 1) - 1 = i
      BY <1>2
    <3>2. Slot(job.hot, i + 1) = s
      BY <2>1, <3>1, Zenon DEF Slot
    <3> QED BY <3>1, <3>2, Zenon DEF Sums
  <2>4. name = "session_decrypt" => s = i /\ s + 1 \notin run[i].rx
    BY <1>2, <1>5, <2>1
  <2>5. /\ run[i + 1].ok = run[i].ok + 1
        /\ run[i + 1].acc = run[i].acc \o Words(fam, s)
        /\ name = "session_decrypt" => run[i + 1].rx = run[i].rx \cup {s + 1}
    <3> DEFINE p == run[i]
               n == src.slots
    <3>1. n \in Nat /\ p \in Pass(n) /\ s \in 0..n - 1
      BY <1>2, <2>1
    <3>2. name = "session_decrypt" => s + 1 \notin p.rx
      BY <2>4
    <3> HIDE DEF p, n, name
    <3>3. Succeeds(name, p, s, arm(name, p, s, FALSE))
      BY <1>2, <3>1, <3>2, SoundArm, Zenon
    <3> QED BY <2>2, <3>3, Zenon DEF p, Succeeds
  <2> HIDE DEF fam, name
  <2>6. name = "session_decrypt" => run[i + 1].rx = 1..(i + 1)
    <3>1. 1..i \cup {i + 1} = 1..(i + 1)
      BY <1>2
    <3> QED BY <1>5, <2>4, <2>5, <3>1, Zenon
  <2>7. run[i + 1].ok = i + 1 /\ run[i + 1].acc = sum[i + 1]
    BY <1>5, <2>3, <2>5, Zenon
  <2>8. i + 1 \in 0..src.slots
    BY <1>2
  <2> QED BY <2>6, <2>7, <2>8
<1> HIDE DEF S
<1>6. src.slots \in S
  BY <1>2, <1>4, <1>5, UpTo
<1> HIDE DEF fam, name
<1>7. sum[src.slots] = Checksum(src.slots, fam, job.hot) /\ run[src.slots] = take_sample(job, {})
  BY <1>1, <1>3 DEF Sums, Courses
<1> QED BY <1>6, <1>7 DEF S, fam, name

\* null leaves the buffer alone, succeeds always, and a cold pass of it folds
\* the buffer as it is.
LEMMA NullPass ==
    ASSUME Pooled, NEW job, Runnable(job), job.name = "null", NEW refused
    PROVE  /\ take_sample(job, refused).dst = dst
           /\ take_sample(job, refused).ok = src.slots
           /\ ~job.hot => take_sample(job, refused).acc = [k \in 1..src.slots |-> dst[k - 1]]
<1>1. PICK run \in Courses(job, refused) : TRUE
  BY SampleRuns
<1>2. src.slots \in Nat /\ job.hot \in BOOLEAN
  BY DEF Runnable, Pooled
<1> DEFINE Good(i) == /\ run[i].dst = dst /\ run[i].ok = i
                      /\ ~job.hot => run[i].acc = [k \in 1..i |-> dst[k - 1]]
           S == {i \in 0..src.slots : Good(i)}
<1>3. 0 \in S
  BY <1>1, <1>2 DEF Courses
<1>4. ASSUME NEW i \in 0..src.slots - 1, i \in S PROVE i + 1 \in S
  <2>1. PICK s \in 0..src.slots - 1, refuse \in BOOLEAN :
              /\ s = (IF job.hot THEN 0 ELSE i) /\ (refused = {} => ~refuse)
              /\ run[i] \in Pass(src.slots)
              /\ run[i + 1] = arm(job.name, run[i], s, refuse)
    BY CourseStep, Zenon
  <2>2. run[i + 1] = arm("null", run[i], s, refuse)
    BY <2>1, Zenon
  <2>3. /\ run[i + 1].dst = dst /\ run[i + 1].ok = i + 1
        /\ run[i + 1].acc = Append(run[i].acc, dst[s])
    <3>1. /\ run[i + 1].dst = run[i].dst /\ run[i + 1].ok = run[i].ok + 1
          /\ run[i + 1].acc = Append(run[i].acc, run[i].dst[s])
      <4> DEFINE p == run[i]
                 n == src.slots
      <4>1. n \in Nat /\ p \in Pass(n) /\ s \in 0..n - 1
        BY <1>2, <2>1
      <4> HIDE DEF p, n
      <4> QED BY <2>2, <4>1, NullArm DEF p
    <3> QED BY <1>4, <3>1
  <2>4. ASSUME ~job.hot PROVE run[i + 1].acc = [k \in 1..(i + 1) |-> dst[k - 1]]
    <3>1. run[i].acc \in Seq(Word) /\ run[i].acc = [k \in 1..i |-> dst[k - 1]] /\ s = i
      BY <1>4, <2>1, <2>4 DEF Pass
    <3> DEFINE a == run[i].acc
    <3>2. Len(a) = i
      BY <1>2, <3>1
    <3>3. Append(a, dst[s]) = [k \in 1..(i + 1) |-> IF k = i + 1 THEN dst[s] ELSE a[k]]
      <4> HIDE DEF a
      <4> QED BY <1>2, <3>1, <3>2
    <3> QED BY <1>2, <2>3, <3>1, <3>3
  <2>5. i + 1 \in 0..src.slots
    BY <1>2
  <2> QED BY <2>3, <2>4, <2>5, Zenon
<1> HIDE DEF S
<1>5. src.slots \in S
  BY <1>2, <1>3, <1>4, UpTo
<1> QED BY <1>1, <1>5, Zenon DEF S, Courses

\* The buffer is as a cold pass of arm name leaves it.
Fills(name, d) == \A s \in 0..src.slots - 1 : d[s] = Written(name, s)

\* A cold pass of a writing arm overwrites the whole buffer; a hot one changes
\* nothing of what a cold one left.
LEMMA WritingPass ==
    ASSUME Pooled, NEW job, Runnable(job), job.name \in Writing,
           ~job.hot \/ Fills(job.name, dst)
    PROVE  Fills(job.name, take_sample(job, {}).dst)
<1>1. PICK run \in Courses(job, {}) : TRUE
  BY SampleRuns
<1>2. src.slots \in Nat /\ job.hot \in BOOLEAN
  BY DEF Runnable, Pooled
<1> DEFINE Good(i) == \A s \in 0..src.slots - 1 :
                         s < i \/ job.hot => run[i].dst[s] = Written(job.name, s)
           S == {i \in 0..src.slots : Good(i)}
<1>3. 0 \in S
  <2>1. run[0].dst = dst
    BY <1>1 DEF Courses
  <2> QED BY <1>2, <2>1 DEF Fills
<1>4. ASSUME NEW i \in 0..src.slots - 1, i \in S PROVE i + 1 \in S
  <2>1. PICK s \in 0..src.slots - 1, refuse \in BOOLEAN :
              /\ s = (IF job.hot THEN 0 ELSE i) /\ ~refuse
              /\ run[i] \in Pass(src.slots) /\ run[i + 1] = arm(job.name, run[i], s, refuse)
    BY CourseStep, Zenon
  <2>2. Writes(job.name, run[i], s, run[i + 1])
    <3>1. refuse = FALSE
      BY <2>1
    <3>2. run[i + 1] = arm(job.name, run[i], s, FALSE)
      BY <2>1, <3>1, Zenon
    <3> QED BY <1>2, <2>1, <3>2, WritingArms, Zenon
  <2>3. \A t \in 0..src.slots - 1 :
            run[i + 1].dst[t] = IF t = s THEN Written(job.name, s) ELSE run[i].dst[t]
    BY <2>1, <2>2, Zenon DEF Pass, Writes
  <2>4. i + 1 \in 0..src.slots
    BY <1>2
  <2>5. Good(i + 1)
    <3> SUFFICES ASSUME NEW t \in 0..src.slots - 1, t < i + 1 \/ job.hot
                 PROVE  run[i + 1].dst[t] = Written(job.name, t)
      OBVIOUS
    <3>1. CASE t = s
      BY <2>3, <3>1, Zenon
    <3>2. CASE t # s
      <4>1. run[i + 1].dst[t] = run[i].dst[t]
        BY <2>3, <3>2
      <4>2. t < i \/ job.hot
        BY <1>2, <2>1, <3>2
      <4> QED BY <1>4, <4>1, <4>2
    <3> QED BY <3>1, <3>2
  <2> QED BY <2>4, <2>5
<1> HIDE DEF S
<1>5. src.slots \in S
  BY <1>2, <1>3, <1>4, UpTo
<1>6. take_sample(job, {}) = run[src.slots]
  BY <1>1, Zenon DEF Courses
<1>7. \A s \in 0..src.slots - 1 : s < src.slots
  BY <1>2
<1> QED BY <1>5, <1>6, <1>7, Zenon DEF S, Fills

-----------------------------------------------------------------------------
(* The runner.                                                             *)

Job == {job \in [name : ArmNames, family : {"Null", "Copy", "Dec", "Enc", "EncChaCha"},
                 hot : BOOLEAN] :
           /\ job.family = Family(job.name)
           /\ job.name = "session_decrypt" => ~job.hot}

Result == [total_ops : Nat, expected_ops : Nat, acc : Seq(Word), acc_stable : BOOLEAN]

Config == [rounds : Nat, max_slots : Nat, pool_bytes : Nat, sweep : BOOLEAN]

\* A run_all is in progress.
Running == pc \in {"calibrate", "round", "warm", "sample"}

BenchTypeOK ==
    /\ pc \in {"start", "self_test", "warm_up", "calibrate", "round", "warm", "sample",
               "sweep", "report", "done", "aborted"}
    /\ stage \in 0..Len(SweepLens) /\ refusals \in Nat /\ spoiled \in BOOLEAN
    /\ cfg \in Config
    /\ Running \/ pc \in {"self_test", "warm_up"} => Pooled
    /\ pc = "sweep" => stage < Len(SweepLens)

\* The jobs of the run in progress, and an order that misses none of them.
RunShape ==
    /\ jobs \in Seq(Job) /\ jobs # <<>> /\ (stage = 0 => jobs = main_jobs)
    /\ results \in [DOMAIN jobs -> Result]
    /\ order \in Seq(DOMAIN jobs) /\ Len(order) = Len(jobs)
    /\ \A j \in DOMAIN jobs : \E q \in DOMAIN order : order[q] = j
    /\ round \in Nat

RunTypeOK ==
    Running => /\ RunShape
               /\ pc = "calibrate" => round = 0
               /\ pc # "round" => pos \in DOMAIN jobs

\* No job counts more successes than packets, and a spoiled sample leaves one
\* short.
Counted ==
    /\ pc \in {"start", "self_test", "warm_up"} => ~spoiled /\ stage = 0
    /\ Running => /\ \A j \in DOMAIN jobs : results[j].total_ops <= results[j].expected_ops
                  /\ stage = 0 /\ spoiled =>
                        \E j \in DOMAIN jobs : results[j].total_ops < results[j].expected_ops

\* The main run, as long as nothing was refused: every job recorded has its
\* family's checksum; after a round every job is recorded.
Unrefused == refusals = 0 /\ stage = 0 /\ Running

Sound ==
    /\ refusals = 0 => round_trips
    /\ Unrefused =>
        /\ \A j \in DOMAIN jobs :
              LET r == results[j]
              IN  /\ r.total_ops = r.expected_ops
                  /\ r.total_ops = 0 => r.acc = <<>>
                  /\ jobs[j].family # "Null" =>
                        /\ r.acc_stable
                        /\ r.total_ops > 0 => r.acc = Checksum(src.slots, jobs[j].family, jobs[j].hot)
        /\ round > 0 => \A j \in DOMAIN jobs : results[j].total_ops > 0
        /\ round = 0 /\ pc \in {"calibrate", "round"} =>
              \A j \in DOMAIN jobs : results[j].total_ops = 0
        /\ pc \in {"warm", "sample"} =>
              \A q \in 1..pos - 1 : results[order[q]].total_ops > 0

\* The cold null job is the second.  In round 0 it follows the last job of the
\* calibration, the sender's arm, and in round 1 the copy.
Identity == \A q \in DOMAIN jobs : order[q] = q
Backwards == order[1] = 1 /\ \A q \in 2..Len(jobs) : order[q] = Len(jobs) + 2 - q

Drifts ==
    Unrefused =>
        /\ pc = "calibrate" \/ round = 0 \/ (pc = "round" /\ round = 1) => Identity
        /\ pc = "round" /\ round = 0 => Fills("session_encrypt", dst)
        /\ pc \in {"warm", "sample"} /\ round = 0 /\ pos <= 2 => Fills("session_encrypt", dst)
        /\ results[2].total_ops > 0 =>
              results[2].acc = [k \in 1..src.slots |-> wire_packet(k - 1)]
        /\ pc \in {"warm", "sample"} /\ round = 1 =>
              /\ Backwards
              /\ pos >= Len(jobs) - 1 => Fills("copy_payload", dst)
        /\ round >= 2 => ~results[2].acc_stable

\* The main run has returned.
Returned == stage > 0 \/ pc \in {"sweep", "report", "done"}

Drifted == \E j \in DOMAIN res : main_jobs[j].family = "Null" /\ ~res[j].acc_stable

Settled ==
    Returned =>
        /\ spoiled => ~all_ok
        /\ refusals = 0 => gates /\ (cfg.rounds >= 2 => Drifted)

BenchInv ==
    BenchTypeOK /\ RunTypeOK /\ Counted /\ Sound /\ Drifts /\ Settled /\ RunSurvives

-----------------------------------------------------------------------------
\* The pool has a slot, whatever the arguments.
LEMMA BuildSlots ==
    ASSUME NEW len \in Nat, NEW c \in Config
    PROVE  build(len, c).slots \in Nat \ {0}
<1> DEFINE q == (WIRE_OVERHEAD + len + 16 + 64 - 1) \div 64
           aligned == align_up(WIRE_OVERHEAD + len + 16, 64) + 128
           stride == IF \E k \in 0..16 : aligned = 2^k THEN aligned + 64 ELSE aligned
           fit == c.pool_bytes \div stride
           cap == slot_cap(c.max_slots)
<1>1. q \in Nat
  BY DEF WIRE_OVERHEAD
<1>2. aligned = q * 64 + 128
  BY DEF align_up
<1> HIDE DEF q
<1>3. aligned \in Nat /\ aligned > 0
  BY <1>1, <1>2
<1> HIDE DEF aligned
<1>4. stride \in Nat /\ stride > 0
  <2>1. stride \in {aligned, aligned + 64}
    OBVIOUS
  <2> QED BY <1>3, <2>1
<1>5. c.pool_bytes \in Nat /\ c.max_slots \in Nat
  BY DEF Config
<1> HIDE DEF stride
<1>6. fit \in Nat
  BY <1>4, <1>5
<1>7. cap \in Nat /\ cap >= MinSlots /\ MinSlots \in Nat /\ MinSlots > 0
  BY <1>5, BenchAssumption DEF slot_cap
<1>8. build(len, c).slots = IF cap < MinSlots THEN 0
                            ELSE IF fit < MinSlots THEN MinSlots
                            ELSE IF fit > cap THEN cap ELSE fit
  BY DEF build, stride, aligned
<1> HIDE DEF fit, cap
<1> QED BY <1>6, <1>7, <1>8

-----------------------------------------------------------------------------
(* The jobs.                                                               *)

\* Appending keeps what was there.
LEMMA Extended ==
    ASSUME NEW S, NEW a \in Seq(S), NEW b \in Seq(S)
    PROVE  /\ a \o b \in Seq(S) /\ Len(a \o b) = Len(a) + Len(b)
           /\ \A k \in 1..Len(a) : (a \o b)[k] = a[k]
           /\ \A k \in 1..Len(b) : (a \o b)[Len(a) + k] = b[k]
OBVIOUS

\* The jobs of one arm.
Pair(name) == <<[name |-> name, family |-> Family(name), hot |-> TRUE],
                [name |-> name, family |-> Family(name), hot |-> FALSE]>>
Single(name) == <<[name |-> name, family |-> Family(name), hot |-> FALSE]>>

\* The residencies each arm is run in: all but the receiver in both.
LEMMA ArmJobs ==
    /\ residencies(specs[1]) = Pair("null")
    /\ residencies(specs[2]) = Pair("copy_payload")
    /\ residencies(specs[3]) = Pair("rc_aesgcm256_dec")
    /\ residencies(specs[4]) = Pair("ring_aesgcm256_dec")
    /\ residencies(specs[5]) = Pair("rc_chacha_dec *")
    /\ residencies(specs[6]) = Single("session_decrypt")
    /\ residencies(specs[7]) = Pair("rc_aesgcm256_enc")
    /\ residencies(specs[8]) = Pair("ring_aesgcm256_enc")
    /\ residencies(specs[9]) = Pair("rc_chacha_enc *")
    /\ residencies(specs[10]) = Pair("session_encrypt")
<1> USE DEF specs, residencies, Pair, Single, Family
<1>1. residencies(specs[1]) = Pair("null")
  BY Zenon
<1>2. residencies(specs[2]) = Pair("copy_payload")
  BY Zenon
<1>3. residencies(specs[3]) = Pair("rc_aesgcm256_dec")
  BY Zenon
<1>4. residencies(specs[4]) = Pair("ring_aesgcm256_dec")
  BY Zenon
<1>5. residencies(specs[5]) = Pair("rc_chacha_dec *")
  BY Zenon
<1>6. residencies(specs[6]) = Single("session_decrypt")
  BY Zenon
<1>7. residencies(specs[7]) = Pair("rc_aesgcm256_enc")
  BY Zenon
<1>8. residencies(specs[8]) = Pair("ring_aesgcm256_enc")
  BY Zenon
<1>9. residencies(specs[9]) = Pair("rc_chacha_enc *")
  BY Zenon
<1>10. residencies(specs[10]) = Pair("session_encrypt")
  BY Zenon
<1> QED BY <1>1, <1>2, <1>3, <1>4, <1>5, <1>6, <1>7, <1>8, <1>9, <1>10, Zenon

\* Those residencies are jobs.
LEMMA ArmJobType ==
    ASSUME NEW name \in ArmNames
    PROVE  /\ name # "session_decrypt" => Pair(name) \in Seq(Job) /\ Len(Pair(name)) = 2
           /\ Single(name) \in Seq(Job) /\ Len(Single(name)) = 1
<1>1. Family(name) \in {"Null", "Copy", "Dec", "Enc", "EncChaCha"}
  BY Zenon DEF Family, ArmNames
<1>2. name # "session_decrypt" => [name |-> name, family |-> Family(name), hot |-> TRUE] \in Job
  BY <1>1 DEF Job
<1>3. [name |-> name, family |-> Family(name), hot |-> FALSE] \in Job
  BY <1>1 DEF Job
<1> QED BY <1>2, <1>3 DEF Pair, Single

\* What the i-th arm contributes.
Chunk(wanted, i) == IF specs[i].name \in wanted THEN residencies(specs[i]) ELSE <<>>

\* What one arm adds to the list of jobs.
LEMMA ChunkType ==
    ASSUME NEW wanted, NEW i \in 1..10
    PROVE  /\ residencies(specs[i]) \in Seq(Job) /\ Chunk(wanted, i) \in Seq(Job)
           /\ Len(residencies(specs[i])) = IF i = 6 THEN 1 ELSE 2
<1> DEFINE R(k) == residencies(specs[k]) \in Seq(Job)
                   /\ Len(residencies(specs[k])) = IF k = 6 THEN 1 ELSE 2
<1>1. R(6)
  BY ArmJobs, ArmJobType, Zenon DEF ArmNames
<1>2. R(1) /\ R(2) /\ R(3) /\ R(4) /\ R(5)
  BY ArmJobs, ArmJobType, Zenon DEF ArmNames
<1>3. R(7) /\ R(8) /\ R(9) /\ R(10)
  BY ArmJobs, ArmJobType, Zenon DEF ArmNames
<1> HIDE DEF R
<1>4. R(i)
  BY <1>1, <1>2, <1>3
<1>5. <<>> \in Seq(Job)
  OBVIOUS
<1> QED BY <1>4, <1>5, Zenon DEF R, Chunk

\* The list of jobs, arm by arm.
JobCourses(wanted) ==
    {js \in [0..10 -> Seq(Job)] :
        /\ js[0] = <<>>
        /\ \A i \in 1..10 : js[i] = js[i - 1] \o Chunk(wanted, i)
        /\ js[10] = jobs_of(wanted)}

\* The loop that builds the list of jobs has a course.
LEMMA JobsRun ==
    ASSUME NEW wanted
    PROVE  JobCourses(wanted) # {}
<1> DEFINE step == [i \in 1..10 |-> [a \in Seq(Job) |-> a \o Chunk(wanted, i)]]
           Course(f) == f = [i \in 0..10 |-> IF i = 0 THEN <<>> ELSE
                                   f[i - 1] \o Chunk(wanted, i)]
           js == CHOOSE f : Course(f)
           Jobs == Seq(Job)
<1>1. Len(specs) = 10
  BY DEF specs
<1>2. /\ <<>> \in Jobs /\ \A a, b \in Jobs : a \o b \in Jobs
      /\ \A i \in 1..10 : Chunk(wanted, i) \in Jobs
  BY ChunkType
<1>3. \A i \in 1..10 : i \in 0..10 /\ i # 0 /\ i - 1 \in 0..10
  OBVIOUS
<1>4. \A i \in 0..10 : i # 0 => i \in 1..10
  OBVIOUS
<1>5. step \in [1..10 -> [Jobs -> Jobs]]
  <2> HIDE DEF Jobs
  <2>1. step = [i \in 1..10 |-> [a \in Jobs |-> a \o Chunk(wanted, i)]]
    BY DEF Jobs
  <2> QED BY <1>2, <2>1, Zenon
<1>6. PICK f \in Loop(10, Jobs, <<>>, step) : TRUE
  <2> DEFINE n == 10
             a == <<>>
  <2>1. n \in Nat /\ step \in [1..n -> [Jobs -> Jobs]] /\ a \in Jobs
    BY <1>2, <1>5
  <2> HIDE DEF step, Jobs, n, a
  <2>2. Loop(n, Jobs, a, step) # {}
    BY <2>1, LoopRuns
  <2> QED BY <2>2, Zenon DEF n, a
<1>7. Course(f)
  <2>1. ASSUME NEW i \in 1..10 PROVE step[i][f[i - 1]] = f[i - 1] \o Chunk(wanted, i)
    <3>1. f[i - 1] \in Seq(Job)
      BY <1>3, <1>6, Zenon DEF Loop
    <3> QED BY <3>1, Zenon
  <2> HIDE DEF step
  <2> QED BY <1>4, <1>6, <2>1, Zenon DEF Loop
<1>8. Course(js)
  <2> HIDE DEF Course
  <2> QED BY <1>7, Zenon
<1>9. jobs_of(wanted) = js[10]
  BY <1>1, Zenon DEF jobs_of, Chunk
<1> HIDE DEF js
<1>10. js[0] = <<>> /\ \A i \in 1..10 : js[i] = js[i - 1] \o Chunk(wanted, i)
  <2>1. \A i \in 0..10 : js[i] = IF i = 0 THEN <<>> ELSE js[i - 1] \o Chunk(wanted, i)
    BY <1>8, Zenon
  <2>2. 0 \in 0..10
    OBVIOUS
  <2> QED BY <1>3, <2>1, <2>2, Zenon
<1>11. \A i \in 0..10 : js[i] \in Jobs
  <2> DEFINE S == {i \in 0..10 : js[i] \in Jobs}
  <2> HIDE DEF Jobs
  <2>1. 0 \in S
    BY <1>2, <1>10
  <2>2. ASSUME NEW i \in 0..10 - 1, i \in S PROVE i + 1 \in S
    <3>1. i + 1 \in 1..10 /\ i + 1 \in 0..10 /\ (i + 1) - 1 = i
      OBVIOUS
    <3> QED BY <1>2, <1>10, <2>2, <3>1, Zenon
  <2> HIDE DEF S
  <2>3. \A i \in 0..10 : i \in S
    <3>1. 10 \in Nat
      OBVIOUS
    <3> QED BY <2>1, <2>2, <3>1, UpTo, Zenon
  <2> QED BY <2>3 DEF S
<1>12. js \in [0..10 -> Seq(Job)]
  BY <1>8, <1>11
<1> QED BY <1>9, <1>10, <1>12, Zenon DEF JobCourses

\* Each turn of it appends, and keeps what was there.
LEMMA JobsGrow ==
    ASSUME NEW wanted, NEW js \in JobCourses(wanted), NEW i \in 1..10
    PROVE  /\ js[i - 1] \in Seq(Job) /\ js[i] \in Seq(Job)
           /\ Len(js[i]) = Len(js[i - 1]) + Len(Chunk(wanted, i))
           /\ \A k \in 1..Len(js[i - 1]) : js[i][k] = js[i - 1][k]
           /\ \A k \in 1..Len(Chunk(wanted, i)) :
                 js[i][Len(js[i - 1]) + k] = Chunk(wanted, i)[k]
<1>1. i - 1 \in 0..10 /\ i \in 0..10
  OBVIOUS
<1>2. js[i - 1] \in Seq(Job) /\ js[i] \in Seq(Job)
  BY <1>1, Zenon DEF JobCourses
<1>3. Chunk(wanted, i) \in Seq(Job)
  BY ChunkType
<1>4. js[i] = js[i - 1] \o Chunk(wanted, i)
  BY Zenon DEF JobCourses
<1> QED BY <1>2, <1>3, <1>4, Extended

\* The arms of the sweep give jobs.
LEMMA SomeJobs ==
    ASSUME NEW wanted, "rc_aesgcm256_dec" \in wanted
    PROVE  jobs_of(wanted) \in Seq(Job) /\ jobs_of(wanted) # <<>>
<1>1. PICK js \in JobCourses(wanted) : TRUE
  BY JobsRun, Zenon
<1> DEFINE L(i) == Len(js[i])
           C(i) == Len(Chunk(wanted, i))
<1>2. \A a \in Seq(Job) : Len(a) \in Nat
  OBVIOUS
<1>3. \A i \in 0..10 : L(i) \in Nat
  BY <1>2, Zenon DEF JobCourses
<1>4. \A i \in 1..10 : C(i) \in Nat
  BY <1>2, ChunkType, Zenon
<1>5. \A i \in 1..10 : L(i) = L(i - 1) + C(i)
  BY JobsGrow, Zenon
<1>6. C(3) = 2
  <2>1. Chunk(wanted, 3) = residencies(specs[3]) /\ 3 \in 1..10
    BY DEF Chunk, specs
  <2>2. Len(residencies(specs[3])) = 2
    BY ChunkType
  <2> QED BY <2>1, <2>2, Zenon
<1> HIDE DEF L, C
<1>7. L(3) = L(2) + C(3) /\ L(2) \in Nat /\ L(3) \in Nat
  BY <1>3, <1>5
<1>8. ASSUME NEW i \in 1..10 PROVE L(i) >= L(i - 1)
  BY <1>3, <1>4, <1>5
<1>9. /\ L(4) >= L(3) /\ L(5) >= L(4) /\ L(6) >= L(5) /\ L(7) >= L(6) /\ L(8) >= L(7)
      /\ L(9) >= L(8) /\ L(10) >= L(9)
  BY <1>8
<1>10. L(10) > 0
  BY <1>3, <1>6, <1>7, <1>9
<1>11. jobs_of(wanted) \in Seq(Job) /\ Len(jobs_of(wanted)) = L(10)
  <2>1. 10 \in 0..10
    OBVIOUS
  <2> QED BY <2>1, Zenon DEF L, JobCourses
<1> QED BY <1>10, <1>11

\* The main run has nineteen jobs; of these, the ones around the cold null.
LEMMA MainJobs ==
    /\ main_jobs \in Seq(Job) /\ Len(main_jobs) = 19
    /\ main_jobs[1] = Pair("null")[1] /\ main_jobs[2] = Pair("null")[2]
    /\ main_jobs[3] = Pair("copy_payload")[1] /\ main_jobs[4] = Pair("copy_payload")[2]
    /\ main_jobs[19] = Pair("session_encrypt")[2]
<1>1. PICK js \in JobCourses(all_arms) : TRUE
  BY JobsRun, Zenon
<1> DEFINE L(i) == Len(js[i])
           At(i, k) == js[i][k]
           R(i, k) == residencies(specs[i])[k]
           C(i) == Len(residencies(specs[i]))
<1>2. ASSUME NEW i \in 1..10 PROVE Chunk(all_arms, i) = residencies(specs[i])
  <2>1. DOMAIN specs = 1..10
    BY DEF specs
  <2> QED BY <2>1, Zenon DEF all_arms, Chunk
<1> DEFINE Grows(i, j) == /\ L(j) = L(i) + C(j)
                          /\ \A k \in 1..L(i) : At(j, k) = At(i, k)
                          /\ \A k \in 1..C(j) : At(j, L(i) + k) = R(j, k)
<1>3. ASSUME NEW j \in 1..10, NEW i, i = j - 1 PROVE Grows(i, j)
  <2>1. L(j) = L(j - 1) + Len(Chunk(all_arms, j))
    BY <1>1, JobsGrow, Zenon
  <2>2. \A k \in 1..L(j - 1) : At(j, k) = At(j - 1, k)
    BY <1>1, JobsGrow, Zenon
  <2>3. \A k \in 1..Len(Chunk(all_arms, j)) : At(j, L(j - 1) + k) = Chunk(all_arms, j)[k]
    BY <1>1, JobsGrow, Zenon
  <2>4. Chunk(all_arms, j) = residencies(specs[j])
    BY <1>2, Zenon
  <2> HIDE DEF L, At
  <2> QED BY <1>3, <2>1, <2>2, <2>3, <2>4, Zenon
<1>4. ASSUME NEW i \in 1..10 PROVE C(i) = IF i = 6 THEN 1 ELSE 2
  BY ChunkType, Zenon
<1>5. L(0) = 0
  <2>1. js[0] = <<>>
    BY Zenon DEF JobCourses
  <2> QED BY <2>1
<1>6. /\ R(1, 1) = Pair("null")[1] /\ R(1, 2) = Pair("null")[2]
      /\ R(2, 1) = Pair("copy_payload")[1] /\ R(2, 2) = Pair("copy_payload")[2]
      /\ R(10, 2) = Pair("session_encrypt")[2]
  BY ArmJobs, Zenon
<1> DEFINE Kept(i) == \A k \in 1..4 : At(i, k) = At(2, k)
<1> HIDE DEF L, At, R, C, Grows
<1>7. L(1) = 2 /\ At(1, 1) = R(1, 1) /\ At(1, 2) = R(1, 2)
  <2>1. Grows(0, 1) /\ C(1) = 2
    BY <1>3, <1>4
  <2> QED BY <1>5, <2>1 DEF Grows
<1>8. L(2) = 4 /\ At(2, 1) = R(1, 1) /\ At(2, 2) = R(1, 2)
  <2>1. Grows(1, 2) /\ C(2) = 2
    BY <1>3, <1>4
  <2> QED BY <1>7, <2>1 DEF Grows
<1>9. At(2, 3) = R(2, 1) /\ At(2, 4) = R(2, 2)
  <2>1. Grows(1, 2) /\ C(2) = 2
    BY <1>3, <1>4
  <2> QED BY <1>7, <2>1 DEF Grows
<1>10. L(3) = 6 /\ Kept(3)
  <2>1. Grows(2, 3) /\ C(3) = 2
    BY <1>3, <1>4
  <2> QED BY <1>8, <2>1 DEF Grows
<1>11. L(4) = 8 /\ Kept(4)
  <2>1. Grows(3, 4) /\ C(4) = 2
    BY <1>3, <1>4
  <2> QED BY <1>10, <2>1 DEF Grows
<1>12. L(5) = 10 /\ Kept(5)
  <2>1. Grows(4, 5) /\ C(5) = 2
    BY <1>3, <1>4
  <2> QED BY <1>11, <2>1 DEF Grows
<1>13. L(6) = 11 /\ Kept(6)
  <2>1. Grows(5, 6) /\ C(6) = 1
    BY <1>3, <1>4
  <2> QED BY <1>12, <2>1 DEF Grows
<1>14. L(7) = 13 /\ Kept(7)
  <2>1. Grows(6, 7) /\ C(7) = 2
    BY <1>3, <1>4
  <2> QED BY <1>13, <2>1 DEF Grows
<1>15. L(8) = 15 /\ Kept(8)
  <2>1. Grows(7, 8) /\ C(8) = 2
    BY <1>3, <1>4
  <2> QED BY <1>14, <2>1 DEF Grows
<1>16. L(9) = 17 /\ Kept(9)
  <2>1. Grows(8, 9) /\ C(9) = 2
    BY <1>3, <1>4
  <2> QED BY <1>15, <2>1 DEF Grows
<1>17. L(10) = 19 /\ Kept(10) /\ At(10, 19) = R(10, 2)
  <2>1. Grows(9, 10) /\ C(10) = 2
    BY <1>3, <1>4
  <2> QED BY <1>16, <2>1 DEF Grows
<1>18. /\ At(10, 1) = At(2, 1) /\ At(10, 2) = At(2, 2)
       /\ At(10, 3) = At(2, 3) /\ At(10, 4) = At(2, 4)
  BY <1>17
<1>19. js[10] = main_jobs /\ main_jobs \in Seq(Job)
  <2>1. 10 \in 0..10
    OBVIOUS
  <2> QED BY <2>1, Zenon DEF JobCourses, main_jobs
<1> QED BY <1>6, <1>8, <1>9, <1>17, <1>18, <1>19, Zenon DEF L, At

-----------------------------------------------------------------------------
(* The order of the jobs.                                                  *)

Rotation(o, k) == SubSeq(o, k + 1, Len(o)) \o SubSeq(o, 1, k)
Reversal(o) == [i \in DOMAIN o |-> o[Len(o) + 1 - i]]

\* What is appended comes after what was there.
LEMMA ExtendedTail ==
    ASSUME NEW S, NEW a \in Seq(S), NEW b \in Seq(S), NEW k \in 1..Len(b)
    PROVE  (a \o b)[Len(a) + k] = b[k]
BY Extended

\* a is o, of n elements of S, turned by k places; b is a backwards.
Rotates(a, o, S, n, k) ==
    /\ a \in Seq(S) /\ Len(a) = n
    /\ \A q \in 1..n : a[q] = IF q <= n - k THEN o[q + k] ELSE o[q - (n - k)]
Reverses(b, a, S, n) ==
    /\ b \in Seq(S) /\ Len(b) = n
    /\ \A q \in 1..n : b[q] = a[n + 1 - q]

\* rotate_left, position by position.
LEMMA Rotated ==
    ASSUME NEW S, NEW o \in Seq(S), NEW n \in Nat, Len(o) = n, NEW k \in 0..n - 1
    PROVE  Rotates(Rotation(o, k), o, S, n, k)
<1> DEFINE a == SubSeq(o, k + 1, n)
           b == SubSeq(o, 1, k)
<1>1. a \in Seq(S) /\ Len(a) = n - k /\ \A q \in 1..n - k : a[q] = o[q + k]
  OBVIOUS
<1>2. b \in Seq(S) /\ Len(b) = k /\ \A q \in 1..k : b[q] = o[q]
  OBVIOUS
<1> HIDE DEF a, b
<1>3. a \o b \in Seq(S) /\ Len(a \o b) = n
  <2>1. a \o b \in Seq(S) /\ Len(a \o b) = Len(a) + Len(b)
    BY <1>1, <1>2, Extended, Zenon
  <2> HIDE DEF a, b
  <2>2. Len(a) + Len(b) = n
    BY <1>1, <1>2
  <2> QED BY <2>1, <2>2, Zenon
<1>4. ASSUME NEW q \in 1..n
      PROVE  (a \o b)[q] = IF q <= n - k THEN o[q + k] ELSE o[q - (n - k)]
  <2>1. CASE q <= n - k
    <3>1. q \in 1..Len(a) /\ q \in 1..n - k
      BY <1>1, <2>1
    <3>2. (a \o b)[q] = a[q]
      BY <1>1, <1>2, <3>1, Extended
    <3> QED BY <1>1, <2>1, <3>1, <3>2
  <2>2. CASE ~(q <= n - k)
    <3> DEFINE t == q - (n - k)
    <3>1. t \in 1..Len(b) /\ t \in 1..k /\ Len(a) + t = q
      BY <1>1, <1>2, <2>2
    <3> HIDE DEF t
    <3>2. (a \o b)[Len(a) + t] = b[t]
      <4>1. a \in Seq(S) /\ b \in Seq(S) /\ t \in 1..Len(b)
        BY <1>1, <1>2, <3>1
      <4> QED BY <4>1, ExtendedTail
    <3>3. (a \o b)[q] = o[t]
      BY <1>2, <3>1, <3>2, Zenon
    <3> QED BY <2>2, <3>3, Zenon DEF t
  <2> QED BY <2>1, <2>2, Zenon
<1> QED BY <1>3, <1>4, Zenon DEF Rotates, Rotation, a, b

\* reverse, position by position.
LEMMA Reversed ==
    ASSUME NEW S, NEW o \in Seq(S), NEW n \in Nat, Len(o) = n
    PROVE  Reverses(Reversal(o), o, S, n)
BY DEF Reverses, Reversal

\* The order misses none of 1..n.
Onto(o, n) == \A j \in 1..n : \E q \in 1..n : o[q] = j

\* The round permutes the order.
LEMMA Permuted ==
    ASSUME NEW n \in Nat \ {0}, NEW o \in Seq(1..n), Len(o) = n, Onto(o, n), NEW r \in Nat
    PROVE  permuted(o, r) \in Seq(1..n) /\ Len(permuted(o, r)) = n /\ Onto(permuted(o, r), n)
<1> DEFINE k == r % n
           a == Rotation(o, k)
<1>1. k \in 0..n - 1
  OBVIOUS
<1>2. permuted(o, r) = IF r % 2 = 1 THEN Reversal(a) ELSE a
  BY Zenon DEF permuted, Rotation, Reversal
<1> HIDE DEF k
<1>3. /\ a \in Seq(1..n) /\ Len(a) = n
      /\ \A q \in 1..n : a[q] = IF q <= n - k THEN o[q + k] ELSE o[q - (n - k)]
  <2>1. n \in Nat
    OBVIOUS
  <2>2. Rotates(a, o, 1..n, n, k)
    BY <1>1, <2>1, Rotated, Zenon
  <2> QED BY <2>2, Zenon DEF Rotates
<1> HIDE DEF a
<1>4. Onto(a, n)
  <2> SUFFICES ASSUME NEW j \in 1..n PROVE \E q \in 1..n : a[q] = j
    BY Zenon DEF Onto
  <2>1. PICK q \in 1..n : o[q] = j
    BY Zenon DEF Onto
  <2>2. CASE q > k
    <3>1. q - k \in 1..n /\ q - k <= n - k /\ (q - k) + k = q
      BY <1>1, <2>2
    <3>2. a[q - k] = o[q]
      BY <1>3, <3>1, Zenon
    <3> QED BY <2>1, <3>1, <3>2, Zenon
  <2>3. CASE ~(q > k)
    <3> DEFINE t == q + (n - k)
    <3>1. t \in 1..n /\ ~(t <= n - k) /\ t - (n - k) = q
      BY <1>1, <2>3
    <3> HIDE DEF t
    <3>2. a[t] = o[q]
      BY <1>3, <3>1, Zenon
    <3> QED BY <2>1, <3>1, <3>2, Zenon
  <2> QED BY <2>2, <2>3, Zenon
<1>5. /\ Reversal(a) \in Seq(1..n) /\ Len(Reversal(a)) = n
      /\ \A q \in 1..n : Reversal(a)[q] = a[n + 1 - q]
  BY <1>3, Reversed, Zenon DEF Reverses
<1>6. Onto(Reversal(a), n)
  <2> SUFFICES ASSUME NEW j \in 1..n PROVE \E q \in 1..n : Reversal(a)[q] = j
    BY Zenon DEF Onto
  <2>1. PICK q \in 1..n : a[q] = j
    BY <1>4, Zenon DEF Onto
  <2>2. n + 1 - q \in 1..n /\ n + 1 - (n + 1 - q) = q
    OBVIOUS
  <2>3. Reversal(a)[n + 1 - q] = a[q]
    BY <1>5, <2>2, Zenon
  <2> QED BY <2>1, <2>2, <2>3, Zenon
<1> QED BY <1>2, <1>3, <1>4, <1>5, <1>6, Zenon

\* The first round keeps the order, and the second starts with the first job
\* and takes the others backwards.
LEMMA FirstRounds ==
    ASSUME NEW n \in Nat \ {0, 1}, NEW o \in Seq(1..n), Len(o) = n, \A q \in 1..n : o[q] = q
    PROVE  /\ \A q \in 1..n : permuted(o, 0)[q] = q
           /\ permuted(o, 1)[1] = 1
           /\ \A q \in 2..n : permuted(o, 1)[q] = n + 2 - q
<1>1. 0 % n = 0 /\ 1 % n = 1
  OBVIOUS
<1>2. 0 % 2 = 0 /\ 1 % 2 = 1 /\ 0 \in 0..n - 1 /\ 1 \in 0..n - 1 /\ 1 \in 1..n
  OBVIOUS
<1>3. permuted(o, 0) = Rotation(o, 0) /\ permuted(o, 1) = Reversal(Rotation(o, 1))
  <2>1. permuted(o, 0) = IF 0 % 2 = 1 THEN Reversal(Rotation(o, 0 % n)) ELSE Rotation(o, 0 % n)
    BY Zenon DEF permuted, Rotation, Reversal
  <2>2. permuted(o, 1) = IF 1 % 2 = 1 THEN Reversal(Rotation(o, 1 % n)) ELSE Rotation(o, 1 % n)
    BY Zenon DEF permuted, Rotation, Reversal
  <2>3. 0 # 1
    OBVIOUS
  <2> QED BY <1>1, <1>2, <2>1, <2>2, <2>3, Zenon
<1>4. Rotates(Rotation(o, 0), o, 1..n, n, 0) /\ Rotates(Rotation(o, 1), o, 1..n, n, 1)
  <2>1. n \in Nat
    OBVIOUS
  <2> QED BY <1>2, <2>1, Rotated, Zenon
<1>5. \A q \in 1..n : Rotation(o, 0)[q] = q
  <2>1. \A q \in 1..n : q <= n - 0 /\ q + 0 = q
    OBVIOUS
  <2> QED BY <1>4, <2>1, Zenon DEF Rotates
<1> DEFINE a == Rotation(o, 1)
<1> HIDE DEF a
<1>6. \A q \in 1..n : Reversal(a)[q] = a[n + 1 - q]
  <2>1. n \in Nat
    OBVIOUS
  <2>2. a \in Seq(1..n) /\ Len(a) = n
    BY <1>4, Zenon DEF Rotates, a
  <2>3. Reverses(Reversal(a), a, 1..n, n)
    BY <2>1, <2>2, Reversed, Zenon
  <2> QED BY <2>3, Zenon DEF Reverses
<1>7. \A q \in 1..n : a[q] = IF q <= n - 1 THEN q + 1 ELSE 1
  <2>1. \A q \in 1..n : a[q] = IF q <= n - 1 THEN o[q + 1] ELSE o[q - (n - 1)]
    BY <1>4, Zenon DEF Rotates, a
  <2> QED BY <2>1
<1>8. Reversal(a)[1] = 1 /\ \A q \in 2..n : Reversal(a)[q] = n + 2 - q
  BY <1>6, <1>7
<1> QED BY <1>3, <1>5, <1>8, Zenon DEF a

-----------------------------------------------------------------------------
(* The steps.                                                              *)

\* A job of the list never commits the same counter twice in a sample.
LEMMA JobRunnable ==
    ASSUME NEW job \in Job
    PROVE  Runnable(job) /\ job.family = Family(job.name) /\ (job.family = "Null" <=> job.name = "null")
<1>1. /\ job.name \in ArmNames /\ job.hot \in BOOLEAN /\ job.family = Family(job.name)
      /\ job.name = "session_decrypt" => ~job.hot
  BY DEF Job
<1>2. Family(job.name) = "Null" <=> job.name = "null"
  BY <1>1, Zenon DEF Family, ArmNames
<1> QED BY <1>1, <1>2 DEF Runnable

\* A pass leaves a buffer; no refusal is forgotten.
LEMMA PassStep ==
    ASSUME Pooled, refusals \in Nat, src' = src, NEW job, Runnable(job), NEW refused,
           Passes(take_sample(job, refused), refused)
    PROVE  /\ Pooled' /\ refusals' \in Nat
           /\ refusals' = 0 => refusals = 0 /\ refused = {}
<1>1. take_sample(job, refused).dst \in [0..src.slots - 1 -> Word]
  BY PassType, Zenon DEF Pass
<1>2. dst' = take_sample(job, refused).dst
  BY DEF Passes
<1>3. Pooled'
  BY <1>1, <1>2 DEF Pooled
<1>4. refusals' = IF refused = {} THEN refusals ELSE refusals + 1
  BY DEF Passes
<1> QED BY <1>3, <1>4

\* The report's gates are about res and st.
LEMMA GatesKept ==
    ASSUME res' = res, st' = st
    PROVE  gates' = gates /\ all_ok' = all_ok /\ Drifted' = Drifted /\ round_trips' = round_trips
BY DEF gates, family_ok, all_acc, all_ok, round_trips, Drifted

\* The lengths of the sweep.
LEMMA Sweep ==
    Len(SweepLens) = 4 /\ \A i \in 1..4 : SweepLens[i] \in Nat
BY DEF SweepLens, M1_MEAN_PKT

\* Before main starts the invariant holds.
LEMMA BenchInitial ==
    ASSUME BenchInit
    PROVE  BenchInv
<1>1. cfg \in Config
  <2>1. PICK a \in RoundChoices, b \in MaxSlotsChoices, c \in PoolChoices, d \in BOOLEAN :
            cfg = [rounds |-> a, max_slots |-> b, pool_bytes |-> c, sweep |-> d]
    BY Zenon DEF BenchInit
  <2>2. a \in Nat /\ b \in Nat /\ c \in Nat
    BY BenchAssumption
  <2> QED BY <2>1, <2>2, Zenon DEF Config
<1>2. BenchTypeOK
  <2>1. pc = "start" /\ stage = 0 /\ refusals = 0 /\ spoiled = FALSE
    BY Zenon DEF BenchInit
  <2>2. stage \in 0..Len(SweepLens)
    BY <2>1, Sweep
  <2>3. refusals \in Nat /\ ~Running
    BY <2>1 DEF Running
  <2> QED BY <1>1, <2>1, <2>2, <2>3, Zenon DEF BenchTypeOK
<1>3. round_trips
  <2>1. DOMAIN st = {}
    BY DEF BenchInit
  <2> QED BY <2>1, Zenon DEF round_trips
<1> QED BY <1>2, <1>3 DEF BenchInit, BenchInv, RunTypeOK, Counted, Sound, Drifts, Settled,
                          RunSurvives, Running, Unrefused, Returned

\* The main pool is built: no panic.
LEMMA MainBuilds ==
    ASSUME BenchInv, main_builds
    PROVE  BenchInv'
<1> USE DEF BenchInv
<1>1. src'.slots \in Nat \ {0} /\ src' = build(M1_MEAN_PKT, cfg)
  BY BuildSlots DEF main_builds, Build, BenchTypeOK, M1_MEAN_PKT
<1>2. pc' = "self_test" /\ dst' = [i \in 0..(src'.slots - 1) |-> zero]
  BY <1>1 DEF main_builds, Build
<1>3. Pooled'
  BY <1>1, <1>2, WordType DEF Pooled
<1>4. pc = "start" /\ UNCHANGED <<cfg, st, stage, res, refusals, spoiled>>
  BY DEF main_builds
<1>5. stage = 0
  BY <1>4 DEF Counted
<1>6. BenchTypeOK'
  BY <1>2, <1>3, <1>4 DEF BenchTypeOK, Running
<1>7. Sound'
  BY <1>2, <1>4, GatesKept DEF Sound, Unrefused, Running
<1>8. (RunTypeOK /\ Counted /\ Drifts /\ Settled /\ RunSurvives)'
  BY <1>2, <1>4, <1>5, SMTT(30)
  DEF RunTypeOK, Counted, Drifts, Settled, RunSurvives, Running, Unrefused, Returned
<1> QED BY <1>6, <1>7, <1>8

\* The round trips through each provider.
LEMMA SelfTest ==
    ASSUME BenchInv, self_test
    PROVE  BenchInv'
<1> USE DEF BenchInv
<1> DEFINE providers == {"rc", "ring", "cc", "session"}
<1>1. PICK refused : /\ st' = [provider \in providers |-> provider \notin refused]
                     /\ refusals' = IF refused = {} THEN refusals ELSE refusals + 1
  BY Zenon DEF self_test
<1>2. /\ pc = "self_test" /\ pc' = "warm_up"
      /\ UNCHANGED <<cfg, src, dst, stage, res, spoiled>>
  BY DEF self_test
<1>3. refusals \in Nat /\ refusals' \in Nat /\ (refusals' = 0 => refused = {})
  BY <1>1 DEF BenchTypeOK
<1>4. refusals' = 0 => round_trips'
  BY <1>1, <1>3, Zenon DEF round_trips
<1>5. BenchTypeOK'
  BY <1>2, <1>3 DEF BenchTypeOK, Running, Pooled
<1>6. stage = 0
  BY <1>2 DEF Counted
<1> QED BY <1>2, <1>4, <1>5, <1>6 DEF RunTypeOK, Counted, Sound, Drifts, Settled, RunSurvives,
                                     Running, Unrefused, Returned

Fresh(r) == r.total_ops = 0 /\ r.expected_ops = 0 /\ r.acc = <<>> /\ r.acc_stable

\* A list of 19 jobs is not empty.
LEMMA NonEmpty ==
    ASSUME NEW s, Len(s) = 19
    PROVE  s # <<>>
<1>1. Len(<<>>) = 0 /\ 0 # 19
  OBVIOUS
<1> QED BY <1>1, Zenon

\* run_all starts afresh, with no result and the jobs in their order.
LEMMA RunAllStarts ==
    ASSUME NEW wanted, run_all(wanted), jobs_of(wanted) \in Seq(Job), jobs_of(wanted) # <<>>
    PROVE  /\ jobs' = jobs_of(wanted)
           /\ results' \in [DOMAIN jobs' -> Result]
           /\ \A j \in DOMAIN jobs' : Fresh(results'[j])
           /\ order' \in Seq(DOMAIN jobs') /\ Len(order') = Len(jobs')
           /\ \A q \in DOMAIN jobs' : order'[q] = q
           /\ DOMAIN order' = DOMAIN jobs' /\ round' = 0 /\ pos' = 1 /\ pos' \in DOMAIN jobs'
<1> DEFINE n == Len(jobs')
           fresh == [total_ops |-> 0, expected_ops |-> 0, acc |-> <<>>, acc_stable |-> TRUE]
<1>1. /\ jobs' = jobs_of(wanted) /\ jobs' \in Seq(Job) /\ jobs' # <<>>
      /\ results' = [j \in DOMAIN jobs' |-> fresh]
      /\ order' = [j \in DOMAIN jobs' |-> j] /\ round' = 0 /\ pos' = 1
  BY DEF run_all
<1>2. n \in Nat /\ n > 0 /\ DOMAIN jobs' = 1..n
  BY <1>1
<1>3. fresh \in Result
  <2>1. <<>> \in Seq(Word)
    BY Concat
  <2> QED BY <2>1 DEF Result
<1>4. results' \in [DOMAIN jobs' -> Result]
  BY <1>1, <1>3
<1>5. ASSUME NEW j \in DOMAIN jobs' PROVE Fresh(results'[j])
  <2>1. results'[j] = fresh
    BY <1>1, Zenon
  <2> QED BY <2>1 DEF Fresh
<1>6. order' \in Seq(1..n) /\ Len(order') = n /\ DOMAIN order' = 1..n /\ 1 \in 1..n
  <2> HIDE DEF n
  <2>1. order' = [j \in 1..n |-> j]
    BY <1>1, <1>2
  <2> QED BY <1>2, <2>1
<1>7. \A q \in DOMAIN jobs' : order'[q] = q
  BY <1>1
<1> QED BY <1>1, <1>2, <1>4, <1>5, <1>6, <1>7, Zenon

\* The warm-up before the main run, and the start of run_all.
LEMMA WarmUp ==
    ASSUME BenchInv, warm_up
    PROVE  BenchInv'
<1> USE DEF BenchInv
<1> DEFINE job == [name |-> "rc_aesgcm256_dec", hot |-> FALSE]
<1>1. PICK refused \in Refused(job) : Passes(take_sample(job, refused), refused)
  BY Zenon DEF warm_up
<1>2. /\ pc = "warm_up" /\ pc' = "calibrate" /\ run_all(all_arms)
      /\ UNCHANGED <<cfg, src, st, stage, res, spoiled>>
  BY DEF warm_up
<1>3. Runnable(job)
  BY DEF Runnable, ArmNames
<1>4. Pooled /\ refusals \in Nat /\ stage = 0 /\ ~spoiled
  BY <1>2 DEF BenchTypeOK, Counted
<1> HIDE DEF job
<1>5. Pooled' /\ refusals' \in Nat /\ (refusals' = 0 => refusals = 0)
  BY <1>1, <1>2, <1>3, <1>4, PassStep
<1>6. BenchTypeOK'
  BY <1>2, <1>5 DEF BenchTypeOK, Running
<1>7. jobs_of(all_arms) = main_jobs /\ main_jobs \in Seq(Job) /\ Len(main_jobs) = 19
  BY MainJobs DEF main_jobs
<1>8. jobs_of(all_arms) # <<>>
  BY <1>7, NonEmpty, Zenon
<1>9. /\ jobs' = main_jobs
      /\ results' \in [DOMAIN jobs' -> Result]
      /\ \A j \in DOMAIN jobs' : Fresh(results'[j])
      /\ order' \in Seq(DOMAIN jobs') /\ Len(order') = Len(jobs')
      /\ \A q \in DOMAIN jobs' : order'[q] = q
      /\ DOMAIN order' = DOMAIN jobs' /\ round' = 0 /\ pos' = 1 /\ pos' \in DOMAIN jobs'
  BY <1>2, <1>7, <1>8, RunAllStarts, Zenon
<1>10. DOMAIN jobs' = 1..19
  BY <1>7, <1>9
<1>11. RunTypeOK'
  <2>1. \A j \in DOMAIN jobs' : \E q \in DOMAIN order' : order'[q] = j
    BY <1>9, Zenon
  <2>2. 0 \in Nat
    OBVIOUS
  <2> QED BY <1>2, <1>7, <1>8, <1>9, <2>1, <2>2, Zenon DEF RunTypeOK, RunShape, Running
<1>12. Counted'
  <2>1. \A j \in DOMAIN jobs' : results'[j].total_ops = 0 /\ results'[j].expected_ops = 0
    BY <1>9, Zenon DEF Fresh
  <2>2. ASSUME NEW j \in DOMAIN jobs' PROVE results'[j].total_ops <= results'[j].expected_ops
    BY <2>1
  <2> QED BY <1>2, <1>4, <2>2, Zenon DEF Counted
<1>13. Sound'
  <2>1. refusals' = 0 => round_trips'
    BY <1>2, <1>5, GatesKept DEF Sound
  <2>2. ~(0 > 0)
    OBVIOUS
  <2>3. \A j \in DOMAIN jobs' : Fresh(results'[j])
    BY <1>9, Zenon
  <2>4. round' = 0 /\ pc' = "calibrate"
    BY <1>2, <1>9, Zenon
  <2> QED BY <2>1, <2>2, <2>3, <2>4 DEF Sound, Fresh
<1>14. Drifts'
  <2>1. ~(results'[2].total_ops > 0)
    <3>1. results'[2].total_ops = 0
      <4>1. 2 \in DOMAIN jobs'
        BY <1>10
      <4> QED BY <1>9, <4>1, Zenon DEF Fresh
    <3> QED BY <3>1
  <2>2. Identity' /\ round' = 0
    BY <1>9, Zenon DEF Identity
  <2> QED BY <1>2, <2>1, <2>2 DEF Drifts
<1>15. Settled' /\ RunSurvives'
  BY <1>2, <1>4 DEF Settled, RunSurvives, Returned
<1> QED BY <1>6, <1>11, <1>12, <1>13, <1>14, <1>15

\* The job that runs next in the calibration, and the one in a round.
LEMMA NextJob ==
    ASSUME BenchInv, Running
    PROVE  /\ pc # "round" => pos \in DOMAIN jobs /\ jobs[pos] \in Job
           /\ pc # "round" => pos \in DOMAIN order /\ order[pos] \in DOMAIN jobs
                              /\ jobs[order[pos]] \in Job
           /\ Pooled /\ refusals \in Nat
<1>1. /\ jobs \in Seq(Job) /\ order \in Seq(DOMAIN jobs) /\ Len(order) = Len(jobs)
      /\ pc # "round" => pos \in DOMAIN jobs
  BY DEF BenchInv, RunTypeOK, RunShape
<1>2. DOMAIN order = DOMAIN jobs
  BY <1>1
<1>3. \A j \in DOMAIN jobs : jobs[j] \in Job
  BY <1>1
<1>4. \A q \in DOMAIN order : order[q] \in DOMAIN jobs
  BY <1>1
<1>5. Pooled /\ refusals \in Nat
  BY DEF BenchInv, BenchTypeOK
<1> QED BY <1>1, <1>2, <1>3, <1>4, <1>5, Zenon

\* The main run has its nineteen jobs.
LEMMA MainRun ==
    ASSUME BenchInv, Running, stage = 0
    PROVE  /\ jobs = main_jobs /\ Len(jobs) = 19 /\ DOMAIN jobs = 1..19
           /\ jobs[1].name = "null" /\ jobs[2].name = "null" /\ ~jobs[2].hot
           /\ jobs[3].name = "copy_payload"
           /\ jobs[4].name = "copy_payload" /\ ~jobs[4].hot
           /\ jobs[19].name = "session_encrypt" /\ ~jobs[19].hot
<1>1. jobs = main_jobs
  BY DEF BenchInv, RunTypeOK, RunShape
<1>2. jobs \in Seq(Job) /\ Len(jobs) = 19
  BY <1>1, MainJobs, Zenon
<1>3. DOMAIN jobs = 1..19
  BY <1>2
<1>4. /\ jobs[1] = Pair("null")[1] /\ jobs[2] = Pair("null")[2]
      /\ jobs[3] = Pair("copy_payload")[1] /\ jobs[4] = Pair("copy_payload")[2]
      /\ jobs[19] = Pair("session_encrypt")[2]
  BY <1>1, MainJobs, Zenon
<1>5. ASSUME NEW name
      PROVE  /\ Pair(name)[1].name = name /\ Pair(name)[2].name = name /\ Pair(name)[2].hot = FALSE
  BY DEF Pair
<1>6. /\ jobs[1].name = "null" /\ jobs[2].name = "null" /\ jobs[2].hot = FALSE
      /\ jobs[3].name = "copy_payload"
      /\ jobs[4].name = "copy_payload" /\ jobs[4].hot = FALSE
      /\ jobs[19].name = "session_encrypt" /\ jobs[19].hot = FALSE
  <2>1. Pair("null")[1].name = "null" /\ Pair("null")[2].name = "null" /\ Pair("null")[2].hot = FALSE
    BY <1>5, Zenon
  <2>2. /\ Pair("copy_payload")[1].name = "copy_payload"
        /\ Pair("copy_payload")[2].name = "copy_payload" /\ Pair("copy_payload")[2].hot = FALSE
    BY <1>5, Zenon
  <2>3. Pair("session_encrypt")[2].name = "session_encrypt" /\ Pair("session_encrypt")[2].hot = FALSE
    BY <1>5, Zenon
  <2> QED BY <1>4, <2>1, <2>2, <2>3, Zenon
<1> QED BY <1>1, <1>2, <1>3, <1>6

\* One job of the calibration: a discarded sample.
LEMMA Calibrate ==
    ASSUME BenchInv, calibrate
    PROVE  BenchInv'
<1> USE DEF BenchInv
<1> DEFINE job == jobs[pos]
<1>1. PICK refused \in Refused(job) : Passes(take_sample(job, refused), refused)
  BY Zenon DEF calibrate
<1>2. /\ pc = "calibrate" /\ pos' = pos + 1
      /\ pc' = IF pos = Len(jobs) THEN "round" ELSE "calibrate"
      /\ UNCHANGED <<cfg, src, st, stage, jobs, results, order, round, sample, res, spoiled>>
  BY DEF calibrate
<1>3. Running /\ Running' /\ pc' \in {"round", "calibrate"}
  BY <1>2 DEF Running
<1>4. pos \in DOMAIN jobs /\ job \in Job /\ Pooled /\ refusals \in Nat
  BY <1>2, <1>3, NextJob
<1>5. Runnable(job)
  BY <1>4, JobRunnable, Zenon
<1> HIDE DEF job
<1>6. Pooled' /\ refusals' \in Nat /\ (refusals' = 0 => refusals = 0 /\ refused = {})
  BY <1>1, <1>2, <1>4, <1>5, PassStep
<1>7. BenchTypeOK'
  BY <1>2, <1>3, <1>6 DEF BenchTypeOK
<1>8. jobs \in Seq(Job) /\ round = 0
  BY <1>2, <1>3 DEF RunTypeOK, RunShape
<1>9. pc' # "round" => pos' \in DOMAIN jobs
  <2>1. Len(jobs) \in Nat /\ DOMAIN jobs = 1..Len(jobs)
    BY <1>8
  <2> QED BY <1>2, <1>4, <2>1
<1>10. RunTypeOK'
  <2>1. RunShape'
    BY <1>2, <1>3 DEF RunShape, RunTypeOK
  <2> QED BY <1>2, <1>3, <1>8, <1>9, <2>1, Zenon DEF RunTypeOK
<1>11. Counted'
  BY <1>2, <1>3, Zenon DEF Counted
<1>12. Unrefused' => Unrefused
  BY <1>2, <1>3, <1>6 DEF Unrefused
<1>13. Sound'
  <2>1. refusals' = 0 => round_trips'
    BY <1>2, <1>6, GatesKept DEF Sound
  <2>2. pc' \notin {"warm", "sample"}
    BY <1>3
  <2>3. pc \in {"calibrate", "round"}
    BY <1>2
  <2> QED BY <1>2, <1>12, <2>1, <2>2, <2>3, Zenon DEF Sound
<1>14. Drifts'
  <2> SUFFICES ASSUME Unrefused' PROVE Drifts'
    BY DEF Drifts
  <2>1. Unrefused /\ stage = 0 /\ refused = {}
    BY <1>6, <1>12 DEF Unrefused
  <2>2. ASSUME pc' = "round" PROVE Fills("session_encrypt", dst)'
    <3>1. pos = 19
      BY <1>2, <1>3, <2>1, <2>2, MainRun
    <3>2. job.name = "session_encrypt" /\ ~job.hot
      BY <1>3, <2>1, <3>1, MainRun DEF job
    <3>3. Fills("session_encrypt", take_sample(job, {}).dst)
      BY <1>4, <1>5, <3>2, WritingPass DEF Writing
    <3> QED BY <1>1, <1>2, <2>1, <3>3 DEF Passes, Fills
  <2>3. Identity'
    BY <1>2, <2>1 DEF Drifts, Identity
  <2>4. pc' \notin {"warm", "sample"} /\ ~(0 >= 2)
    BY <1>3
  <2>5. results[2].total_ops > 0 => results[2].acc = [k \in 1..src.slots |-> wire_packet(k - 1)]
    BY <2>1, Zenon DEF Drifts
  <2> QED BY <1>2, <1>8, <2>2, <2>3, <2>4, <2>5, Zenon DEF Drifts
<1>15. Settled'
  <2>1. Returned' => Returned
    BY <1>2, <1>3 DEF Returned
  <2> QED BY <1>2, <1>6, <2>1, GatesKept, Zenon DEF Settled
<1>16. RunSurvives'
  BY <1>3 DEF RunSurvives
<1> QED BY <1>7, <1>10, <1>11, <1>13, <1>14, <1>15, <1>16

\* A round starts: round 0 in the order of the jobs, round 1 backwards.
LEMMA BeginRound ==
    ASSUME BenchInv, begin_round
    PROVE  BenchInv'
<1> USE DEF BenchInv
<1> DEFINE n == Len(jobs)
<1>1. /\ pc = "round" /\ pc' = "warm" /\ pos' = 1 /\ order' = permuted(order, round)
      /\ UNCHANGED <<cfg, src, st, dst, stage, jobs, results, round, res, refusals, spoiled>>
  BY DEF begin_round
<1>2. Running /\ Running'
  BY <1>1 DEF Running
<1>3. /\ jobs \in Seq(Job) /\ jobs # <<>> /\ (stage = 0 => jobs = main_jobs)
      /\ results \in [DOMAIN jobs -> Result]
      /\ order \in Seq(DOMAIN jobs) /\ Len(order) = Len(jobs)
      /\ \A j \in DOMAIN jobs : \E q \in DOMAIN order : order[q] = j
      /\ round \in Nat
  BY <1>2 DEF RunTypeOK, RunShape
<1>4. n \in Nat \ {0} /\ DOMAIN jobs = 1..n /\ DOMAIN order = 1..n
  BY <1>3
<1>5. order \in Seq(1..n) /\ Len(order) = n /\ Onto(order, n)
  BY <1>3, <1>4, Zenon DEF Onto
<1>6. order' \in Seq(1..n) /\ Len(order') = n /\ Onto(order', n)
  <2> HIDE DEF n
  <2> QED BY <1>1, <1>3, <1>4, <1>5, Permuted, Zenon
<1>7. DOMAIN order' = 1..n /\ 1 \in 1..n
  BY <1>4, <1>6
<1>8. RunShape'
  <2>1. \A j \in DOMAIN jobs : \E q \in DOMAIN order' : order'[q] = j
    BY <1>4, <1>6, <1>7, Zenon DEF Onto
  <2> QED BY <1>1, <1>3, <1>4, <1>6, <2>1, Zenon DEF RunShape
<1>9. RunTypeOK'
  BY <1>1, <1>4, <1>7, <1>8 DEF RunTypeOK
<1>10. BenchTypeOK'
  BY <1>1, <1>2 DEF BenchTypeOK, Pooled
<1>11. Counted'
  BY <1>1, <1>2, Zenon DEF Counted
<1>12. Unrefused' => Unrefused
  BY <1>1, <1>2 DEF Unrefused
<1>13. Sound'
  <2>1. refusals' = 0 => round_trips'
    BY <1>1, GatesKept DEF Sound
  <2>2. 1..pos' - 1 = {}
    BY <1>1
  <2>3. pc' \notin {"calibrate", "round"}
    BY <1>1
  <2> QED BY <1>1, <1>12, <2>1, <2>2, <2>3, Zenon DEF Sound
<1>14. Drifts'
  <2> SUFFICES ASSUME Unrefused' PROVE Drifts'
    BY DEF Drifts
  <2>1. Unrefused /\ stage = 0
    BY <1>12 DEF Unrefused
  <2>2. n = 19 /\ n \in Nat \ {0, 1}
    <3>1. n = 19
      BY <1>2, <2>1, MainRun, Zenon
    <3> HIDE DEF n
    <3> QED BY <3>1
  <2>3. ASSUME round \in {0, 1}
        PROVE  \A q \in 1..n : order[q] = q
    BY <1>1, <1>4, <2>1, <2>3, Zenon DEF Drifts, Identity
  <2> DEFINE Second(o) == o[1] = 1 /\ \A q \in 2..n : o[q] = n + 2 - q
  <2>4. round = 0 => Identity'
    <3> SUFFICES ASSUME round = 0 PROVE \A q \in 1..n : order'[q] = q
      BY <1>1, <1>4, Zenon DEF Identity
    <3> HIDE DEF n
    <3>1. \A q \in 1..n : order[q] = q
      BY <2>3
    <3>2. \A q \in 1..n : permuted(order, 0)[q] = q
      BY <1>5, <2>2, <3>1, FirstRounds, Zenon
    <3> QED BY <1>1, <3>2, Zenon
  <2>5. round = 1 => Backwards'
    <3> SUFFICES ASSUME round = 1 PROVE Second(order')
      BY <1>1, Zenon DEF Backwards
    <3> HIDE DEF n
    <3>1. \A q \in 1..n : order[q] = q
      BY <2>3
    <3>2. Second(permuted(order, 1))
      BY <1>5, <2>2, <3>1, FirstRounds, Zenon
    <3> QED BY <1>1, <3>2, Zenon
  <2>6. pos' <= 2 /\ ~(pos' >= n - 1)
    BY <1>1, <2>2
  <2>7. round = 0 => Fills("session_encrypt", dst)'
    <3>1. round = 0 => Fills("session_encrypt", dst)
      BY <1>1, <2>1, Zenon DEF Drifts
    <3> QED BY <1>1, <3>1, Zenon DEF Fills
  <2>8. pc' \notin {"calibrate", "round"}
    BY <1>1
  <2>9. /\ results[2].total_ops > 0 => results[2].acc = [k \in 1..src.slots |-> wire_packet(k - 1)]
        /\ round >= 2 => ~results[2].acc_stable
    BY <2>1, Zenon DEF Drifts
  <2> QED BY <1>1, <2>4, <2>5, <2>6, <2>7, <2>8, <2>9, Zenon DEF Drifts
<1>15. Settled'
  <2>1. Returned' => Returned
    BY <1>1 DEF Returned
  <2> QED BY <1>1, <2>1, GatesKept, Zenon DEF Settled
<1>16. RunSurvives'
  BY <1>1 DEF RunSurvives
<1> QED BY <1>9, <1>10, <1>11, <1>13, <1>14, <1>15, <1>16
=============================================================================
