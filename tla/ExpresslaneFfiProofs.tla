------------------------ MODULE ExpresslaneFfiProofs ------------------------
(***************************************************************************)
(* One session behind its C ABI, panics included, for any number of        *)
(* threads, keys and packets.                                              *)
(***************************************************************************)
EXTENDS ExpresslaneFfi, ExpresslaneTxProofs, ExpresslaneRxProofs

Callers == TxThreads \cup RxThreads

OutParams == [out_len : {Prior, 0, 1}, is_encoded : {Prior, 0, 1},
              code : RxCodes \cup {"NULL_POINTER", "PANIC"}]

\* The out-params of a call in progress: defaulted, and no code yet.
Defaulted(f) == f.out_len = 0 /\ f.is_encoded = 0 /\ f.code = "none"

\* What the caller may conclude from its out-params.
LengthHonest(f) ==
    f.code \notin {"none", "NULL_POINTER"} => (f.out_len = 1) = (f.code = "SUCCESS")

PacketHonest(f, call, packets) ==
    call.pc = "idle" =>
        /\ f.out_len = 1 => call.out = "plaintext" /\ call.packet \in packets
        /\ f.out_len = 0 => f.is_encoded = 0
        /\ f.is_encoded = 1 => call.packet.flags % 2 = 1

OutInv ==
    /\ ffi \in [Callers -> OutParams]
    /\ \A t \in TxThreads :
          tx[t].pc \in {"sealing", "counting"} => Defaulted(ffi[t])
    /\ \A t \in RxThreads :
          rx[t].pc # "idle" => Defaulted(ffi[t]) /\ rx[t].code = "none"
    /\ \A t \in Callers : LengthHonest(ffi[t])
    /\ \A t \in RxThreads : PacketHonest(ffi[t], rx[t], delivered)

\* The flags has_valid_keys has read are still set.
HintInv ==
    /\ hint # {} => peer_key_installed
    /\ hinted => peer_key_installed /\ self_key_installed

FfiInv == TxInv /\ FlagInv /\ RxCore /\ HintInv /\ OutInv

LEMMA OutInvHonest == OutInv => CallerReadsOwnPacket
BY DEF OutInv, CallerReadsOwnPacket, LengthHonest, PacketHonest, Callers

LEMMA HintInvSound == FfiInv => HintSound
BY Zenon DEF FfiInv, HintInv, FlagInv, RxCore, RxTypeOK, HintSound

LEMMA FfiInitInv == FfiInit => FfiInv
<1> SUFFICES ASSUME FfiInit PROVE FfiInv
  OBVIOUS
<1>1. TxInv /\ FlagInv
  BY TxInitInv, FlagInit DEF FfiInit, SessionInit, TxInv, Counted
<1>2. RxCore
  BY RxInitInv DEF FfiInit, SessionInit, RxInv
<1>3. HintInv
  BY DEF FfiInit, SessionInit, HintInv
<1>4. OutInv
  <2> DEFINE f == [out_len |-> Prior, is_encoded |-> Prior, code |-> "none"]
  <2>1. /\ f \in OutParams /\ LengthHonest(f)
        /\ \A call : PacketHonest(f, call, delivered)
    BY DEF OutParams, Prior, RxCodes, LengthHonest, PacketHonest
  <2>2. ffi = [t \in Callers |-> f]
    BY DEF FfiInit, Callers
  <2> HIDE DEF f
  <2>3. /\ \A t \in TxThreads : tx[t].pc = "idle"
        /\ \A t \in RxThreads : rx[t].pc = "idle"
    BY DEF FfiInit, SessionInit, TxInit, RxInit, tx_idle
  <2> QED BY <2>1, <2>2, <2>3 DEF OutInv, Callers
<1> QED BY <1>1, <1>2, <1>3, <1>4 DEF FfiInv

-----------------------------------------------------------------------------
LEMMA DefaultedParams ==
    ASSUME NEW f \in OutParams
    PROVE  /\ default_out_params(f) \in OutParams
           /\ default_out_params(f).out_len = 0
           /\ default_out_params(f).is_encoded = 0
BY Zenon DEF default_out_params, OutParams

\* A success tells the length and the flag, an error leaves the defaults.
LEMMA ReturnedParams ==
    ASSUME NEW f \in OutParams, f.out_len = 0, f.is_encoded = 0,
           NEW code \in RxCodes, NEW encoded \in {0, 1}
    PROVE  /\ returned(f, code, encoded) \in OutParams
           /\ LengthHonest(returned(f, code, encoded))
           /\ code = "none" => Defaulted(returned(f, code, encoded))
           /\ IF code = "SUCCESS"
              THEN /\ returned(f, code, encoded).out_len = 1
                   /\ returned(f, code, encoded).is_encoded = encoded
              ELSE /\ returned(f, code, encoded).out_len = 0
                   /\ returned(f, code, encoded).is_encoded = 0
<1>1. CASE code = "SUCCESS"
  BY <1>1 DEF returned, OutParams, LengthHonest
<1>2. CASE code # "SUCCESS"
  <2>1. returned(f, code, encoded) = [f EXCEPT !.code = code]
    BY <1>2 DEF returned
  <2>2. /\ returned(f, code, encoded) \in OutParams
        /\ returned(f, code, encoded).out_len = 0
        /\ returned(f, code, encoded).is_encoded = 0
        /\ returned(f, code, encoded).code = code
    BY <2>1 DEF OutParams
  <2> QED BY <1>2, <2>2 DEF LengthHonest, Defaulted
<1> QED BY <1>1, <1>2

LEMMA CodedParams ==
    ASSUME NEW f \in OutParams, NEW code \in {"NULL_POINTER", "PANIC"}
    PROVE  /\ [f EXCEPT !.code = code] \in OutParams
           /\ [f EXCEPT !.code = code].out_len = f.out_len
           /\ [f EXCEPT !.code = code].is_encoded = f.is_encoded
           /\ [f EXCEPT !.code = code].code = code
BY DEF OutParams

\* The out-params of a sender change with its own call only.
LEMMA SenderTold ==
    ASSUME OutInv, NEW t \in TxThreads, NEW f \in OutParams,
           ffi' = [ffi EXCEPT ![t] = f],
           UNCHANGED <<rx, delivered>>,
           \A u \in TxThreads \ {t} : tx'[u] = tx[u],
           tx'[t].pc \in {"sealing", "counting"} => Defaulted(f),
           LengthHonest(f)
    PROVE  OutInv'
<1>1. /\ ffi' \in [Callers -> OutParams] /\ ffi'[t] = f
      /\ \A u \in Callers \ {t} : ffi'[u] = ffi[u]
      /\ t \notin RxThreads
  BY FfiAssumption DEF OutInv, Callers
<1> QED BY <1>1 DEF OutInv, Callers

LEMMA ReceiverTold ==
    ASSUME OutInv, NEW t \in RxThreads, NEW f \in OutParams,
           ffi' = [ffi EXCEPT ![t] = f],
           UNCHANGED tx, delivered \subseteq delivered',
           \A u \in RxThreads \ {t} : rx'[u] = rx[u],
           rx'[t].pc # "idle" => Defaulted(f) /\ rx'[t].code = "none",
           LengthHonest(f), PacketHonest(f, rx'[t], delivered')
    PROVE  OutInv'
<1>1. /\ ffi' \in [Callers -> OutParams] /\ ffi'[t] = f
      /\ \A u \in Callers \ {t} : ffi'[u] = ffi[u]
      /\ t \notin TxThreads
  BY FfiAssumption DEF OutInv, Callers
<1>2. \A u \in RxThreads : PacketHonest(ffi'[u], rx'[u], delivered')
  BY <1>1 DEF OutInv, Callers, PacketHonest
<1> QED BY <1>1, <1>2 DEF OutInv, Callers

\* A step that touches no out-param and no call of those that have them.
LEMMA NobodyTold ==
    ASSUME OutInv, UNCHANGED <<ffi, rx, delivered>>,
           \A u \in TxThreads :
               tx'[u].pc \in {"sealing", "counting"} =>
                   tx[u].pc \in {"sealing", "counting"}
    PROVE  OutInv'
BY DEF OutInv

-----------------------------------------------------------------------------
(* The sending calls.                                                      *)

\* A sending step is of one thread, and never clears the flag.
LEMMA SendingAlone ==
    ASSUME TxInv, NEW t \in TxThreads, Sending(t)
    PROVE  /\ \A u \in TxThreads \ {t} : tx'[u] = tx[u]
           /\ self_key_installed => self_key_installed'
<1>1. tx \in [TxThreads -> Call]
  BY SMTT(30) DEF TxInv, TxTypeOK
<1>2. \A u \in TxThreads \ {t} : tx'[u] = tx[u]
  BY <1>1 DEF Sending, TxCalls, TxContinue, Encrypt, reserve_counter, encrypt_refused,
     encrypt_begin, Stage, update_next_self_key, update_next_self_key_invalid,
     promote_self_key, encrypt_seal, encrypt_return, promote_lock,
     promote_flag_seen_early, promote_write, promote_return, TxReturn, tx_vars
<1>3. self_key_installed => self_key_installed'
  BY Zenon DEF Sending, TxCalls, TxContinue, Encrypt, reserve_counter, encrypt_refused,
     encrypt_begin, Stage, update_next_self_key, update_next_self_key_invalid,
     promote_self_key, encrypt_seal, encrypt_return, promote_lock,
     promote_flag_seen_early, promote_write, promote_return, tx_vars
<1> QED BY <1>2, <1>3

\* What a sending step leaves alone of the session.
LEMMA SendingKeeps ==
    ASSUME FfiInv, NEW t \in TxThreads, Sending(t), UNCHANGED <<rx_vars, hint_vars>>
    PROVE  TxInv' /\ FlagInv' /\ RxCore' /\ HintInv'
<1>1. TxInv'
  BY CallsTx, ContinueTx DEF FfiInv, Sending
<1>2. FlagInv'
  BY FlagStep DEF FfiInv, Sending
<1>3. RxCore'
  BY RxStill DEF FfiInv
<1>4. HintInv'
  BY SendingAlone DEF FfiInv, HintInv, hint_vars, rx_vars
<1> QED BY <1>1, <1>2, <1>3, <1>4

LEMMA EncryptFfi ==
    ASSUME FfiInv, NEW t \in TxThreads, he_expresslane_encrypt(t)
    PROVE  FfiInv'
<1> DEFINE f == default_out_params(ffi[t])
<1>1. Sending(t) /\ UNCHANGED <<rx_vars, hint_vars>>
  BY DEF he_expresslane_encrypt, Sending, TxCalls, Encrypt
<1>2. f \in OutParams /\ f.out_len = 0 /\ f.is_encoded = 0
  BY DefaultedParams DEF FfiInv, OutInv, Callers
<1> DEFINE Told(code) ==
        /\ ffi' = [ffi EXCEPT ![t] = returned(f, code, 0)]
        /\ tx'[t].pc \in {"sealing", "counting"} => code = "none"
<1>3. \E code \in RxCodes : Told(code)
  <2>1. ASSUME encrypt_refused(t), NEW code \in {"BUFFER_TOO_SMALL", "INVALID_DATA"},
               ffi' = [ffi EXCEPT ![t] = returned(f, code, 0)]
        PROVE  Told(code) /\ code \in RxCodes
    <3>1. tx'[t].pc = "idle"
      BY <2>1, ReturnMoves DEF encrypt_refused, Moves, FfiInv, TxInv
    <3> QED BY <2>1, <3>1 DEF RxCodes
  <2>2. ASSUME NEW is_encoded \in BOOLEAN, encrypt_begin(t, is_encoded),
               ffi' = [ffi EXCEPT ![t] = returned(f,
                          IF current_self = NoKey THEN "KEY_NOT_SET" ELSE "none", 0)]
        PROVE  \E code \in RxCodes : Told(code)
    <3>1. CASE current_self = NoKey
      <4>1. tx'[t].pc = "idle"
        BY <2>2, <3>1, ReturnMoves DEF encrypt_begin, Moves, FfiInv, TxInv
      <4> QED BY <2>2, <3>1, <4>1 DEF RxCodes
    <3>2. CASE current_self # NoKey
      BY <2>2, <3>2 DEF RxCodes
    <3> QED BY <3>1, <3>2
  <2> QED BY <2>1, <2>2 DEF he_expresslane_encrypt
<1>4. PICK code \in RxCodes : Told(code)
  BY <1>3, Zenon
<1> HIDE DEF f
<1>5. /\ returned(f, code, 0) \in OutParams /\ LengthHonest(returned(f, code, 0))
      /\ code = "none" => Defaulted(returned(f, code, 0))
  BY <1>2, ReturnedParams
<1>6. OutInv'
  BY <1>1, <1>4, <1>5, SendingAlone, SenderTold, Zenon DEF FfiInv, rx_vars
<1> QED BY <1>1, <1>6, SendingKeeps, SMTT(30) DEF FfiInv

LEMMA TxContinuesFfi ==
    ASSUME FfiInv, NEW t \in TxThreads, tx_continues(t)
    PROVE  FfiInv'
<1>1. Sending(t) /\ UNCHANGED <<rx_vars, hint_vars>>
  BY DEF tx_continues, Sending
<1>2. CASE tx[t].pc = "counting"
  <2> DEFINE f == returned(ffi[t], "SUCCESS", 0)
  <2>1. ffi' = [ffi EXCEPT ![t] = f]
    BY <1>2, SMTT(30) DEF tx_continues
  <2>2. f \in OutParams /\ LengthHonest(f)
    BY <1>2, ReturnedParams DEF FfiInv, OutInv, Callers, Defaulted, RxCodes
  <2>3. encrypt_return(t)
    BY <1>2 DEF tx_continues, TxContinue, encrypt_seal, promote_lock,
                promote_flag_seen_early, promote_write, promote_return
  <2>4. tx'[t].pc = "idle"
    BY <2>3, ReturnMoves DEF encrypt_return, Moves, FfiInv, TxInv
  <2> HIDE DEF f
  <2>5. OutInv'
    BY <1>1, <2>1, <2>2, <2>4, SendingAlone, SenderTold, Zenon DEF FfiInv, rx_vars
  <2> QED BY <1>1, <2>5, SendingKeeps DEF FfiInv
<1>3. CASE tx[t].pc # "counting"
  <2>1. ffi' = ffi
    BY <1>3, SMTT(30) DEF tx_continues
  <2>2. tx'[t].pc \in {"sealing", "counting"} => tx[t].pc = "sealing"
    <3> USE DEF FfiInv, TxInv, Moves
    <3>1. CASE encrypt_seal(t)
      BY <3>1 DEF encrypt_seal
    <3>2. CASE promote_lock(t)
      BY <3>2, PcMoves, SMTT(30) DEF promote_lock
    <3>3. CASE promote_flag_seen_early(t)
      BY <3>3 DEF promote_flag_seen_early
    <3>4. CASE promote_write(t)
      BY <3>4, PcMoves DEF promote_write
    <3>5. CASE promote_return(t)
      BY <3>5, ReturnMoves DEF promote_return
    <3> QED BY <1>3, <3>1, <3>2, <3>3, <3>4, <3>5, SMTT(30)
            DEF tx_continues, TxContinue, encrypt_return
  <2>3. OutInv'
    BY <1>1, <2>1, <2>2, SendingAlone, NobodyTold, SMTT(30) DEF FfiInv, rx_vars
  <2> QED BY <1>1, <2>3, SendingKeeps DEF FfiInv
<1> QED BY <1>2, <1>3

LEMMA TxCallsFfi ==
    ASSUME FfiInv, NEW t \in TxThreads, tx_calls(t)
    PROVE  FfiInv'
<1>1. Sending(t) /\ UNCHANGED <<rx_vars, hint_vars, ffi>>
  BY DEF tx_calls, Sending, TxCalls
<1>2. tx'[t].pc \in {"sealing", "counting"} => tx[t].pc \in {"sealing", "counting"}
  <2> USE DEF FfiInv, TxInv, Moves
  <2>1. CASE reserve_counter(t)
    BY <2>1, ReserveMoves
  <2>2. CASE Stage(t)
    BY <2>2 DEF Stage, update_next_self_key
  <2>3. CASE promote_self_key(t)
    <3>1. CASE next_self = NoKey
      BY <2>3, <3>1, ReturnMoves DEF promote_self_key
    <3>2. CASE next_self # NoKey
      BY <2>3, <3>2, PromoteMoves
    <3> QED BY <3>1, <3>2
  <2> QED BY <2>1, <2>2, <2>3 DEF tx_calls
<1>3. OutInv'
  BY <1>1, <1>2, SendingAlone, NobodyTold DEF FfiInv, rx_vars
<1> QED BY <1>1, <1>3, SendingKeeps DEF FfiInv

\* A panic in the AEAD of encrypt: the counter is lost, nothing was sent.
LEMMA EncryptPanicsTx ==
    ASSUME TxInv, NEW t \in TxThreads, encrypt_panics(t)
    PROVE  TxInv' /\ Moves(t, "idle", NoKey, 0)
<1>1. Moves(t, "idle", NoKey, 0)
  BY ReturnMoves DEF encrypt_panics, TxInv
<1>2. SameKeys /\ SameCounters
  BY DEF encrypt_panics, SameKeys, SameCounters, bounds
<1> QED BY <1>1, <1>2, QuietTx

LEMMA EncryptPanicsFfi ==
    ASSUME FfiInv, NEW t \in TxThreads, encrypt_panics(t)
    PROVE  FfiInv'
<1> DEFINE f == [ffi[t] EXCEPT !.code = "PANIC"]
<1>1. TxInv' /\ Moves(t, "idle", NoKey, 0)
  BY EncryptPanicsTx DEF FfiInv
<1>2. FlagInv'
  BY <1>1, QuietFlag DEF encrypt_panics, FfiInv
<1>3. RxCore' /\ HintInv'
  BY RxStill DEF encrypt_panics, FfiInv, HintInv, hint_vars, rx_vars
<1>4. f \in OutParams /\ f.out_len = 0 /\ f.code = "PANIC"
  <2>1. ffi[t] \in OutParams
    BY DEF FfiInv, OutInv, Callers
  <2>2. Defaulted(ffi[t])
    BY DEF FfiInv, OutInv, encrypt_panics
  <2> QED BY <2>1, <2>2, CodedParams, Zenon DEF Defaulted
<1>5. ffi' = [ffi EXCEPT ![t] = f]
  BY DEF encrypt_panics, FfiInv, OutInv
<1> HIDE DEF f
<1>6. OutInv'
  <2>1. LengthHonest(f)
    BY <1>4 DEF LengthHonest
  <2>2. /\ tx'[t].pc = "idle" /\ \A u \in TxThreads \ {t} : tx'[u] = tx[u]
        /\ UNCHANGED <<rx, delivered>>
    BY <1>1 DEF Moves, encrypt_panics, rx_vars
  <2> QED BY <1>4, <1>5, <2>1, <2>2, SenderTold, Zenon DEF FfiInv
<1> QED BY <1>1, <1>2, <1>3, <1>6, SMTT(30) DEF FfiInv

-----------------------------------------------------------------------------
(* The receiving calls.                                                    *)

LEMMA ReceivingKeeps ==
    ASSUME FfiInv, UNCHANGED <<tx_vars, hint_vars, peer_key_installed>>
    PROVE  TxInv' /\ FlagInv' /\ HintInv'
<1>1. TxInv'
  BY StillTx DEF FfiInv, tx_vars, SameKeys, SameCounters
<1>2. FlagInv'
  BY DEF FfiInv, FlagInv, tx_vars
<1>3. HintInv'
  BY DEF FfiInv, HintInv, hint_vars, tx_vars
<1> QED BY <1>1, <1>2, <1>3

LEMMA DecryptFfi ==
    ASSUME FfiInv, NEW t \in RxThreads, NEW packet \in Packets,
           he_expresslane_decrypt(t, packet)
    PROVE  FfiInv'
<1> DEFINE f == default_out_params(ffi[t])
           code == rx'[t].code
<1>1. /\ code \in RxCodes /\ code # "SUCCESS"
      /\ rx'[t].pc # "idle" => code = "none"
      /\ \A u \in RxThreads \ {t} : rx'[u] = rx[u]
      /\ UNCHANGED <<delivered, peer_key_installed>>
  BY DecryptTells, SMTT(30) DEF he_expresslane_decrypt, FfiInv
<1>2. f \in OutParams /\ f.out_len = 0 /\ f.is_encoded = 0
  BY DefaultedParams, SMTT(30) DEF FfiInv, OutInv, Callers
<1>3. ffi' = [ffi EXCEPT ![t] = returned(f, code, 0)]
  BY DEF he_expresslane_decrypt, FfiInv, OutInv
<1> HIDE DEF f
<1>4. /\ returned(f, code, 0) \in OutParams /\ LengthHonest(returned(f, code, 0))
      /\ code = "none" => Defaulted(returned(f, code, 0))
      /\ returned(f, code, 0).out_len = 0 /\ returned(f, code, 0).is_encoded = 0
  BY <1>1, <1>2, ReturnedParams
<1>5. OutInv'
  <2>1. PacketHonest(returned(f, code, 0), rx'[t], delivered')
    BY <1>4 DEF PacketHonest
  <2>2. UNCHANGED tx
    BY DEF he_expresslane_decrypt, tx_vars
  <2> QED BY <1>1, <1>3, <1>4, <2>1, <2>2, ReceiverTold, Zenon DEF FfiInv
<1>6. RxCore'
  BY DecryptInv, RxAssumption DEF he_expresslane_decrypt, FfiInv
<1> QED BY <1>1, <1>5, <1>6, ReceivingKeeps, SMTT(30) DEF he_expresslane_decrypt, FfiInv

LEMMA DecryptContinuesFfi ==
    ASSUME FfiInv, NEW t \in RxThreads, decrypt_continues(t)
    PROVE  FfiInv'
<1> DEFINE code == rx'[t].code
           encoded == rx[t].packet.flags % 2
           f == returned(ffi[t], code, encoded)
<1>1. rx[t].pc # "idle"
  BY DEF decrypt_continues, RxContinue, decrypt_open, decrypt_commit
<1>2. /\ ffi[t] \in OutParams /\ ffi[t].out_len = 0 /\ ffi[t].is_encoded = 0
      /\ rx[t].code = "none"
  BY <1>1 DEF FfiInv, OutInv, Callers, Defaulted
<1>3. rx[t].packet \in Packet /\ encoded \in {0, 1}
  BY <1>1, SMTT(30) DEF FfiInv, RxCore, RxTypeOK, Packet, Flags
<1>4. /\ rx'[t].packet = rx[t].packet /\ code \in RxCodes
      /\ rx'[t].pc # "idle" => code = "none"
      /\ code = "SUCCESS" => rx'[t].out = "plaintext" /\ rx[t].packet \in delivered'
      /\ \A u \in RxThreads \ {t} : rx'[u] = rx[u]
      /\ delivered \subseteq delivered' /\ UNCHANGED peer_key_installed
  BY <1>2, ContinueTells, SMTT(30) DEF FfiInv, decrypt_continues
<1>5. ffi' = [ffi EXCEPT ![t] = f]
  BY SMTT(30) DEF decrypt_continues, FfiInv, OutInv
<1>6. /\ f \in OutParams /\ LengthHonest(f) /\ (code = "none" => Defaulted(f))
      /\ IF code = "SUCCESS" THEN f.out_len = 1 /\ f.is_encoded = encoded
         ELSE f.out_len = 0 /\ f.is_encoded = 0
  BY <1>2, <1>3, <1>4, ReturnedParams, Zenon
<1>7. PacketHonest(f, rx'[t], delivered')
  <2> HIDE DEF f
  <2>1. CASE code = "SUCCESS"
    BY <1>4, <1>6, <2>1, SMTT(30) DEF PacketHonest
  <2>2. CASE code # "SUCCESS"
    BY <1>6, <2>2, SMTT(30) DEF PacketHonest
  <2> QED BY <2>1, <2>2
<1> HIDE DEF f
<1>8. OutInv'
  <2>1. UNCHANGED tx
    BY DEF decrypt_continues, tx_vars
  <2> QED BY <1>4, <1>5, <1>6, <1>7, <2>1, ReceiverTold, Zenon DEF FfiInv
<1>9. RxCore'
  BY OpenInv, CommitInv, SMTT(30) DEF FfiInv, decrypt_continues, RxContinue
<1> QED BY <1>4, <1>8, <1>9, ReceivingKeeps, SMTT(30) DEF decrypt_continues, FfiInv

\* A panic in the AEAD of decrypt: the buffer is spoilt, the window and the
\* delivered packets are not, and the mutex is free again.
LEMMA DecryptPanicsRx ==
    ASSUME RxCore, NEW t \in RxThreads, decrypt_panics(t)
    PROVE  RxCore' /\ \A u \in RxThreads \ {t} : rx'[u] = rx[u]
<1>1. PICK left \in {"untouched", "ciphertext", "zero", "scrambled"} :
          RxReturn(t, rx[t].packet, left, "none")
  BY DEF decrypt_panics
<1> QED
  BY <1>1, RxAssumption
  DEF decrypt_panics, RxReturn, RxCore, RxTypeOK, Buffers, RxCodes, WindowExact,
      delivered_counters, DeliveredOnce, OnlyAuthentic

LEMMA DecryptPanicsFfi ==
    ASSUME FfiInv, NEW t \in RxThreads, decrypt_panics(t)
    PROVE  FfiInv'
<1> DEFINE f == [ffi[t] EXCEPT !.code = "PANIC"]
<1>1. RxCore' /\ \A u \in RxThreads \ {t} : rx'[u] = rx[u]
  BY DecryptPanicsRx DEF FfiInv
<1>2. f \in OutParams /\ f.out_len = 0 /\ f.is_encoded = 0 /\ f.code = "PANIC"
  <2>1. ffi[t] \in OutParams
    BY DEF FfiInv, OutInv, Callers
  <2>2. Defaulted(ffi[t])
    BY DEF FfiInv, OutInv, decrypt_panics
  <2> QED BY <2>1, <2>2, CodedParams, Zenon DEF Defaulted
<1>3. ffi' = [ffi EXCEPT ![t] = f]
  BY DEF decrypt_panics, FfiInv, OutInv
<1> HIDE DEF f
<1>4. OutInv'
  <2>1. LengthHonest(f) /\ PacketHonest(f, rx'[t], delivered')
    BY <1>2 DEF LengthHonest, PacketHonest
  <2>2. UNCHANGED <<tx, delivered>> /\ rx'[t].pc = "idle"
    BY DEF decrypt_panics, tx_vars, RxReturn, FfiInv, RxCore, RxTypeOK
  <2> QED BY <1>1, <1>2, <1>3, <2>1, <2>2, ReceiverTold, Zenon DEF FfiInv
<1> QED BY <1>1, <1>4, ReceivingKeeps DEF decrypt_panics, FfiInv

-----------------------------------------------------------------------------
(* The calls of either kind of thread.                                     *)

LEMMA NullPointerFfi ==
    ASSUME FfiInv, NEW t \in Callers, null_pointer(t)
    PROVE  FfiInv'
<1> DEFINE f == [ffi[t] EXCEPT !.code = "NULL_POINTER"]
<1>1. /\ f \in OutParams /\ f.code = "NULL_POINTER"
      /\ f.out_len = ffi[t].out_len /\ f.is_encoded = ffi[t].is_encoded
  BY CodedParams, Zenon DEF FfiInv, OutInv
<1>2. ffi' = [ffi EXCEPT ![t] = f] /\ UNCHANGED <<tx, rx, delivered>>
  BY DEF null_pointer, FfiInv, OutInv, tx_vars, rx_vars
<1> HIDE DEF f
<1>3. LengthHonest(f)
  BY <1>1 DEF LengthHonest
<1>4. CASE t \in TxThreads
  <2>1. tx'[t].pc \notin {"sealing", "counting"}
    BY <1>2, <1>4 DEF null_pointer, Idle
  <2> QED BY <1>1, <1>2, <1>3, <1>4, <2>1, SenderTold, ReceivingKeeps, RxStill, Zenon
          DEF null_pointer, FfiInv, rx_vars
<1>5. CASE t \in RxThreads
  <2>1. rx'[t].pc = "idle"
    BY <1>2, <1>5 DEF null_pointer, Idle
  <2>2. PacketHonest(f, rx'[t], delivered')
    BY <1>1, <1>2, <1>5 DEF FfiInv, OutInv, PacketHonest
  <2> QED BY <1>1, <1>2, <1>3, <1>5, <2>1, <2>2, ReceiverTold, ReceivingKeeps, RxStill, Zenon
          DEF null_pointer, FfiInv, rx_vars
<1> QED BY <1>4, <1>5 DEF Callers

LEMMA SetPeerKeyFfi ==
    ASSUME FfiInv, NEW key \in Keys \cup {INVALID}, he_expresslane_set_peer_key(key)
    PROVE  FfiInv'
<1>1. RxCore'
  BY UpdatePeerKeyInv DEF he_expresslane_set_peer_key, FfiInv
<1>2. TxInv' /\ FlagInv'
  BY StillTx DEF he_expresslane_set_peer_key, FfiInv, FlagInv, tx_vars, SameKeys,
                 SameCounters
<1>3. HintInv'
  BY SMTT(30) DEF he_expresslane_set_peer_key, update_peer_key, FfiInv, HintInv, hint_vars, tx_vars
<1>4. OutInv'
  BY NobodyTold DEF he_expresslane_set_peer_key, update_peer_key, FfiInv, tx_vars
<1> QED BY <1>1, <1>2, <1>3, <1>4, SMTT(30) DEF FfiInv

\* has_valid_keys looks at the self flag only after it has seen the peer flag.
LEMMA HasValidKeysFfi ==
    ASSUME FfiInv, NEW t \in Callers, he_expresslane_has_valid_keys(t)
    PROVE  FfiInv'
<1>1. UNCHANGED <<tx_vars, rx_vars, ffi>>
  BY SMTT(30) DEF he_expresslane_has_valid_keys, has_valid_keys_peer, has_valid_keys_self
<1>2. TxInv' /\ FlagInv' /\ RxCore'
  BY <1>1, StillTx, RxStill DEF FfiInv, FlagInv, tx_vars, SameKeys, SameCounters
<1>3. HintInv'
  <2>1. UNCHANGED <<peer_key_installed, self_key_installed>>
    BY <1>1 DEF tx_vars, rx_vars
  <2>2. CASE has_valid_keys_peer(t)
    BY <2>1, <2>2 DEF has_valid_keys_peer, FfiInv, HintInv
  <2>3. CASE has_valid_keys_self(t)
    BY <2>1, <2>3, Zenon DEF has_valid_keys_self, FfiInv, HintInv
  <2> QED BY <2>2, <2>3 DEF he_expresslane_has_valid_keys
<1>4. OutInv'
  BY <1>1, NobodyTold DEF FfiInv, tx_vars, rx_vars
<1> QED BY <1>2, <1>3, <1>4 DEF FfiInv

LEMMA StillFfi ==
    ASSUME FfiInv, UNCHANGED <<tx_vars, rx_vars, hint_vars, ffi>>
    PROVE  FfiInv'
<1>1. TxInv' /\ FlagInv' /\ RxCore' /\ HintInv'
  BY ReceivingKeeps, RxStill DEF FfiInv, rx_vars
<1>2. OutInv'
  BY NobodyTold DEF FfiInv, tx_vars, rx_vars
<1> QED BY <1>1, <1>2, SMTT(30) DEF FfiInv

LEMMA FfiStepInv == FfiInv /\ [FfiNext]_ffi_vars => FfiInv'
<1> SUFFICES ASSUME FfiInv, [FfiNext]_ffi_vars PROVE FfiInv'
  OBVIOUS
<1>1. ASSUME NEW version, session_create(version) PROVE FfiInv'
  BY <1>1, StillFfi DEF session_create
<1>2. CASE session_destroy
  BY <1>2, StillFfi DEF session_destroy
<1>3. CASE UNCHANGED ffi_vars
  BY <1>3, StillFfi DEF ffi_vars
<1>4. ASSUME NEW t \in TxThreads,
             \/ he_expresslane_encrypt(t) \/ tx_calls(t)
             \/ tx_continues(t) \/ encrypt_panics(t) \/ null_pointer(t)
      PROVE  FfiInv'
  BY <1>4, EncryptFfi, TxCallsFfi, TxContinuesFfi, EncryptPanicsFfi, NullPointerFfi, SMTT(30)
  DEF Callers
<1>5. ASSUME NEW t \in RxThreads,
             \/ \E packet \in Packets : he_expresslane_decrypt(t, packet)
             \/ decrypt_continues(t) \/ decrypt_panics(t) \/ null_pointer(t)
      PROVE  FfiInv'
  BY <1>5, DecryptFfi, DecryptContinuesFfi, DecryptPanicsFfi, NullPointerFfi, SMTT(30)
  DEF Callers
<1> QED
  BY <1>1, <1>2, <1>3, <1>4, <1>5, SetPeerKeyFfi, HasValidKeysFfi, SMTT(30)
  DEF FfiNext, Callers

\* The inductive invariant of a session behind its C ABI.
THEOREM FfiInvHolds == FfiSpec => []FfiInv
BY FfiInitInv, FfiStepInv, PTL DEF FfiSpec

\* he_expresslane_encrypt and he_expresslane_decrypt: the out-params of a caller
\* are those of its own last call that passed the null checks, a length and a
\* packet if it succeeded and none if it failed or panicked; a call refused with
\* NULL_POINTER leaves them as they were.
THEOREM CallerReadsOwnPacketHolds == FfiSpec => []CallerReadsOwnPacket
<1>1. FfiInv => CallerReadsOwnPacket
  BY OutInvHonest DEF FfiInv
<1> QED BY <1>1, FfiInvHolds, PTL

\* has_valid_keys: once it has answered true, every encrypt and decrypt that
\* gets its lock finds a key.
THEOREM HintSoundHolds == FfiSpec => []HintSound
BY HintInvSound, FfiInvHolds, PTL

\* What the two halves guarantee survives the panics that ffi_guard catches:
\* counters stay unique, no counter is delivered twice, only authentic packets
\* are, and the refused commit stays unreachable.
THEOREM PanicsHarmless ==
    FfiSpec => [](/\ UniqueCounters /\ WindowExact /\ DeliveredOnce
                  /\ OnlyAuthentic /\ RefusedCommitUnreachable)
<1>1. FfiInv => /\ UniqueCounters /\ WindowExact /\ DeliveredOnce
                /\ OnlyAuthentic /\ RefusedCommitUnreachable
  BY DEF FfiInv, TxInv, Counted, RxCore, RefusedCommitUnreachable
<1> QED BY <1>1, FfiInvHolds, PTL

\* promote_self_key behind the C ABI: the send key is only ever replaced by a
\* later one, panics or not.
THEOREM FfiKeyOrder == FfiSpec => KeyOrder
<1>1. FfiInv /\ [FfiNext]_ffi_vars
          => [current_self' = current_self \/ current_self' > current_self]_tx_vars
  <2> SUFFICES ASSUME FfiInv, [FfiNext]_ffi_vars
               PROVE  current_self' = current_self \/ current_self' > current_self
    OBVIOUS
  <2>1. ASSUME NEW t \in TxThreads, Sending(t)
        PROVE  current_self' = current_self \/ current_self' > current_self
    BY <2>1, CallsTx, ContinueTx DEF FfiInv, Sending
  <2>2. CASE UNCHANGED current_self
    BY <2>2
  <2> QED
    BY <2>1, <2>2, Zenon DEF FfiNext, ffi_vars, tx_vars, session_create, session_destroy,
       he_expresslane_set_peer_key, he_expresslane_has_valid_keys,
       has_valid_keys_peer, has_valid_keys_self, he_expresslane_encrypt, tx_calls,
       tx_continues, encrypt_panics, null_pointer, he_expresslane_decrypt,
       decrypt_continues, decrypt_panics, Sending, TxCalls, Encrypt
<1> QED BY <1>1, FfiInvHolds, PTL DEF FfiSpec, KeyOrder

\* The session behind its C ABI still implements the abstract sliding window:
\* a panic in decrypt takes no counter.
THEOREM FfiFilterRefinement == FfiSpec => ImplementsFilter
<1>1. FfiInv /\ [FfiNext]_ffi_vars => [Filter!Next]_Filter!vars
  <2> SUFFICES ASSUME FfiInv, [FfiNext]_ffi_vars PROVE [Filter!Next]_Filter!vars
    OBVIOUS
  <2>1. ASSUME NEW t \in RxThreads, decrypt_commit(t) PROVE Filter!Next
    BY <2>1, CommitTakes DEF FfiInv
  <2>2. CASE UNCHANGED <<replay_window, delivered>>
    BY <2>2, FilterStill
  <2> QED
    BY <2>1, <2>2, Zenon DEF FfiNext, ffi_vars, rx_vars, session_create, session_destroy,
       he_expresslane_set_peer_key, update_peer_key, he_expresslane_has_valid_keys,
       has_valid_keys_peer, has_valid_keys_self, he_expresslane_encrypt, tx_calls,
       tx_continues, encrypt_panics, null_pointer, he_expresslane_decrypt, Decrypt,
       decrypt_short, decrypt_begin, decrypt_continues, RxContinue, decrypt_open,
       decrypt_panics
<1>2. FfiInit => Filter!Init
  BY FilterInit DEF FfiInit, SessionInit
<1> QED
  BY <1>1, <1>2, FfiInvHolds, PTL DEF FfiSpec, ImplementsFilter, Filter!Spec
=============================================================================
