---------------------------- MODULE UploadProofs ----------------------------
(* Proofs about an upload, for every magic word without a border, every      *)
(* memory and every set of payloads that fit it, every number of faults.     *)
EXTENDS RomUpload, WellFoundedInduction, TLAPS

-----------------------------------------------------------------------------
(* Induction on the natural numbers, from the well-foundedness of <.         *)

(* A set of natural numbers that is not empty has a least element.           *)
LEMMA LeastElement ==
    ASSUME NEW T \in SUBSET Nat, T # {}
    PROVE  \E x \in T : \A y \in T : x <= y
<1>1. PICK x \in T : \A y \in T : ~ (<<y, x>> \in OpToRel(<, Nat))
  BY NatLessThanWellFounded, WFMin
<1>2. ASSUME NEW y \in T PROVE x <= y
  <2>1. y < x => <<y, x>> \in OpToRel(<, Nat)  BY DEF OpToRel
  <2>2. ~ (y < x)  BY <2>1, <1>1
  <2> QED BY <2>2
<1> QED BY <1>2

(* What holds of 0, and of n + 1 when it holds of n, holds of every          *)
(* number.                                                                   *)
LEMMA Induction ==
    ASSUME NEW T, 0 \in T, \A n \in Nat : n \in T => n + 1 \in T
    PROVE  Nat \subseteq T
<1> SUFFICES ASSUME NEW k \in Nat \ T PROVE FALSE  OBVIOUS
<1>1. PICK x \in Nat \ T : \A y \in Nat \ T : x <= y  BY LeastElement
<1>2. x # 0 /\ x - 1 \in Nat  BY <1>1
<1>3. x - 1 \in T  BY <1>1, <1>2
<1> QED BY <1>1, <1>2, <1>3
-----------------------------------------------------------------------------
(* The exclusive or of a sequence.                                           *)

XorsUpTo(n, s, x) ==
    x = [i \in 0 .. n |-> IF i = 0 THEN 0 ELSE Xor(x[i - 1], s[i])]

(* The recursive function of XorAll exists.                                  *)
LEMMA XorsExist ==
    ASSUME NEW s, NEW n \in Nat
    PROVE  \E x : XorsUpTo(n, s, x)
<1> DEFINE T == {k \in Nat : \E x : XorsUpTo(k, s, x)}
<1>1. 0 \in T
  <2>1. XorsUpTo(0, s, [i \in 0 .. 0 |-> 0])  BY DEF XorsUpTo
  <2> QED BY <2>1
<1>2. ASSUME NEW k \in Nat, k \in T PROVE k + 1 \in T
  <2>1. PICK x : XorsUpTo(k, s, x)  BY <1>2
  <2> DEFINE y == [i \in 0 .. k + 1 |-> IF i <= k THEN x[i] ELSE Xor(x[k], s[k + 1])]
             z == [i \in 0 .. k + 1 |-> IF i = 0 THEN 0 ELSE Xor(y[i - 1], s[i])]
  <2>2. ASSUME NEW i \in 0 .. k + 1 PROVE y[i] = z[i]
    <3>1. CASE i = 0
      <4>1. x[0] = 0  BY <2>1 DEF XorsUpTo
      <4> QED BY <3>1, <4>1
    <3>2. CASE i # 0 /\ i <= k
      <4>1. i \in 0 .. k /\ i - 1 \in 0 .. k  BY <3>2
      <4>2. x[i] = Xor(x[i - 1], s[i])  BY <2>1, <4>1, <3>2 DEF XorsUpTo
      <4>3. y[i - 1] = x[i - 1] /\ y[i] = x[i]  BY <4>1
      <4> QED BY <4>2, <4>3, <3>2
    <3>3. CASE i = k + 1
      <4>1. y[k] = x[k]  OBVIOUS
      <4> QED BY <3>3, <4>1
    <3> QED BY <3>1, <3>2, <3>3
  <2>3. y = z  BY <2>2
  <2>4. XorsUpTo(k + 1, s, y)  BY <2>3 DEF XorsUpTo
  <2> QED BY <2>4
<1> HIDE DEF T
<1>3. Nat \subseteq T  BY <1>1, <1>2, Induction
<1> QED BY <1>3 DEF T

(* XorAll is the last of the exclusive ors of the beginnings of a            *)
(* sequence.                                                                 *)
LEMMA XorAllIsLast ==
    ASSUME NEW s \in Seq(Byte)
    PROVE  \E x : XorsUpTo(Len(s), s, x) /\ XorAll(s) = x[Len(s)]
<1> DEFINE c == CHOOSE x :
                  x = [i \in 0 .. Len(s) |-> IF i = 0 THEN 0 ELSE Xor(x[i - 1], s[i])]
<1>1. Len(s) \in Nat  OBVIOUS
<1>2. \E x : x = [i \in 0 .. Len(s) |-> IF i = 0 THEN 0 ELSE Xor(x[i - 1], s[i])]
  BY <1>1, XorsExist DEF XorsUpTo
<1>3. XorAll(s) = c[Len(s)]  BY DEF XorAll
<1>4. XorsUpTo(Len(s), s, c)  BY <1>2 DEF XorsUpTo
<1> QED BY <1>3, <1>4

(* Step by step.                                                             *)
LEMMA XorsStep ==
    ASSUME NEW s, NEW n \in Nat, NEW x, XorsUpTo(n, s, x)
    PROVE  x[0] = 0 /\ \A i \in 1 .. n : x[i] = Xor(x[i - 1], s[i])
  BY DEF XorsUpTo

(* Every exclusive or of bytes is a byte.                                    *)
LEMMA XorsType ==
    ASSUME NEW s \in Seq(Byte), NEW x, XorsUpTo(Len(s), s, x)
    PROVE  \A i \in 0 .. Len(s) : x[i] \in Byte
<1> DEFINE T == {k \in Nat : k <= Len(s) => x[k] \in Byte}
<1>1. 0 \in T
  <2>1. Len(s) \in Nat  OBVIOUS
  <2>2. x[0] = 0  BY <2>1, XorsStep
  <2>3. 0 \in Byte  BY UploaderAssumption DEF Byte
  <2> QED BY <2>2, <2>3
<1>2. ASSUME NEW k \in Nat, k \in T PROVE k + 1 \in T
  <2>1. SUFFICES ASSUME k + 1 <= Len(s) PROVE x[k + 1] \in Byte  OBVIOUS
  <2>2. x[k] \in Byte /\ s[k + 1] \in Byte  BY <1>2, <2>1
  <2>3. x[k + 1] = Xor(x[k], s[k + 1])  BY XorsStep, <2>1
  <2> QED BY <2>2, <2>3, UploaderAssumption
<1> HIDE DEF T
<1>3. Nat \subseteq T  BY <1>1, <1>2, Induction
<1> QED BY <1>3 DEF T

(* Sequences that begin alike have the same exclusive ors there.             *)
LEMMA XorsAgree ==
    ASSUME NEW s \in Seq(Byte), NEW t \in Seq(Byte), NEW x, NEW y,
           XorsUpTo(Len(s), s, x), XorsUpTo(Len(t), t, y),
           NEW n \in Nat, n <= Len(s), n <= Len(t), \A i \in 1 .. n : s[i] = t[i]
    PROVE  x[n] = y[n]
<1> DEFINE T == {k \in Nat : k <= n => x[k] = y[k]}
<1>1. 0 \in T
  <2>1. x[0] = 0 /\ y[0] = 0  BY XorsStep
  <2> QED BY <2>1
<1>2. ASSUME NEW k \in Nat, k \in T PROVE k + 1 \in T
  <2>1. SUFFICES ASSUME k + 1 <= n PROVE x[k + 1] = y[k + 1]  OBVIOUS
  <2>2. x[k] = y[k] /\ s[k + 1] = t[k + 1]  BY <1>2, <2>1
  <2>3. k + 1 \in 1 .. Len(s) /\ k + 1 \in 1 .. Len(t) /\ (k + 1) - 1 = k  BY <2>1
  <2>4. x[k + 1] = Xor(x[k], s[k + 1])  BY XorsStep, <2>3
  <2>5. y[k + 1] = Xor(y[k], t[k + 1])  BY XorsStep, <2>3
  <2> QED BY <2>2, <2>4, <2>5
<1> HIDE DEF T
<1>3. Nat \subseteq T  BY <1>1, <1>2, Induction
<1> QED BY <1>3 DEF T

(* What the checksum register computes (rom_uploader_core).                  *)
LEMMA XorAllEmpty == XorAll(<<>>) = 0
<1>1. <<>> \in Seq(Byte) /\ Len(<<>>) = 0  OBVIOUS
<1>2. PICK x : XorsUpTo(0, <<>>, x) /\ XorAll(<<>>) = x[0]  BY <1>1, XorAllIsLast
<1> QED BY <1>2, XorsStep

(* The checksum of a sequence of bytes is a byte.                            *)
LEMMA XorAllType ==
    ASSUME NEW s \in Seq(Byte)
    PROVE  XorAll(s) \in Byte
<1>1. PICK x : XorsUpTo(Len(s), s, x) /\ XorAll(s) = x[Len(s)]  BY XorAllIsLast
<1> QED BY <1>1, XorsType

(* One byte more is one exclusive or more (checksum_bytes).                  *)
LEMMA XorAllAppend ==
    ASSUME NEW s \in Seq(Byte), NEW b \in Byte
    PROVE  XorAll(Append(s, b)) = Xor(XorAll(s), b)
<1> DEFINE t == Append(s, b)
           n == Len(s)
<1>1. t \in Seq(Byte) /\ Len(t) = n + 1 /\ t[n + 1] = b /\ \A i \in 1 .. n : s[i] = t[i]
  OBVIOUS
<1> HIDE DEF t
<1>2. n \in Nat  OBVIOUS
<1>3. PICK x : XorsUpTo(n, s, x) /\ XorAll(s) = x[n]  BY XorAllIsLast
<1>4. PICK y : XorsUpTo(Len(t), t, y) /\ XorAll(t) = y[Len(t)]  BY <1>1, XorAllIsLast
<1> HIDE DEF n
<1>5. x[n] = y[n]
  <2>1. n = Len(s)  BY DEF n
  <2> QED BY <1>1, <1>2, <1>3, <1>4, <2>1, XorsAgree
<1>6. y[n + 1] = Xor(y[n], t[n + 1])
  <2>1. XorsUpTo(n + 1, t, y) /\ n + 1 \in Nat /\ n + 1 \in 1 .. n + 1 /\ (n + 1) - 1 = n
    BY <1>1, <1>2, <1>4
  <2> QED BY <2>1, XorsStep
<1>7. XorAll(t) = Xor(XorAll(s), b)  BY <1>1, <1>3, <1>4, <1>5, <1>6
<1> QED BY <1>7 DEF t

(* One wrong byte is always noticed.                                         *)
LEMMA XorAllDiffers ==
    ASSUME NEW s \in Seq(Byte), NEW t \in Seq(Byte), Len(s) = Len(t),
           NEW d \in 1 .. Len(s), s[d] # t[d],
           \A i \in (1 .. Len(s)) \ {d} : s[i] = t[i]
    PROVE  XorAll(s) # XorAll(t)
<1>1. PICK x : XorsUpTo(Len(s), s, x) /\ XorAll(s) = x[Len(s)]  BY XorAllIsLast
<1>2. PICK y : XorsUpTo(Len(t), t, y) /\ XorAll(t) = y[Len(t)]  BY XorAllIsLast
<1> DEFINE T == {k \in Nat : d + k <= Len(s) => x[d + k] # y[d + k]}
<1>3. ASSUME NEW i \in 1 .. Len(s)
      PROVE  /\ x[i - 1] \in Byte /\ y[i - 1] \in Byte /\ s[i] \in Byte /\ t[i] \in Byte
             /\ x[i] = Xor(x[i - 1], s[i]) /\ y[i] = Xor(y[i - 1], t[i])
  <2>1. i - 1 \in 0 .. Len(s) /\ i - 1 \in 0 .. Len(t) /\ Len(s) \in Nat /\ Len(t) \in Nat
    OBVIOUS
  <2>2. x[i - 1] \in Byte /\ y[i - 1] \in Byte  BY <2>1, <1>1, <1>2, XorsType
  <2>3. s[i] \in Byte /\ t[i] \in Byte  OBVIOUS
  <2>4. x[i] = Xor(x[i - 1], s[i])  BY <2>1, <1>1, XorsStep
  <2>5. y[i] = Xor(y[i - 1], t[i])  BY <2>1, <1>2, XorsStep
  <2> QED BY <2>2, <2>3, <2>4, <2>5
<1>4. 0 \in T
  <2>1. x[d - 1] = y[d - 1]
    <3>1. d - 1 \in Nat /\ d - 1 <= Len(s) /\ \A i \in 1 .. d - 1 : s[i] = t[i]  OBVIOUS
    <3> QED BY <3>1, <1>1, <1>2, XorsAgree
  <2>2. Xor(x[d - 1], s[d]) # Xor(y[d - 1], t[d])  BY <2>1, <1>3, XorAssumption
  <2> QED BY <2>2, <1>3
<1>5. ASSUME NEW k \in Nat, k \in T PROVE k + 1 \in T
  <2>1. SUFFICES ASSUME d + k + 1 <= Len(s) PROVE x[d + k + 1] # y[d + k + 1]  OBVIOUS
  <2>2. x[d + k] # y[d + k]  BY <1>5, <2>1
  <2>3. s[d + k + 1] = t[d + k + 1]  BY <2>1
  <2>4. d + k + 1 \in 1 .. Len(s) /\ (d + k + 1) - 1 = d + k  BY <2>1
  <2> QED BY <2>2, <2>3, <2>4, <1>3, XorAssumption
<1> HIDE DEF T
<1>6. Nat \subseteq T  BY <1>4, <1>5, Induction
<1>7. Len(s) - d \in Nat /\ d + (Len(s) - d) = Len(s)  OBVIOUS
<1> DEFINE e == Len(s) - d
<1>8. e \in T  BY <1>6, <1>7
<1>9. x[d + e] # y[d + e]  BY <1>7, <1>8 DEF T
<1>10. x[Len(s)] # y[Len(s)]  BY <1>7, <1>9
<1> QED BY <1>1, <1>2, <1>10

-----------------------------------------------------------------------------
(* A frame.                                                                  *)

(* What the assumptions say of the constants, for the steps below.           *)
LEMMA Constants ==
    /\ ByteMod \in Nat /\ ByteMod >= 2 /\ ByteMod * ByteMod \in Nat /\ ByteMod * ByteMod >= 4
    /\ MaxLength \in Nat /\ MaxLength >= 1 /\ MaxLength < ByteMod * ByteMod
    /\ Magic \in Seq(Byte) /\ Len(Magic) \in Nat /\ Len(Magic) >= 1
    /\ MinGap \in Nat /\ MinGap >= 6 /\ TxTime \in Nat /\ TxTime >= 1
    /\ TxTime <= Len(Magic) * MinGap /\ MaxFaults \in Nat
    /\ 0 \in Byte /\ 0 \in Addr
<1>1. ByteMod \in Nat /\ ByteMod >= 2 /\ MaxLength \in Nat /\ MaxLength >= 1
  BY UploaderAssumption
<1>2. ByteMod * ByteMod \in Nat /\ ByteMod * ByteMod >= 4  BY <1>1
<1>3. 0 \in Byte /\ 0 \in Addr  BY <1>1 DEF Byte, Addr
<1> QED BY <1>1, <1>2, <1>3, UploaderAssumption, UploadAssumption

(* The two length bytes carry every length the memory allows.                *)
LEMMA LengthBytes ==
    ASSUME NEW n \in Nat, n <= MaxLength
    PROVE  /\ n % ByteMod \in Byte /\ n \div ByteMod \in Byte
           /\ (n % ByteMod) + ByteMod * (n \div ByteMod) = n
<1>1. n % ByteMod \in 0 .. ByteMod - 1 /\ n \div ByteMod \in Nat
  BY Constants
<1>2. (n % ByteMod) + ByteMod * (n \div ByteMod) = n  BY Constants
<1>3. n \div ByteMod < ByteMod
  <2> DEFINE q == n \div ByteMod
  <2>1. q >= ByteMod => ByteMod * q >= ByteMod * ByteMod  BY <1>1, Constants
  <2>2. ByteMod * q <= n  BY <1>1, <1>2, Constants
  <2> QED BY <2>1, <2>2, <1>1, Constants
<1> QED BY <1>1, <1>2, <1>3, Constants DEF Byte

(* Where the parts of a frame lie: magic word, length, payload, checksum     *)
(* (build_upload_frame).                                                     *)
LEMMA FrameShape ==
    ASSUME NEW r \in Roms
    PROVE  /\ r \in Seq(Byte) /\ Len(r) \in Nat /\ Len(r) <= MaxLength
           /\ Frame(r) \in Seq(Byte) /\ Len(Frame(r)) = Len(Magic) + Len(r) + 3
           /\ \A i \in 1 .. Len(Magic) : Frame(r)[i] = Magic[i]
           /\ Frame(r)[Len(Magic) + 1] = Len(r) % ByteMod
           /\ Frame(r)[Len(Magic) + 2] = Len(r) \div ByteMod
           /\ \A i \in 1 .. Len(r) : Frame(r)[Len(Magic) + 2 + i] = r[i]
           /\ Frame(r)[Len(Magic) + Len(r) + 3] = XorAll(r)
<1>1. r \in Seq(Byte) /\ Len(r) \in Nat /\ Len(r) <= MaxLength  BY UploadAssumption
<1> DEFINE lo == Len(r) % ByteMod
           hi == Len(r) \div ByteMod
           x == XorAll(r)
           A == Magic \o <<lo, hi>>
           B == A \o r
           C == B \o <<x>>
<1>2. lo \in Byte /\ hi \in Byte /\ x \in Byte  BY <1>1, LengthBytes, XorAllType
<1>3. Frame(r) = C  BY DEF Frame
<1> HIDE DEF lo, hi, x
<1>4. /\ A \in Seq(Byte) /\ Len(A) = Len(Magic) + 2
      /\ \A i \in 1 .. Len(Magic) : A[i] = Magic[i]
      /\ A[Len(Magic) + 1] = lo /\ A[Len(Magic) + 2] = hi
  BY <1>2, Constants
<1> HIDE DEF A
<1>5. /\ B \in Seq(Byte) /\ Len(B) = Len(A) + Len(r)
      /\ \A i \in 1 .. Len(A) : B[i] = A[i]
      /\ \A i \in 1 .. Len(r) : B[Len(A) + i] = r[i]
  BY <1>1, <1>4
<1> HIDE DEF B
<1>6. /\ C \in Seq(Byte) /\ Len(C) = Len(B) + 1
      /\ \A i \in 1 .. Len(B) : C[i] = B[i]
      /\ C[Len(B) + 1] = x
  BY <1>2, <1>5
<1> HIDE DEF C
<1>7. Len(Magic) \in Nat  BY Constants
<1>8. \A i \in 1 .. Len(A) : C[i] = A[i]  BY <1>1, <1>4, <1>5, <1>6, <1>7
<1>9. \A i \in 1 .. Len(Magic) : C[i] = Magic[i]  BY <1>4, <1>7, <1>8
<1>10. C[Len(Magic) + 1] = lo /\ C[Len(Magic) + 2] = hi  BY <1>4, <1>7, <1>8
<1>11. ASSUME NEW i \in 1 .. Len(r) PROVE C[Len(Magic) + 2 + i] = r[i]
  <2>1. Len(Magic) + 2 + i = Len(A) + i /\ Len(A) + i \in 1 .. Len(B)
    BY <1>1, <1>4, <1>5, <1>7
  <2> QED BY <2>1, <1>5, <1>6
<1>12. Len(Magic) + Len(r) + 3 = Len(B) + 1  BY <1>1, <1>4, <1>5, <1>7
<1> QED BY <1>1, <1>3, <1>6, <1>9, <1>10, <1>11, <1>12 DEF lo, hi, x

-----------------------------------------------------------------------------
(* The invariant, part by part.                                              *)

HistoryTypeOK ==
    /\ raw \in Seq(Byte) /\ trusted \in BOOLEAN /\ hurt \in Nat
    /\ host = "Sending" => pos <= Len(Frame(rom))

(* A report comes when the last one is MinGap clocks old.  A staged byte is  *)
(* written within four clocks, so the machine has left the payload by then.  *)
StagingInTime ==
    /\ rx # NoReport => gap = 1
    /\ state = "Payload" /\ payload_staged =>
          gap >= 2 /\ gap + ((6 - t_index) % 4) <= 5 /\ bytes_remaining >= 1
    /\ state \notin {"WaitMagic", "Payload"} => ~ payload_staged
    /\ rx # NoReport /\ state = "Payload" => ~ payload_staged /\ bytes_remaining >= 1

(* While an answer is on the wire the window still holds the end of the last *)
(* magic word, moved by the j bytes that came since.                         *)
AnswerTime(j) ==
    tx_left + (IF rx = NoReport THEN j ELSE j + 1) * MinGap + gap <= TxTime + 2
OldMagic(j) == \A i \in 1 .. Len(Magic) - j : magic_window[i] = Magic[i + j]
AnswerBeforeMagic ==
    /\ state # "WaitMagic" => magic_window = Magic
    /\ tx_left > 0 =>
          /\ ~ InProtocol
          /\ state = "WaitMagic" => \E j \in 0 .. Len(Magic) - 1 : AnswerTime(j) /\ OldMagic(j)

(* What the registers know of the bytes received.                            *)
Announced == raw[1] + ByteMod * raw[2]
Stored(n) == \A i \in 1 .. n : mem[i - 1] = raw[i + 2]
Written == Announced - bytes_remaining
PayloadKept ==
    /\ Len(raw) >= 2 /\ Announced <= MaxLength
    /\ bytes_remaining <= Announced
    /\ Len(raw) = Written + (IF payload_staged THEN 3 ELSE 2)
    /\ write_addr = Written % MaxLength
    /\ payload_staged => staged_payload = raw[Len(raw)]
    /\ checksum = XorAll(SubSeq(raw, 3, Written + 2))
    /\ Stored(Written)
ReceivedKept ==
    /\ state = "Length0" => raw = <<>> /\ checksum = 0 /\ write_addr = 0
    /\ state = "Length1" =>
          Len(raw) = 1 /\ bytes_remaining = raw[1] /\ checksum = 0 /\ write_addr = 0
    /\ state = "Payload" => PayloadKept
    /\ state = "Checksum" => PayloadKept /\ bytes_remaining = 0
    /\ RunningIsVerified

-----------------------------------------------------------------------------
(* Types.                                                                    *)

(* A report of the receiver is nothing, a byte or a framing error.           *)
LEMMA ReportKinds ==
    ASSUME rx \in Report
    PROVE  /\ Got => rx.byte \in Byte /\ rx # NoReport /\ rx.kind # "Error"
           /\ rx = NoReport => ~ Got /\ rx.kind # "Error"
           /\ ~ Got /\ rx.kind # "Error" => rx = NoReport
  BY Constants DEF Report, Got, NoReport

(* The three reports.                                                        *)
LEMMA Reports ==
    /\ NoReport \in Report /\ FramingError \in Report /\ FramingError # NoReport
    /\ \A b \in Byte : ByteReport(b) \in Report /\ ByteReport(b) # NoReport
  BY DEF Report, NoReport, FramingError, ByteReport

(* Every register keeps its range, with and without the reset.               *)
LEMMA RegistersTyped ==
    ASSUME UploaderTypeOK, t_index \in 0 .. 3, raw \in Seq(Byte), NEW rst \in BOOLEAN,
           UploaderClock(t_index, rst), RecordRaw, rx' \in Report
    PROVE  UploaderTypeOK' /\ raw' \in Seq(Byte)
<1>1. Got => rx.byte \in Byte  BY ReportKinds DEF UploaderTypeOK
<1>2. state' \in UploadState
  BY DEF UploaderTypeOK, UploaderClock, NextState, UploadState
<1>3. magic_window' \in Seq(Byte) /\ Len(magic_window') = Len(Magic)
  <2>1. CASE Got /\ state = "WaitMagic"
    <3>1. magic_window' = NextWindow  BY <2>1 DEF UploaderClock
    <3>2. Tail(magic_window) \in Seq(Byte) /\ Len(Tail(magic_window)) = Len(Magic) - 1
      BY Constants DEF UploaderTypeOK
    <3> QED BY <2>1, <3>1, <3>2, <1>1, Constants DEF NextWindow
  <2>2. CASE ~ (Got /\ state = "WaitMagic")  BY <2>2 DEF UploaderClock, UploaderTypeOK
  <2> QED BY <2>1, <2>2
<1>4. checksum' \in Byte
  BY Constants, UploaderAssumption DEF UploaderTypeOK, UploaderClock
<1>5. bytes_remaining' \in 0 .. ByteMod * ByteMod - 1
  <2> DEFINE B == ByteMod * ByteMod
  <2>1. B \in Nat /\ B >= 4 /\ Byte \subseteq 0 .. B - 1
    <3>1. ByteMod <= ByteMod * ByteMod  BY Constants
    <3> QED BY <3>1, Constants DEF Byte
  <2>2. ASSUME Got PROVE CandidateLength \in 0 .. B - 1
    <3>1. bytes_remaining % ByteMod \in 0 .. ByteMod - 1  BY Constants DEF UploaderTypeOK
    <3>2. rx.byte \in 0 .. ByteMod - 1  BY <1>1, <2>2 DEF Byte
    <3>3. rx.byte * ByteMod <= (ByteMod - 1) * ByteMod /\ rx.byte * ByteMod \in Nat
      BY <3>2, Constants
    <3>4. (ByteMod - 1) * ByteMod = B - ByteMod  BY Constants
    <3> HIDE DEF B
    <3> QED BY <3>1, <3>3, <3>4, <2>1, Constants DEF CandidateLength
  <2>3. (bytes_remaining + B - 1) % B \in 0 .. B - 1
    <3>1. bytes_remaining + B - 1 \in Nat  BY <2>1 DEF UploaderTypeOK
    <3> HIDE DEF B
    <3> QED BY <2>1, <3>1
  <2>4. bytes_remaining' = NextRemaining(t_index)  BY DEF UploaderClock
  <2>5. bytes_remaining \in 0 .. B - 1  BY DEF UploaderTypeOK
  <2>6. \/ NextRemaining(t_index) = 0
        \/ NextRemaining(t_index) = bytes_remaining
        \/ NextRemaining(t_index) = (bytes_remaining + B - 1) % B
        \/ Got /\ (NextRemaining(t_index) = rx.byte \/ NextRemaining(t_index) = CandidateLength)
    BY DEF NextRemaining
  <2> HIDE DEF B
  <2>7. 0 \in 0 .. B - 1  BY <2>1
  <2>8. Got => rx.byte \in 0 .. B - 1  BY <2>1, <1>1
  <2>9. NextRemaining(t_index) \in 0 .. B - 1  BY <2>2, <2>3, <2>5, <2>6, <2>7, <2>8
  <2> QED BY <2>4, <2>9 DEF B
<1>6. write_addr' \in Addr
  BY Constants DEF UploaderTypeOK, UploaderClock, AddrAfter, FirstAddr, Addr
<1>7. payload_staged' \in BOOLEAN
  BY DEF UploaderTypeOK, UploaderClock, NextStaged
<1>8. staged_payload' \in Byte
  BY <1>1 DEF UploaderTypeOK, UploaderClock, StageNow
<1>9. mem' \in [Addr -> Byte \cup {Undefined}]
  BY DEF UploaderTypeOK, UploaderClock
<1>10. raw' \in Seq(Byte)
  BY <1>1 DEF RecordRaw
<1> QED BY <1>2, <1>3, <1>4, <1>5, <1>6, <1>7, <1>8, <1>9, <1>10 DEF UploaderTypeOK

-----------------------------------------------------------------------------
(* Timing.                                                                   *)

(* One clock of the board, with what the line may bring.                     *)
BoardMoves(report) == (report = NoReport \/ gap = MinGap) /\ BoardClock(report)

(* The clocks since the last report stay in their range.                     *)
LEMMA GapMoves ==
    ASSUME UploadTypeOK, NEW report \in Report, BoardMoves(report)
    PROVE  /\ gap' \in 1 .. MinGap
           /\ report # NoReport => gap = MinGap /\ gap' = 1
           /\ report = NoReport => gap' >= gap
           /\ report = NoReport /\ gap <= 5 => gap' = gap + 1
           /\ rx' = report /\ t_index' \in 0 .. 3
  BY Constants DEF UploadTypeOK, BoardMoves, BoardClock

(* The staged byte is written, and only then the slot is free.               *)
LEMMA StagedMoves ==
    ASSUME UploadTypeOK, NEW rst \in BOOLEAN, UploaderClock(t_index, rst)
    PROVE  /\ payload_staged' => StageNow \/ (payload_staged /\ ~ WriteSlot(t_index))
           /\ payload_staged' => ~ MagicMatch /\ ~ StartFailAck /\ ~ StartSuccessAck
  BY DEF UploaderClock, NextStaged

(* Which state of the loader follows which (rom_uploader_core).              *)
LEMMA StateMoves ==
    ASSUME UploadTypeOK, UploaderClock(t_index, FALSE)
    PROVE  /\ state' = NextState
           /\ state' = "Payload" /\ state # "Payload" =>
                 /\ state = "Length1" /\ Got /\ CandidateLength # 0
                 /\ CandidateLength <= MaxLength
           /\ state' \notin {"WaitMagic", "Payload", state} =>
                 MagicMatch \/ state \in {"Length0", "Length1"} \/ UploadComplete
                 \/ StartSuccessAck
<1>1. state' = NextState  BY DEF UploaderClock
<1>2. state \in UploadState  BY DEF UploadTypeOK, UploaderTypeOK
<1>3. CandidateLength <= MaxLength \/ CandidateLength > MaxLength
  <2>1. CASE Got
    <3>1. rx.byte \in Byte  BY ReportKinds, <2>1 DEF UploadTypeOK, UploaderTypeOK
    <3>2. bytes_remaining % ByteMod \in 0 .. ByteMod - 1
      BY Constants DEF UploadTypeOK, UploaderTypeOK
    <3>3. CandidateLength \in Nat  BY <3>1, <3>2, Constants DEF CandidateLength, Byte
    <3> QED BY <3>3, Constants
  <2>2. CASE ~ Got
    <3>1. rx \in Report  BY DEF UploadTypeOK, UploaderTypeOK
    <3>2. rx.byte = 0  BY <3>1, <2>2 DEF Report, Got
    <3>3. bytes_remaining % ByteMod \in 0 .. ByteMod - 1
      BY Constants DEF UploadTypeOK, UploaderTypeOK
    <3>4. CandidateLength \in Nat  BY <3>2, <3>3, Constants DEF CandidateLength
    <3> QED BY <3>4, Constants
  <2> QED BY <2>1, <2>2
<1> QED
  BY <1>1, <1>2, <1>3
  DEF NextState, UploadState, MagicMatch, StartSuccessAck, StartFailAck, ChecksumMatch,
      Overrun, OversizeLength, UploadComplete, InProtocol

(* A staged byte is written, and a report is due, before the next byte can   *)
(* come.                                                                     *)
LEMMA StagingStep ==
    ASSUME UploadTypeOK, StagingInTime, NEW report \in Report, BoardMoves(report)
    PROVE  StagingInTime'
<1>1. UploaderClock(t_index, FALSE) /\ t_index' = (t_index + 1) % 4
  BY DEF BoardMoves, BoardClock
<1>2. rx' # NoReport => gap' = 1  BY GapMoves
<1>3. Got => gap = 1  BY ReportKinds DEF UploadTypeOK, UploaderTypeOK, StagingInTime
<1>4. ASSUME state' = "Payload", payload_staged'
      PROVE  gap' >= 2 /\ gap' + ((6 - t_index') % 4) <= 5
  <2>1. CASE StageNow
    <3>1. gap = 1 /\ report = NoReport
      BY <2>1, <1>3, GapMoves, Constants DEF StageNow
    <3>2. gap' = 2  BY <3>1, GapMoves
    <3>3. (6 - t_index') % 4 \in 0 .. 3  BY GapMoves
    <3> QED BY <3>2, <3>3
  <2>2. CASE payload_staged /\ ~ WriteSlot(t_index)
    <3>1. state = "Payload"
      <4>1. SUFFICES ASSUME state # "Payload" PROVE FALSE  OBVIOUS
      <4>2. state = "Length1"  BY <4>1, <1>4, <1>1, StateMoves
      <4> QED BY <4>2, <2>2 DEF StagingInTime
    <3>2. t_index # 2 /\ t_index \in 0 .. 3
      BY <3>1, <2>2 DEF WriteSlot, UploadTypeOK
    <3>3. gap >= 2 /\ gap + ((6 - t_index) % 4) <= 5 /\ gap \in 1 .. MinGap
      BY <3>1, <2>2 DEF StagingInTime, UploadTypeOK
    <3>4. (6 - t_index') % 4 = ((6 - t_index) % 4) - 1 /\ (6 - t_index) % 4 \in 1 .. 3
      BY <3>2, <1>1
    <3>5. gap <= 5  BY <3>3, <3>4
    <3>6. gap' = gap + 1  BY <3>5, GapMoves, Constants
    <3> QED BY <3>3, <3>4, <3>6
  <2> QED BY <2>1, <2>2, <1>1, <1>4, StagedMoves
<1>5. ASSUME state' = "Payload", payload_staged' PROVE bytes_remaining' >= 1
  <2>1. state = "Payload"
    <3>1. SUFFICES ASSUME state # "Payload" PROVE FALSE  OBVIOUS
    <3>2. state = "Length1"  BY <3>1, <1>5, <1>1, StateMoves
    <3>3. ~ payload_staged  BY <3>2 DEF StagingInTime
    <3> QED BY <3>2, <3>3, <1>5, <1>1, StagedMoves DEF StageNow
  <2>2. ~ WriteSlot(t_index)
    <3>1. WriteSlot(t_index) => ~ StageNow  BY DEF WriteSlot, StageNow
    <3> QED BY <3>1, <1>5, <1>1, StagedMoves
  <2>3. bytes_remaining' = bytes_remaining
    BY <2>1, <2>2, <1>1 DEF UploaderClock, NextRemaining, MagicMatch
  <2>4. bytes_remaining >= 1
    <3>1. CASE StageNow
      <4>1. rx # NoReport  BY <3>1, ReportKinds DEF UploadTypeOK, UploaderTypeOK, StageNow
      <4> QED BY <4>1, <2>1 DEF StagingInTime
    <3>2. CASE payload_staged  BY <3>2, <2>1 DEF StagingInTime
    <3> QED BY <3>1, <3>2, <1>1, <1>5, StagedMoves
  <2> QED BY <2>3, <2>4
<1>6. ASSUME state' \notin {"WaitMagic", "Payload"}, payload_staged' PROVE FALSE
  <2>1. ~ MagicMatch /\ ~ StartFailAck /\ ~ StartSuccessAck
    BY <1>1, <1>6, StagedMoves
  <2>2. state \notin {"WaitMagic", "Payload"} => ~ payload_staged /\ ~ StageNow
    BY DEF StagingInTime, StageNow
  <2>3. state \in {"WaitMagic", "Payload"}  BY <2>2, <1>1, <1>6, StagedMoves
  <2>4. state = "Payload" /\ UploadComplete
    BY <2>1, <2>3, <1>1, <1>6 DEF UploaderClock, NextState, UploadComplete
  <2>5. ~ payload_staged  BY <2>4 DEF UploadComplete
  <2>6. StageNow  BY <2>5, <1>1, <1>6, StagedMoves
  <2>7. rx # NoReport  BY <2>6, ReportKinds DEF UploadTypeOK, UploaderTypeOK, StageNow
  <2>8. bytes_remaining >= 1  BY <2>4, <2>7 DEF StagingInTime
  <2> QED BY <2>4, <2>8 DEF UploadComplete
<1>7. ASSUME rx' # NoReport, state' = "Payload"
      PROVE  ~ payload_staged' /\ bytes_remaining' >= 1
  <2>1. gap = MinGap  BY <1>7, GapMoves
  <2>2. rx = NoReport /\ ~ Got
    BY <2>1, Constants, ReportKinds DEF StagingInTime, UploadTypeOK, UploaderTypeOK
  <2>3. state = "Payload"  BY <2>2, <1>1, <1>7, StateMoves
  <2>4. ~ payload_staged
    <3>1. SUFFICES ASSUME payload_staged PROVE FALSE  OBVIOUS
    <3>2. (6 - t_index) % 4 \in 0 .. 3  BY DEF UploadTypeOK
    <3>3. gap <= 5  BY <3>1, <3>2, <2>3 DEF StagingInTime, UploadTypeOK
    <3> QED BY <3>3, <2>1, Constants
  <2>5. ~ UploadComplete
    BY <2>2, <2>3, <1>1, <1>7
    DEF UploaderClock, NextState, StartSuccessAck, ChecksumMatch, StartFailAck, InProtocol,
        Overrun, OversizeLength, MagicMatch
  <2>6. bytes_remaining # 0 /\ bytes_remaining \in Nat
    BY <2>3, <2>4, <2>5 DEF UploadComplete, UploadTypeOK, UploaderTypeOK
  <2>7. bytes_remaining' = bytes_remaining
    BY <2>2, <2>3, <2>4, <1>1 DEF UploaderClock, NextRemaining, MagicMatch, WriteSlot
  <2>8. ~ payload_staged'
    BY <2>2, <2>4, <1>1, StagedMoves DEF StageNow
  <2> QED BY <2>6, <2>7, <2>8
<1> QED BY <1>2, <1>4, <1>5, <1>6, <1>7 DEF StagingInTime

(* An answer starts in the protocol, and leaves it.                          *)
LEMMA AnswerStarts ==
    ASSUME UploadTypeOK, AckStart
    PROVE  /\ InProtocol /\ rx # NoReport
           /\ NextState = (IF StartSuccessAck THEN "Running" ELSE "WaitMagic")
<1>1. rx # NoReport /\ InProtocol
  BY ReportKinds
  DEF AckStart, StartSuccessAck, StartFailAck, ChecksumMatch, Overrun, OversizeLength,
      InProtocol, UploadTypeOK, UploaderTypeOK
<1> QED BY <1>1 DEF AckStart, NextState

(* The window moves by one byte.                                             *)
LEMMA WindowMoves ==
    ASSUME UploadTypeOK, Got
    PROVE  /\ NextWindow \in Seq(Byte) /\ Len(NextWindow) = Len(Magic)
           /\ \A i \in 1 .. Len(Magic) - 1 : NextWindow[i] = magic_window[i + 1]
           /\ NextWindow[Len(Magic)] = rx.byte
<1>1. magic_window \in Seq(Byte) /\ Len(magic_window) = Len(Magic) /\ rx.byte \in Byte
  BY ReportKinds DEF UploadTypeOK, UploaderTypeOK
<1>2. /\ Tail(magic_window) \in Seq(Byte) /\ Len(Tail(magic_window)) = Len(Magic) - 1
      /\ \A i \in 1 .. Len(Magic) - 1 : Tail(magic_window)[i] = magic_window[i + 1]
  BY <1>1, Constants
<1> QED BY <1>1, <1>2, Constants DEF NextWindow

(* No magic word begins within another.                                      *)
LEMMA NoBorder ==
    ASSUME NEW k \in 1 .. Len(Magic) - 1, \A i \in 1 .. Len(Magic) - k : Magic[i] = Magic[i + k]
    PROVE  FALSE
<1> DEFINE m == Len(Magic)
<1>1. m \in Nat /\ Magic \in Seq(Byte)  BY Constants
<1>2. SubSeq(Magic, k + 1, m) = [i \in 1 .. m - k |-> Magic[i + k]]
  BY <1>1
<1>3. SubSeq(Magic, 1, m - k) = [i \in 1 .. m - k |-> Magic[i]]
  BY <1>1
<1> QED BY <1>2, <1>3, MagicBorderlessAssumption

(* An answer has left the transmitter before the next magic word ends, for   *)
(* no magic word begins within another.                                      *)
LEMMA AnswerStep ==
    ASSUME UploadTypeOK, StagingInTime, AnswerBeforeMagic,
           NEW report \in Report, BoardMoves(report)
    PROVE  AnswerBeforeMagic'
<1>1. /\ UploaderClock(t_index, FALSE) /\ Transmit /\ state' = NextState
      /\ rx \in Report /\ state \in UploadState /\ tx_left \in 0 .. TxTime
  BY DEF BoardMoves, BoardClock, UploaderClock, UploadTypeOK, UploaderTypeOK
<1>2. ASSUME state' # "WaitMagic" PROVE magic_window' = Magic
  <2>1. CASE state = "WaitMagic"
    <3>1. MagicMatch
      BY <2>1, <1>1, <1>2
      DEF NextState, StartSuccessAck, ChecksumMatch, StartFailAck, InProtocol, Overrun,
          OversizeLength, UploadComplete
    <3> QED BY <3>1, <1>1 DEF UploaderClock, MagicMatch
  <2>2. CASE state # "WaitMagic"  BY <2>2, <1>1 DEF UploaderClock, AnswerBeforeMagic
  <2> QED BY <2>1, <2>2
<1>3. rx # NoReport => gap = 1 /\ report = NoReport /\ gap' = 2
  BY GapMoves, Constants DEF StagingInTime
<1>4. AckStart => tx_left = 0
  BY <1>1, AnswerStarts DEF AnswerBeforeMagic
<1>5. ASSUME tx_left' > 0
      PROVE  /\ ~ InProtocol'
             /\ state' = "WaitMagic" =>
                   \E j \in 0 .. Len(Magic) - 1 : AnswerTime(j)' /\ OldMagic(j)'
  <2>1. CASE AckStart
    <3>1. InProtocol /\ rx # NoReport /\ ~ InProtocol'
      BY <2>1, <1>1, AnswerStarts DEF InProtocol
    <3>2. tx_left' = TxTime  BY <2>1, <1>1, <1>4 DEF Transmit
    <3>3. gap' = 2 /\ rx' = NoReport  BY <3>1, <1>3, GapMoves
    <3>4. AnswerTime(0)'  BY <3>2, <3>3, Constants DEF AnswerTime
    <3>5. magic_window' = Magic
      BY <3>1, <1>1 DEF UploaderClock, InProtocol, AnswerBeforeMagic
    <3>6. OldMagic(0)'  BY <3>5, Constants DEF OldMagic
    <3> QED BY <3>1, <3>4, <3>6, Constants
  <2>2. CASE ~ AckStart /\ state # "WaitMagic"
    <3>1. tx_left > 0 /\ ~ InProtocol  BY <2>2, <1>1, <1>5 DEF Transmit, AnswerBeforeMagic
    <3>2. state = "Running"  BY <3>1, <2>2, <1>1 DEF InProtocol, UploadState
    <3>3. state' = "Running"
      BY <2>2, <3>2, <1>1 DEF AckStart, NextState, MagicMatch, UploadComplete
    <3> QED BY <3>3 DEF InProtocol
  <2>3. CASE ~ AckStart /\ state = "WaitMagic"
    <3>1. tx_left > 0 /\ tx_left' = tx_left - 1  BY <2>3, <1>1, <1>5 DEF Transmit
    <3>2. PICK j \in 0 .. Len(Magic) - 1 : AnswerTime(j) /\ OldMagic(j)
      BY <2>3, <3>1 DEF AnswerBeforeMagic
    <3> DEFINE w == j * MinGap
    <3>3. /\ w \in Nat /\ (j + 1) * MinGap = w + MinGap
          /\ MinGap \in Nat /\ TxTime \in Nat /\ Len(Magic) \in Nat
      BY Constants
    <3>4. tx_left \in Nat /\ gap \in 1 .. MinGap /\ gap' \in 1 .. MinGap
      BY <1>1, GapMoves, Constants DEF UploadTypeOK
    <3>5. CASE Got
      <4>1. rx # NoReport /\ gap = 1 /\ gap' = 2 /\ rx' = NoReport
        BY <3>5, <1>1, <1>3, ReportKinds, GapMoves
      <4>2. tx_left + w + MinGap + 1 <= TxTime + 2
        <5>1. tx_left + (j + 1) * MinGap + 1 <= TxTime + 2  BY <3>2, <4>1 DEF AnswerTime
        <5> HIDE DEF w
        <5> QED BY <5>1, <3>3, <3>4
      <4>3. j + 1 # Len(Magic)
        <5>1. SUFFICES ASSUME j + 1 = Len(Magic) PROVE FALSE  OBVIOUS
        <5>2. w + MinGap >= TxTime  BY <5>1, <3>3, Constants
        <5> HIDE DEF w
        <5>3. tx_left <= 1  BY <4>2, <5>2, <3>3, <3>4
        <5> QED BY <5>3, <3>1, <3>4, <1>5
      <4>4. j + 1 \in 1 .. Len(Magic) - 1  BY <4>3, Constants
      <4>5. magic_window' = NextWindow  BY <3>5, <2>3, <1>1 DEF UploaderClock
      <4>6. \A i \in 1 .. Len(Magic) - (j + 1) : NextWindow[i] = Magic[i + (j + 1)]
        <5> SUFFICES ASSUME NEW i \in 1 .. Len(Magic) - (j + 1)
                     PROVE  NextWindow[i] = Magic[i + (j + 1)]
          OBVIOUS
        <5>1. i \in 1 .. Len(Magic) - 1 /\ i + 1 \in 1 .. Len(Magic) - j  BY Constants
        <5>2. NextWindow[i] = magic_window[i + 1]  BY <5>1, <3>5, WindowMoves
        <5>3. magic_window[i + 1] = Magic[(i + 1) + j]  BY <5>1, <3>2 DEF OldMagic
        <5>4. (i + 1) + j = i + (j + 1)  OBVIOUS
        <5> QED BY <5>2, <5>3, <5>4
      <4>7. ~ MagicMatch
        BY <4>4, <4>6, NoBorder DEF MagicMatch
      <4>8. state' = "WaitMagic"
        BY <2>3, <4>7, <1>1 DEF AckStart, NextState, UploadComplete
      <4>9. AnswerTime(j + 1)'
        <5>1. tx_left' + (j + 1) * MinGap + 2 <= TxTime + 2
          <6> HIDE DEF w
          <6> QED BY <3>1, <3>3, <3>4, <4>2
        <5> QED BY <4>1, <5>1 DEF AnswerTime
      <4>10. OldMagic(j + 1)'  BY <4>5, <4>6 DEF OldMagic
      <4>11. ~ InProtocol'  BY <4>8 DEF InProtocol
      <4> QED BY <4>4, <4>9, <4>10, <4>11
    <3>6. CASE ~ Got
      <4>1. magic_window' = magic_window /\ state' = "WaitMagic"
        BY <3>6, <2>3, <1>1 DEF UploaderClock, AckStart, NextState, UploadComplete, MagicMatch
      <4>2. OldMagic(j)'  BY <4>1, <3>2 DEF OldMagic
      <4>3. AnswerTime(j)'
        <5>1. CASE rx # NoReport
          <6>1. tx_left + (j + 1) * MinGap + 1 <= TxTime + 2
            BY <3>2, <5>1, <1>3 DEF AnswerTime
          <6>2. gap' = 2 /\ rx' = NoReport  BY <5>1, <1>3, GapMoves
          <6>3. tx_left' + w + 2 <= TxTime + 2
            <7> HIDE DEF w
            <7> QED BY <6>1, <3>1, <3>3, <3>4
          <6> QED BY <6>2, <6>3 DEF AnswerTime
        <5>2. CASE rx = NoReport /\ report = NoReport
          <6>1. tx_left + w + gap <= TxTime + 2  BY <3>2, <5>2 DEF AnswerTime
          <6>2. gap' = gap \/ gap' = gap + 1
            BY <5>2, <3>4, GapMoves, Constants DEF BoardMoves, BoardClock
          <6>3. rx' = NoReport  BY <5>2, GapMoves
          <6>4. tx_left' + w + gap' <= TxTime + 2
            <7> HIDE DEF w
            <7>1. tx_left' + w + gap <= TxTime + 2  BY <6>1, <3>1, <3>3, <3>4
            <7>2. tx_left' + w + (gap + 1) <= TxTime + 2  BY <6>1, <3>1, <3>3, <3>4
            <7> QED BY <7>1, <7>2, <6>2
          <6> QED BY <6>3, <6>4 DEF AnswerTime
        <5>3. CASE rx = NoReport /\ report # NoReport
          <6>1. tx_left + w + MinGap <= TxTime + 2
            BY <3>2, <5>3, GapMoves DEF AnswerTime
          <6>2. gap' = 1 /\ rx' # NoReport  BY <5>3, GapMoves
          <6>3. tx_left' + (j + 1) * MinGap + 1 <= TxTime + 2
            <7> HIDE DEF w
            <7> QED BY <6>1, <3>1, <3>3, <3>4
          <6> QED BY <6>2, <6>3 DEF AnswerTime
        <5> QED BY <5>1, <5>2, <5>3
      <4>4. ~ InProtocol'  BY <4>1 DEF InProtocol
      <4> QED BY <4>2, <4>3, <4>4
    <3> QED BY <3>5, <3>6
  <2> QED BY <2>1, <2>2, <2>3
<1> QED BY <1>2, <1>5 DEF AnswerBeforeMagic

(* What a report finds (NothingDropped).                                     *)
LEMMA RoomForReport ==
    ASSUME UploadTypeOK, StagingInTime, AnswerBeforeMagic
    PROVE  NothingDropped
<1>1. Got => rx # NoReport  BY ReportKinds DEF UploadTypeOK, UploaderTypeOK
<1>2. Got => ~ payload_staged \/ state = "WaitMagic"  BY <1>1 DEF StagingInTime
<1>3. Got => ~ UploadComplete  BY <1>1 DEF StagingInTime, UploadComplete
<1>4. AckStart => tx_left = 0
  BY AnswerStarts DEF AnswerBeforeMagic, UploadTypeOK
<1> QED BY <1>2, <1>3, <1>4 DEF NothingDropped
-----------------------------------------------------------------------------
(* What is received, and where it is kept.                                   *)

(* A prefix of the received bytes grows by the byte received.                *)
LEMMA PayloadGrows ==
    ASSUME NEW s \in Seq(Byte), NEW k \in Nat, k + 3 <= Len(s)
    PROVE  /\ SubSeq(s, 3, k + 2) \in Seq(Byte) /\ s[k + 3] \in Byte
           /\ SubSeq(s, 3, k + 3) = Append(SubSeq(s, 3, k + 2), s[k + 3])
  OBVIOUS

(* What has been received does not change.                                   *)
LEMMA PayloadSettled ==
    ASSUME NEW s \in Seq(Byte), NEW b \in Byte, NEW k \in Nat, k <= Len(s)
    PROVE  SubSeq(Append(s, b), 3, k) = SubSeq(s, 3, k)
  OBVIOUS

(* There is no payload before its first byte.                                *)
LEMMA PayloadEmpty ==
    ASSUME NEW s \in Seq(Byte)
    PROVE  SubSeq(s, 3, 2) = <<>>
  OBVIOUS

(* Appending keeps what was there.                                           *)
LEMMA AppendFacts ==
    ASSUME NEW s \in Seq(Byte), NEW b \in Byte
    PROVE  /\ Append(s, b) \in Seq(Byte) /\ Len(Append(s, b)) = Len(s) + 1
           /\ Append(s, b)[Len(s) + 1] = b
           /\ \A i \in 1 .. Len(s) : Append(s, b)[i] = s[i]
  OBVIOUS

(* What write_addr and bytes_remaining wrap to.                              *)
LEMMA Remainders ==
    ASSUME NEW n \in Nat, n >= 1, NEW x \in 0 .. n - 1
    PROVE  x % n = x /\ (x + n) % n = x
  OBVIOUS

(* What the registers hold of a frame is what has been received of it,       *)
(* after a clock as before it.                                               *)
LEMMA ReceivedStep ==
    ASSUME UploadTypeOK, raw \in Seq(Byte), StagingInTime, ReceivedKept,
           UploaderClock(t_index, FALSE), RecordRaw
    PROVE  ReceivedKept'
<1> DEFINE b == rx.byte
<1>1. /\ rx \in Report /\ state \in UploadState /\ state' = NextState
      /\ bytes_remaining \in Nat /\ write_addr \in Addr /\ payload_staged \in BOOLEAN
      /\ Len(raw) \in Nat
  BY Constants DEF UploadTypeOK, UploaderTypeOK, UploaderClock
<1>2. /\ Got => b \in Byte /\ rx # NoReport /\ rx.kind # "Error"
      /\ \A i \in 1 .. Len(raw) : raw[i] \in Byte
      /\ \A x \in Byte : x \in Nat /\ x < ByteMod
  BY <1>1, ReportKinds, Constants DEF Byte
<1>3. CASE state = "WaitMagic"
  <2>1. CASE MagicMatch
    <3>1. state' = "Length0"
      BY <1>3, <2>1, <1>1
      DEF NextState, StartSuccessAck, ChecksumMatch, StartFailAck, InProtocol, Overrun,
          OversizeLength
    <3>2. raw' = <<>> /\ checksum' = 0 /\ write_addr' = 0
      BY <2>1 DEF RecordRaw, UploaderClock, FirstAddr
    <3> QED BY <3>1, <3>2 DEF ReceivedKept, RunningIsVerified
  <2>2. CASE ~ MagicMatch
    <3>1. state' = "WaitMagic"
      BY <1>3, <2>2, <1>1
      DEF NextState, StartSuccessAck, ChecksumMatch, StartFailAck, InProtocol, Overrun,
          OversizeLength, UploadComplete
    <3> QED BY <3>1 DEF ReceivedKept, RunningIsVerified
  <2> QED BY <2>1, <2>2
<1>4. CASE state = "Length0"
  <2>0. ~ MagicMatch /\ ~ WriteSlot(t_index) /\ ~ OversizeLength /\ ~ Overrun
        /\ ~ UploadComplete /\ ~ StartSuccessAck
    BY <1>4 DEF MagicMatch, WriteSlot, OversizeLength, Overrun, UploadComplete,
                StartSuccessAck, ChecksumMatch
  <2>1. checksum' = 0 /\ write_addr' = 0 /\ raw = <<>>
    BY <1>4, <2>0 DEF ReceivedKept, UploaderClock
  <2>2. CASE Got
    <3>1. state' = "Length1"
      BY <1>4, <2>2, <2>0, <1>1, <1>2 DEF NextState, StartFailAck
    <3>2. raw' = <<b>>
      BY <1>4, <2>0, <2>1, <2>2 DEF RecordRaw, InProtocol
    <3>3. bytes_remaining' = b  BY <1>4, <2>0, <2>2 DEF UploaderClock, NextRemaining
    <3>4. Len(raw') = 1 /\ bytes_remaining' = raw'[1]  BY <3>2, <3>3
    <3> QED BY <3>1, <3>4, <2>1 DEF ReceivedKept, RunningIsVerified
  <2>3. CASE ~ Got
    <3>1. state' \in {"WaitMagic", "Length0"}
      BY <1>4, <2>3, <2>0, <1>1 DEF NextState
    <3>2. raw' = <<>>  BY <2>0, <2>1, <2>3 DEF RecordRaw
    <3> QED BY <3>1, <3>2, <2>1 DEF ReceivedKept, RunningIsVerified
  <2> QED BY <2>2, <2>3
<1>5. CASE state = "Length1"
  <2>0. /\ ~ MagicMatch /\ ~ WriteSlot(t_index) /\ ~ Overrun
        /\ ~ UploadComplete /\ ~ StartSuccessAck /\ ~ StageNow /\ ~ payload_staged
    BY <1>5 DEF MagicMatch, WriteSlot, Overrun, UploadComplete, StageNow,
                StartSuccessAck, ChecksumMatch, StagingInTime
  <2>1. /\ checksum' = 0 /\ write_addr' = 0 /\ Len(raw) = 1 /\ bytes_remaining = raw[1]
        /\ ~ payload_staged'
    BY <1>5, <2>0, StagedMoves DEF ReceivedKept, UploaderClock
  <2>2. CASE Got /\ CandidateLength <= MaxLength
    <3>0. raw' = Append(raw, b)
      BY <1>5, <2>0, <2>2 DEF RecordRaw, InProtocol
    <3>1. Len(raw') = 2 /\ raw'[1] = raw[1] /\ raw'[2] = b /\ raw' \in Seq(Byte)
      <4> HIDE DEF b
      <4>1. b \in Byte  BY <2>2, <1>2
      <4>2. /\ raw' \in Seq(Byte) /\ Len(raw') = Len(raw) + 1 /\ raw'[Len(raw) + 1] = b
            /\ \A i \in 1 .. Len(raw) : raw'[i] = raw[i]
        BY <4>1, <3>0, AppendFacts
      <4> QED BY <4>2, <2>1
    <3>2. bytes_remaining' = CandidateLength
      BY <1>5, <2>0, <2>2 DEF UploaderClock, NextRemaining
    <3>3. raw[1] \in Byte /\ raw[1] % ByteMod = raw[1]
      <4>1. raw[1] \in Byte  BY <2>1, <1>2
      <4>2. raw[1] \in 0 .. ByteMod - 1  BY <4>1 DEF Byte
      <4>3. ByteMod \in Nat /\ ByteMod >= 1  BY Constants
      <4> QED BY <4>1, <4>2, <4>3, Remainders
    <3>4. CandidateLength = b * ByteMod + raw[1]  BY <2>1, <3>3 DEF CandidateLength
    <3>5. CandidateLength \in Nat /\ ByteMod * b = b * ByteMod
      <4>1. b \in Nat /\ raw[1] \in Nat /\ ByteMod \in Nat  BY <3>3, <1>2, <2>2, Constants
      <4>2. b * ByteMod \in Nat /\ ByteMod * b = b * ByteMod
        <5> HIDE DEF b
        <5> QED BY <4>1
      <4> QED BY <4>1, <4>2, <3>4
    <3>6. (raw[1] + ByteMod * b) = CandidateLength
      <4>1. b * ByteMod \in Nat /\ raw[1] \in Nat  BY <1>2, <2>2, <3>3, Constants
      <4> QED BY <3>4, <3>5, <4>1
    <3>7. Announced' = CandidateLength  BY <3>1, <3>6 DEF Announced
    <3>8. Written' = 0  BY <3>2, <3>5, <3>7 DEF Written
    <3>9. 0 % MaxLength = 0  BY Constants
    <3>10. SubSeq(raw', 3, Written' + 2) = <<>>  BY <3>1, <3>8, PayloadEmpty
    <3>11. Stored(Written)'  BY <3>8 DEF Stored
    <3>12. PayloadKept'
      <4>1. Len(raw') >= 2 /\ Announced' <= MaxLength /\ bytes_remaining' <= Announced'
        BY <3>1, <3>2, <3>5, <3>7, <2>2
      <4>2. Len(raw') = Written' + 2 /\ write_addr' = Written' % MaxLength
        BY <3>1, <3>8, <3>9, <2>1
      <4>3. checksum' = XorAll(SubSeq(raw', 3, Written' + 2))
        BY <3>10, <2>1, XorAllEmpty
      <4> QED BY <4>1, <4>2, <4>3, <3>11, <2>1 DEF PayloadKept
    <3>13. state' \in {"WaitMagic", "Payload", "Checksum"}
      BY <1>5, <2>0, <2>2, <1>1 DEF NextState
    <3>14. state' = "Checksum" => bytes_remaining' = 0
      BY <1>5, <2>0, <2>2, <3>2, <1>1 DEF NextState
    <3> QED BY <3>12, <3>13, <3>14 DEF ReceivedKept, RunningIsVerified
  <2>3. CASE Got /\ ~ (CandidateLength <= MaxLength)
    <3>1. state' \in {"WaitMagic", "Payload", "Checksum"}
      BY <1>5, <2>0, <2>3, <1>1 DEF NextState
    <3>2. state' = "WaitMagic"
      <4>1. state' = "Payload" => CandidateLength <= MaxLength  BY <1>5, StateMoves
      <4>2. state' = "Checksum" => CandidateLength = 0
        BY <1>5, <2>0, <2>3, <1>1 DEF NextState
      <4> QED BY <3>1, <4>1, <4>2, <2>3, Constants
    <3> QED BY <3>2 DEF ReceivedKept, RunningIsVerified
  <2>4. CASE ~ Got
    <3>1. state' \in {"WaitMagic", "Length1"}
      BY <1>5, <2>4, <2>0, <1>1 DEF NextState
    <3>2. raw' = raw  BY <2>0, <2>4 DEF RecordRaw
    <3>3. bytes_remaining' = bytes_remaining
      BY <1>5, <2>0, <2>4 DEF UploaderClock, NextRemaining
    <3> QED BY <3>1, <3>2, <3>3, <2>1 DEF ReceivedKept, RunningIsVerified
  <2> QED BY <2>2, <2>3, <2>4
<1>6. CASE state = "Payload"
  <2>0. ~ MagicMatch /\ ~ StartSuccessAck /\ ~ OversizeLength /\ PayloadKept
    BY <1>6 DEF MagicMatch, StartSuccessAck, ChecksumMatch, OversizeLength, ReceivedKept
  <2>1. /\ Announced \in Nat /\ Written \in Nat /\ Announced <= MaxLength
        /\ Written = Announced - bytes_remaining
        /\ payload_staged => bytes_remaining >= 1
    <3>1. raw[1] \in Byte /\ raw[2] \in Byte  BY <2>0, <1>1, <1>2 DEF PayloadKept
    <3>2. ByteMod * raw[2] \in Nat /\ raw[1] \in Nat  BY <3>1, <1>2, Constants
    <3>3. Announced \in Nat  BY <3>2 DEF Announced
    <3>4. bytes_remaining <= Announced /\ Announced <= MaxLength  BY <2>0 DEF PayloadKept
    <3> QED BY <3>3, <3>4, <1>1, <1>6 DEF Written, StagingInTime
  <2>2. state' = "WaitMagic" => ReceivedKept'
    BY DEF ReceivedKept, RunningIsVerified
  <2>3. CASE Got
    <3>1. ~ payload_staged /\ bytes_remaining >= 1
      BY <1>1, <1>2, <1>6, <2>3 DEF StagingInTime
    <3>2. StageNow /\ ~ WriteSlot(t_index) /\ ~ UploadComplete
      BY <3>1, <1>1, <1>6, <2>3 DEF StageNow, WriteSlot, UploadComplete
    <3>3. /\ raw' = Append(raw, b) /\ staged_payload' = b /\ checksum' = checksum
          /\ write_addr' = write_addr /\ mem' = mem /\ bytes_remaining' = bytes_remaining
      BY <3>2, <1>6, <2>0, <2>3 DEF RecordRaw, InProtocol, UploaderClock, NextRemaining
    <3>4. state' \in {"WaitMagic", "Payload"}
      BY <3>2, <1>1, <1>6, <2>0 DEF NextState
    <3>5. SUFFICES ASSUME state' = "Payload" PROVE PayloadKept'
      BY <3>4 DEF ReceivedKept, RunningIsVerified
    <3>6. payload_staged' = TRUE
      BY <3>2, <3>4, <3>5, <1>1, <2>0
      DEF UploaderClock, NextStaged, NextState
    <3>7. Len(raw) >= 2 /\ Len(raw) = Written + 2  BY <2>0, <3>1 DEF PayloadKept
    <3>8. /\ Len(raw') = Len(raw) + 1 /\ raw' \in Seq(Byte) /\ raw'[Len(raw')] = b
          /\ \A i \in 1 .. Len(raw) : raw'[i] = raw[i]
      BY <3>3, <1>2, <2>3
    <3>9. Announced' = Announced /\ Written' = Written
      BY <3>3, <3>7, <3>8, <1>1 DEF Announced, Written
    <3>10. SubSeq(raw', 3, Written + 2) = SubSeq(raw, 3, Written + 2)
      BY <3>3, <3>7, <1>2, <2>1, <2>3, PayloadSettled
    <3>11. Stored(Written)'
      <4>1. \A i \in 1 .. Written : raw'[i + 2] = raw[i + 2]  BY <3>7, <3>8, <2>1
      <4>2. Stored(Written)  BY <2>0 DEF PayloadKept
      <4> QED BY <4>1, <4>2, <3>3, <3>9 DEF Stored
    <3>12. Len(raw') = Written' + 3 /\ Len(raw') >= 2
      BY <3>7, <3>8, <3>9, <1>1, <2>1
    <3> QED
      BY <3>3, <3>6, <3>8, <3>9, <3>10, <3>11, <3>12, <2>0 DEF PayloadKept
  <2>4. CASE ~ Got
    <3>1. raw' = raw /\ ~ StageNow /\ staged_payload' = staged_payload
      BY <2>0, <2>4 DEF RecordRaw, StageNow, UploaderClock
    <3>2. Announced' = Announced  BY <3>1 DEF Announced
    <3>3. CASE WriteSlot(t_index)
      <4>1. payload_staged /\ bytes_remaining >= 1 /\ ~ UploadComplete
        BY <3>3, <2>1 DEF WriteSlot, UploadComplete
      <4>2. state' \in {"WaitMagic", "Payload"}
        BY <4>1, <1>1, <1>6, <2>0 DEF NextState
      <4>3. payload_staged' = FALSE
        BY <3>1, <3>3, <2>0 DEF UploaderClock, NextStaged
      <4>4. bytes_remaining' = bytes_remaining - 1
        <5> DEFINE B == ByteMod * ByteMod
        <5>1. bytes_remaining' = (bytes_remaining + B - 1) % B
          BY <3>3, <1>6, <2>0 DEF UploaderClock, NextRemaining
        <5>2. bytes_remaining - 1 \in 0 .. B - 1 /\ B \in Nat /\ B >= 4
          BY <4>1, Constants DEF UploadTypeOK, UploaderTypeOK
        <5> HIDE DEF B
        <5>3. bytes_remaining + B - 1 = (bytes_remaining - 1) + B  BY <5>2, <1>1
        <5>4. (bytes_remaining + B - 1) % B = bytes_remaining - 1
          BY <5>2, <5>3, Remainders
        <5> QED BY <5>1, <5>4
      <4>5. Written' = Written + 1
        BY <3>2, <4>4, <1>1, <2>1 DEF Written
      <4>6. /\ Len(raw) = Written + 3 /\ staged_payload = raw[Written + 3]
            /\ write_addr = Written % MaxLength
        BY <2>0, <4>1 DEF PayloadKept
      <4>7. Written < MaxLength /\ write_addr = Written
        <5>1. Written < MaxLength  BY <2>1, <4>1, <1>1, Constants
        <5>2. Written % MaxLength = Written  BY <5>1, <2>1, Constants
        <5> QED BY <5>1, <5>2, <4>6
      <4>8. write_addr' = Written' % MaxLength
        BY <3>3, <2>0, <4>5, <4>7 DEF UploaderClock, AddrAfter
      <4>9. checksum' = Xor(checksum, raw[Written + 3])
        BY <3>3, <2>0, <4>6 DEF UploaderClock
      <4>10. /\ SubSeq(raw, 3, Written + 2) \in Seq(Byte) /\ raw[Written + 3] \in Byte
             /\ SubSeq(raw, 3, Written + 3)
                  = Append(SubSeq(raw, 3, Written + 2), raw[Written + 3])
        BY <4>6, <2>1, PayloadGrows
      <4>11. checksum = XorAll(SubSeq(raw, 3, Written + 2))  BY <2>0 DEF PayloadKept
      <4>12. checksum' = XorAll(SubSeq(raw, 3, Written + 3))
        BY <4>9, <4>10, <4>11, XorAllAppend
      <4>13. (Written + 1) + 2 = Written + 3 /\ (Written + 1) \in Nat  BY <2>1
      <4>14. checksum' = XorAll(SubSeq(raw', 3, Written' + 2))
        BY <4>12, <4>13, <4>5, <3>1
      <4>15. mem' = [mem EXCEPT ![Written] = raw[Written + 3]]
        BY <3>3, <4>6, <4>7 DEF UploaderClock
      <4>16. Stored(Written)'
        <5> SUFFICES ASSUME NEW i \in 1 .. Written + 1 PROVE mem'[i - 1] = raw[i + 2]
          BY <4>5, <3>1 DEF Stored
        <5>1. mem \in [Addr -> Byte \cup {Undefined}] /\ i - 1 \in Addr
          BY <4>7, <2>1, Constants DEF UploadTypeOK, UploaderTypeOK, Addr
        <5>2. CASE i = Written + 1
          <6>1. i - 1 = Written /\ i + 2 = Written + 3  BY <5>2, <2>1
          <6> QED BY <6>1, <5>1, <4>15
        <5>3. CASE i # Written + 1
          <6>1. i \in 1 .. Written /\ i - 1 # Written  BY <5>3, <2>1
          <6>2. mem[i - 1] = raw[i + 2]  BY <6>1, <2>0 DEF PayloadKept, Stored
          <6> QED BY <6>1, <6>2, <5>1, <4>15
        <5> QED BY <5>2, <5>3
      <4>17. /\ Len(raw') >= 2 /\ Announced' <= MaxLength /\ bytes_remaining' <= Announced'
             /\ Len(raw') = Written' + 2
        BY <3>1, <3>2, <4>4, <4>5, <4>6, <1>1, <2>0, <2>1 DEF PayloadKept
      <4>18. PayloadKept'
        BY <4>3, <4>8, <4>14, <4>16, <4>17 DEF PayloadKept
      <4> QED BY <4>2, <4>18 DEF ReceivedKept, RunningIsVerified
    <3>4. CASE ~ WriteSlot(t_index)
      <4>1. /\ checksum' = checksum /\ write_addr' = write_addr /\ mem' = mem
            /\ bytes_remaining' = bytes_remaining
        BY <3>4, <1>6, <2>0, <2>4 DEF UploaderClock, NextRemaining
      <4>2. Written' = Written  BY <4>1, <3>2 DEF Written
      <4>3. state' \in {"WaitMagic", "Payload"} \/ (state' = "Checksum" /\ UploadComplete)
        BY <1>1, <1>6, <2>0, <2>4 DEF NextState
      <4>4. SUFFICES ASSUME state' \in {"Payload", "Checksum"}
                     PROVE  PayloadKept' /\ (state' = "Checksum" => bytes_remaining' = 0)
        BY <4>3 DEF ReceivedKept, RunningIsVerified
      <4>5. state' = "Checksum" => bytes_remaining' = 0
        BY <4>1, <4>3 DEF UploadComplete
      <4>6. payload_staged' = payload_staged
        <5>1. ~ StartFailAck  BY <4>4, <1>1, <2>0 DEF NextState
        <5>2. payload_staged' = (StageNow \/ (payload_staged /\ ~ WriteSlot(t_index)))
          BY <5>1, <2>0 DEF UploaderClock, NextStaged
        <5> QED BY <5>2, <3>1, <3>4, <1>1
      <4>7. Stored(Written)'
        BY <4>1, <4>2, <3>1, <2>0 DEF Stored, PayloadKept
      <4>8. PayloadKept'
        BY <4>1, <4>2, <4>6, <4>7, <3>1, <3>2, <2>0 DEF PayloadKept
      <4> QED BY <4>5, <4>8
    <3> QED BY <3>3, <3>4
  <2> QED BY <2>3, <2>4
<1>7. CASE state = "Checksum"
  <2>0. /\ ~ MagicMatch /\ ~ WriteSlot(t_index) /\ ~ StageNow /\ ~ payload_staged
        /\ ~ UploadComplete /\ ~ OversizeLength /\ ~ Overrun
        /\ PayloadKept /\ bytes_remaining = 0
    BY <1>7 DEF MagicMatch, WriteSlot, StageNow, StagingInTime, ReceivedKept, UploadComplete,
                OversizeLength, Overrun
  <2>1. /\ checksum' = checksum /\ write_addr' = write_addr /\ mem' = mem
        /\ bytes_remaining' = 0 /\ ~ payload_staged'
    BY <2>0, <1>7, StagedMoves DEF UploaderClock, NextRemaining
  <2>2. Announced \in Nat /\ Written = Announced /\ Len(raw) = Announced + 2
    <3>1. Len(raw) >= 2 /\ Len(raw) = Written + 2  BY <2>0 DEF PayloadKept
    <3>2. raw[1] \in Byte /\ raw[2] \in Byte  BY <3>1, <1>1, <1>2
    <3>3. ByteMod * raw[2] \in Nat /\ raw[1] \in Nat  BY <3>2, <1>2, Constants
    <3>4. Announced \in Nat  BY <3>3 DEF Announced
    <3> QED BY <3>1, <3>4, <2>0 DEF Written
  <2>3. CASE Got
    <3>1. state' \in {"WaitMagic", "Running"} /\ (state' = "Running" => ChecksumMatch)
      BY <1>7, <2>3, <1>1, <1>2, <2>0 DEF NextState, StartSuccessAck, StartFailAck
    <3>2. SUFFICES ASSUME state' = "Running" PROVE RunningIsVerified'
      BY <3>1 DEF ReceivedKept, RunningIsVerified
    <3>3. b = checksum  BY <3>1, <3>2 DEF ChecksumMatch
    <3>4. raw' = Append(raw, b)  BY <1>7, <2>0, <2>3 DEF RecordRaw, InProtocol
    <3>5. /\ Len(raw') = Announced + 3 /\ raw' \in Seq(Byte) /\ raw'[Announced + 3] = b
          /\ \A i \in 1 .. Announced + 2 : raw'[i] = raw[i]
      BY <3>4, <1>2, <2>2, <2>3
    <3>6. raw'[1] + ByteMod * raw'[2] = Announced
      BY <3>5, <2>2 DEF Announced
    <3> DEFINE p == SubSeq(raw, 3, Announced + 2)
    <3>7. SubSeq(raw', 3, Announced + 2) = p
      BY <3>4, <1>2, <2>2, <2>3, PayloadSettled
    <3>8. XorAll(p) = raw'[Announced + 3]
      BY <3>3, <3>5, <2>0, <2>2 DEF PayloadKept
    <3>9. \A i \in 1 .. Announced : mem'[i - 1] = p[i]
      <4> SUFFICES ASSUME NEW i \in 1 .. Announced PROVE mem'[i - 1] = p[i]
        OBVIOUS
      <4>1. mem[i - 1] = raw[i + 2]  BY <2>0, <2>2 DEF PayloadKept, Stored
      <4>2. p[i] = raw[i + 2]  BY <2>2
      <4> QED BY <4>1, <4>2, <2>1
    <3> HIDE DEF p
    <3> QED BY <3>5, <3>6, <3>7, <3>8, <3>9 DEF RunningIsVerified
  <2>4. CASE ~ Got
    <3>1. raw' = raw  BY <2>0, <2>4 DEF RecordRaw
    <3>2. state' \in {"WaitMagic", "Checksum"}
      BY <1>7, <2>4, <1>1, <2>0 DEF NextState, StartSuccessAck, ChecksumMatch
    <3>3. Announced' = Announced /\ Written' = Written
      BY <3>1, <2>0, <2>1 DEF Announced, Written
    <3>4. Stored(Written)'  BY <3>1, <3>3, <2>0, <2>1 DEF Stored, PayloadKept
    <3>5. PayloadKept'  BY <3>1, <3>3, <3>4, <2>0, <2>1 DEF PayloadKept
    <3> QED BY <3>2, <3>5, <2>1 DEF ReceivedKept, RunningIsVerified
  <2> QED BY <2>3, <2>4
<1>8. CASE state = "Running"
  <2>1. /\ ~ MagicMatch /\ ~ InProtocol /\ ~ WriteSlot(t_index) /\ ~ StartSuccessAck
        /\ ~ StartFailAck /\ ~ UploadComplete
    BY <1>8 DEF MagicMatch, InProtocol, WriteSlot, StartSuccessAck, ChecksumMatch,
                StartFailAck, Overrun, OversizeLength, UploadComplete
  <2>2. raw' = raw /\ mem' = mem  BY <2>1 DEF RecordRaw, UploaderClock
  <2>3. state' = "Running"  BY <2>1, <1>1, <1>8 DEF NextState
  <2>4. RunningIsVerified'  BY <2>2, <1>8 DEF ReceivedKept, RunningIsVerified
  <2> QED BY <2>3, <2>4 DEF ReceivedKept
<1> QED BY <1>1, <1>3, <1>4, <1>5, <1>6, <1>7, <1>8 DEF UploadState

-----------------------------------------------------------------------------
(* The board as a whole.                                                     *)

BoardKept == StagingInTime /\ AnswerBeforeMagic /\ ReceivedKept
boardVars == <<uploaderVars, t_index, tx_left, tx_byte, gap, raw>>

BoardTypeOK ==
    /\ UploaderTypeOK /\ t_index \in 0 .. 3 /\ tx_left \in 0 .. TxTime
    /\ tx_byte \in {"A", "N"} /\ gap \in 1 .. MinGap /\ inbox \in {"-", "A", "N"}
    /\ raw \in Seq(Byte)

(* One clock of the board, with or without a report, keeps the invariant     *)
(* of the board.                                                             *)
LEMMA ClockKeepsBoard ==
    ASSUME UploadTypeOK, raw \in Seq(Byte), BoardKept, NEW report \in Report, BoardMoves(report)
    PROVE  BoardTypeOK' /\ BoardKept'
<1>1. /\ UploaderClock(t_index, FALSE) /\ RecordRaw /\ Transmit /\ Answer /\ rx' = report
      /\ UploaderTypeOK /\ t_index \in 0 .. 3
  BY DEF BoardMoves, BoardClock, UploadTypeOK
<1>2. UploaderTypeOK' /\ raw' \in Seq(Byte)  BY <1>1, RegistersTyped
<1>3. gap' \in 1 .. MinGap /\ t_index' \in 0 .. 3  BY GapMoves
<1>4. tx_left' \in 0 .. TxTime /\ tx_byte' \in {"A", "N"} /\ inbox' \in {"-", "A", "N"}
  <2>1. tx_left \in 0 .. TxTime /\ tx_byte \in {"A", "N"} /\ inbox \in {"-", "A", "N"}
    BY DEF UploadTypeOK
  <2>2. tx_left' \in 0 .. TxTime  BY <2>1, <1>1, Constants DEF Transmit
  <2>3. tx_byte' \in {"A", "N"}  BY <2>1, <1>1 DEF Transmit
  <2>4. inbox' \in {"-", "A", "N"}  BY <2>1, <1>1 DEF Answer
  <2> QED BY <2>2, <2>3, <2>4
<1>5. StagingInTime' /\ AnswerBeforeMagic'  BY StagingStep, AnswerStep DEF BoardKept
<1>6. ReceivedKept'  BY <1>1, ReceivedStep DEF BoardKept
<1> QED BY <1>2, <1>3, <1>4, <1>5, <1>6 DEF BoardTypeOK, BoardKept

(* So does the reset button (icebreaker_uart_rom_reset).                     *)
LEMMA ResetKeepsBoard ==
    ASSUME UploadTypeOK, raw \in Seq(Byte), BoardKept, PressReset
    PROVE  BoardTypeOK' /\ BoardKept'
<1>1. /\ UploaderClock(t_index, TRUE) /\ RecordRaw /\ rx' = NoReport /\ tx_left' = 0
      /\ UploaderTypeOK /\ t_index \in 0 .. 3
  BY DEF PressReset, UploadTypeOK
<1>2. rx' \in Report  BY <1>1, Reports
<1>3. UploaderTypeOK' /\ raw' \in Seq(Byte)  BY <1>1, <1>2, RegistersTyped
<1>4. gap' \in 1 .. MinGap /\ t_index' \in 0 .. 3
  BY Constants DEF PressReset, UploadTypeOK
<1>5. tx_left' \in 0 .. TxTime /\ tx_byte' \in {"A", "N"} /\ inbox' \in {"-", "A", "N"}
  BY Constants DEF PressReset, UploadTypeOK
<1>6. state' = "WaitMagic"  BY <1>1 DEF UploaderClock
<1>7. BoardKept'
  BY <1>1, <1>6
  DEF BoardKept, StagingInTime, AnswerBeforeMagic, ReceivedKept, RunningIsVerified
<1> QED BY <1>3, <1>4, <1>5, <1>7 DEF BoardTypeOK

(* What a step does to the board.                                            *)
LEMMA BoardActions ==
    ASSUME UploadTypeOK, HistoryTypeOK, UploadNext
    PROVE  \/ \E report \in Report : BoardMoves(report)
           \/ PressReset
           \/ UNCHANGED boardVars /\ inbox' \in {inbox, "-"}
<1>1. CASE QuietClock  BY <1>1, Reports DEF QuietClock, BoardMoves
<1>2. CASE PressReset  BY <1>2
<1>3. CASE HostStart  BY <1>3 DEF HostStart, boardVars
<1>4. CASE DeliverByte
  <2>1. Frame(rom)[pos] \in Byte
    BY <1>4, FrameShape DEF DeliverByte, SendNext, UploadTypeOK, HistoryTypeOK
  <2> QED BY <2>1, <1>4, Reports DEF DeliverByte, SendNext, BoardMoves
<1>5. CASE BreakStopBit
  BY <1>5, Reports DEF BreakStopBit, LineFault, SendNext, BoardMoves
<1>6. CASE CorruptByte
  BY <1>6, Reports DEF CorruptByte, LineFault, SendNext, BoardMoves
<1>7. CASE LoseByte
  BY <1>7, Reports DEF LoseByte, LineFault, SendNext, BoardMoves
<1>8. CASE HostRead  BY <1>8 DEF HostRead, boardVars
<1>9. CASE HostSwap  BY <1>9 DEF HostSwap, boardVars
<1>10. CASE HostTimeout  BY <1>10 DEF HostTimeout, boardVars
<1>11. CASE HostAbort  BY <1>11 DEF HostAbort, boardVars
<1> QED
  BY <1>1, <1>2, <1>3, <1>4, <1>5, <1>6, <1>7, <1>8, <1>9, <1>10, <1>11 DEF UploadNext

(* A step that leaves the registers alone leaves what is said of them.       *)
LEMMA BoardStays ==
    ASSUME UNCHANGED boardVars
    PROVE  /\ BoardKept => BoardKept'
           /\ BoardTypeOK /\ inbox' \in {inbox, "-"} => BoardTypeOK'
  BY DEF boardVars, uploaderVars, BoardKept, StagingInTime, AnswerBeforeMagic, ReceivedKept,
         RunningIsVerified, AnswerTime, OldMagic, InProtocol, PayloadKept, Written, Announced,
         Stored, BoardTypeOK, UploaderTypeOK

BoardInv == UploadTypeOK /\ HistoryTypeOK /\ BoardKept

(* The board powers up in its invariant.                                     *)
LEMMA BoardInitially ==
    ASSUME UploadInit
    PROVE  BoardInv
<1>1. /\ rx = NoReport /\ state = "WaitMagic" /\ payload_staged = FALSE /\ tx_left = 0
      /\ host = "Ready" /\ rom \in Roms /\ pos = 1
  BY DEF UploadInit, UploaderInit
<1>2. UploaderTypeOK
  <2>1. magic_window \in Seq(Byte) /\ Len(magic_window) = Len(Magic)
    BY Constants DEF UploadInit, UploaderInit
  <2>2. mem \in [Addr -> Byte \cup {Undefined}]  BY DEF UploadInit, UploaderInit
  <2>3. checksum \in Byte /\ write_addr \in Addr /\ staged_payload \in Byte
    BY Constants DEF UploadInit, UploaderInit
  <2>4. bytes_remaining \in 0 .. ByteMod * ByteMod - 1
    BY Constants DEF UploadInit, UploaderInit
  <2> QED
    BY <1>1, <2>1, <2>2, <2>3, <2>4, Reports DEF UploaderTypeOK, UploadState
<1>3. UploadTypeOK
  <2>1. pos \in 1 .. Len(Frame(rom)) + 1  BY <1>1, FrameShape, Constants
  <2>2. gap \in 1 .. MinGap /\ tx_left \in 0 .. TxTime /\ faults \in 0 .. MaxFaults
    BY Constants DEF UploadInit
  <2>3. t_index \in 0 .. 3 /\ tx_byte \in {"A", "N"} /\ inbox \in {"-", "A", "N"}
    BY DEF UploadInit
  <2> QED BY <1>1, <1>2, <2>1, <2>2, <2>3 DEF UploadTypeOK
<1>4. HistoryTypeOK  BY <1>1 DEF UploadInit, HistoryTypeOK
<1>5. BoardKept
  BY <1>1 DEF BoardKept, StagingInTime, AnswerBeforeMagic, ReceivedKept, RunningIsVerified
<1> QED BY <1>3, <1>4, <1>5 DEF BoardInv

(* Every step of host, line and board keeps the invariant of the board.      *)
LEMMA BoardStep ==
    ASSUME BoardInv, [UploadNext]_uploadVars
    PROVE  BoardInv'
<1>1. UploadTypeOK /\ HistoryTypeOK /\ BoardKept /\ raw \in Seq(Byte) /\ BoardTypeOK
  BY DEF BoardInv, HistoryTypeOK, UploadTypeOK, BoardTypeOK
<1>2. BoardTypeOK' /\ BoardKept'
  <2>1. CASE \E report \in Report : BoardMoves(report)  BY <1>1, <2>1, ClockKeepsBoard
  <2>2. CASE PressReset  BY <1>1, <2>2, ResetKeepsBoard
  <2>3. CASE UNCHANGED boardVars /\ inbox' \in {inbox, "-"}  BY <1>1, <2>3, BoardStays
  <2>4. CASE UNCHANGED uploadVars
    <3>1. UNCHANGED boardVars /\ inbox' = inbox
      BY <2>4 DEF uploadVars, uploaderVars, boardVars
    <3> QED BY <3>1, <1>1, BoardStays
  <2> QED BY <1>1, <2>1, <2>2, <2>3, <2>4, BoardActions
<1>3. /\ rom' \in Roms /\ host' \in {"Ready", "Sending", "Waiting", "Ok"}
      /\ pos' \in 1 .. Len(Frame(rom')) + 1 /\ faults' \in 0 .. MaxFaults
      /\ trusted' \in BOOLEAN /\ hurt' \in Nat
      /\ host' = "Sending" => pos' <= Len(Frame(rom'))
  <2> DEFINE n == Len(Frame(rom))
  <2>0. /\ rom \in Roms /\ host \in {"Ready", "Sending", "Waiting", "Ok"}
        /\ pos \in 1 .. n + 1 /\ faults \in 0 .. MaxFaults /\ MaxFaults \in Nat
        /\ trusted \in BOOLEAN /\ hurt \in Nat /\ (host = "Sending" => pos <= n)
        /\ n \in Nat /\ n >= 1
    <3>1. n \in Nat /\ n >= 1 /\ MaxFaults \in Nat
      BY <1>1, FrameShape, Constants DEF UploadTypeOK
    <3> QED BY <1>1, <3>1 DEF UploadTypeOK, HistoryTypeOK
  <2>1. ASSUME SendNext
        PROVE  /\ rom' = rom /\ pos' = pos + 1 /\ pos <= n
               /\ host' \in {"Sending", "Waiting"} /\ (host' = "Sending" => pos # n)
    BY <2>0, <2>1 DEF SendNext
  <2>2. ASSUME SendNext
        PROVE  /\ rom' \in Roms /\ host' \in {"Ready", "Sending", "Waiting", "Ok"}
               /\ pos' \in 1 .. Len(Frame(rom')) + 1
               /\ host' = "Sending" => pos' <= Len(Frame(rom'))
    <3> HIDE DEF n
    <3>1. pos' \in 1 .. n + 1 /\ (host' = "Sending" => pos' <= n)  BY <2>0, <2>1, <2>2
    <3> QED BY <3>1, <2>0, <2>1, <2>2 DEF n
  <2>3. CASE QuietClock  BY <2>0, <2>3 DEF QuietClock
  <2>4. CASE PressReset  BY <2>0, <2>4 DEF PressReset
  <2>5. CASE HostStart  BY <2>0, <2>5 DEF HostStart
  <2>6. CASE DeliverByte  BY <2>0, <2>2, <2>6 DEF DeliverByte
  <2>7. CASE BreakStopBit
    <3>1. trusted' \in BOOLEAN  BY <2>7 DEF BreakStopBit
    <3> QED BY <2>0, <2>2, <2>7, <3>1 DEF BreakStopBit, LineFault
  <2>8. CASE CorruptByte
    <3>1. trusted' \in BOOLEAN  BY <2>8 DEF CorruptByte
    <3> QED BY <2>0, <2>2, <2>8, <3>1 DEF CorruptByte, LineFault
  <2>9. CASE LoseByte
    <3>1. trusted' \in BOOLEAN  BY <2>9 DEF LoseByte
    <3> QED BY <2>0, <2>2, <2>9, <3>1 DEF LoseByte, LineFault
  <2>10. CASE HostRead  BY <2>0, <2>10 DEF HostRead
  <2>11. CASE HostSwap
    <3>1. Len(Frame(rom')) \in Nat
      BY <2>11, FrameShape, Constants DEF HostSwap
    <3> QED BY <2>0, <2>11, <3>1 DEF HostSwap
  <2>12. CASE HostTimeout  BY <2>0, <2>12 DEF HostTimeout
  <2>13. CASE HostAbort
    <3>1. trusted' \in BOOLEAN  BY <2>13 DEF HostAbort
    <3> QED BY <2>0, <2>13, <3>1 DEF HostAbort
  <2>14. CASE UNCHANGED uploadVars  BY <2>0, <2>14 DEF uploadVars
  <2> QED
    BY <2>3, <2>4, <2>5, <2>6, <2>7, <2>8, <2>9, <2>10, <2>11, <2>12, <2>13, <2>14
    DEF UploadNext
<1> QED BY <1>2, <1>3 DEF BoardInv, BoardTypeOK, UploadTypeOK, HistoryTypeOK

(* The registers keep their ranges.                                          *)
THEOREM TypesKept == UploadSpec => []UploadTypeOK
<1>1. UploadInit => BoardInv  BY BoardInitially
<1>2. BoardInv /\ [UploadNext]_uploadVars => BoardInv'  BY BoardStep
<1>3. BoardInv => UploadTypeOK  BY DEF BoardInv
<1> QED BY <1>1, <1>2, <1>3, PTL DEF UploadSpec

(* One staging register, no queue and no timeout are enough                  *)
(* (rom_uploader_core, uart_tx): NothingDropped.                             *)
THEOREM OneRegisterIsEnough == UploadSpec => []NothingDropped
<1>1. UploadInit => BoardInv  BY BoardInitially
<1>2. BoardInv /\ [UploadNext]_uploadVars => BoardInv'  BY BoardStep
<1>3. BoardInv => NothingDropped  BY RoomForReport DEF BoardInv, BoardKept
<1> QED BY <1>1, <1>2, <1>3, PTL DEF UploadSpec

(* The core runs only on an image that has been checked.                     *)
THEOREM RunsVerifiedImages == UploadSpec => []RunningIsVerified
<1>1. UploadInit => BoardInv  BY BoardInitially
<1>2. BoardInv /\ [UploadNext]_uploadVars => BoardInv'  BY BoardStep
<1>3. BoardInv => RunningIsVerified  BY DEF BoardInv, BoardKept, ReceivedKept
<1> QED BY <1>1, <1>2, <1>3, PTL DEF UploadSpec

-----------------------------------------------------------------------------
(* Host and board in step.                                                   *)

(* The number of the next byte of the frame that the board looks at; the     *)
(* report of the last one may still be there when the next frame begins.     *)
Heard == IF rx = NoReport THEN pos ELSE IF pos = 1 THEN Len(Frame(rom)) ELSE pos - 1

(* The window holds the last j bytes of the frame, and before them the end   *)
(* of the magic word, or of an earlier frame when they are all there are.    *)
WindowShows(j) ==
    /\ j < Heard
    /\ \A i \in 1 .. j : magic_window[Len(Magic) - j + i] = Frame(rom)[Heard - 1 - j + i]
    /\ j = Heard - 1 \/ OldMagic(j)

(* The frame so far as the board has it, with the byte it looks at.          *)
SeenLength == Len(raw) + (IF Got THEN 1 ELSE 0)
Seen(i) == IF i <= Len(raw) THEN raw[i] ELSE rx.byte
AsSent(i) == Seen(i) = Frame(rom)[Len(Magic) + i]
Attached ==
    /\ Len(raw) = Heard - 1 - Len(Magic) /\ pos > Len(Magic)
    /\ host \in {"Sending", "Waiting"} /\ inbox = "-"
    /\ \/ \A i \in 1 .. SeenLength : AsSent(i)
       \/ /\ hurt > 0
          /\ \E d \in 3 .. SeenLength :
                ~ AsSent(d) /\ \A i \in (1 .. SeenLength) \ {d} : AsSent(i)

Loaded == state \in {"WaitMagic", "Running"} /\ \A i \in 1 .. Len(rom) : mem[i - 1] = rom[i]

HostInStep ==
    /\ host = "Sending" => pos <= Len(Frame(rom)) /\ inbox # "A"
    /\ host = "Sending" /\ pos <= Len(Magic) + 1 => inbox = "-" /\ tx_left = 0
    /\ host = "Waiting" => pos = Len(Frame(rom)) + 1
    /\ host = "Ok" => rx = NoReport /\ inbox = "A"
    /\ host = "Ready" => pos \in {1, Len(Frame(rom)) + 1} /\ tx_left = 0
    /\ host \in {"Waiting", "Ok"} /\ inbox = "A" => Loaded
AnswerInStep ==
    /\ tx_left > 0 => inbox = "-"
    /\ tx_left > 0 /\ tx_byte = "A" => host = "Waiting" /\ Loaded /\ rx = NoReport
    /\ inbox = "A" => rx = NoReport

WindowInStep == \E j \in 0 .. Len(Magic) : WindowShows(j)
LineIntact == Hunting /\ rx # NoReport => rx = ByteReport(Frame(rom)[Heard])
FrameInStep == InProtocol => Attached
InStep == WindowInStep /\ LineIntact /\ FrameInStep /\ HostInStep /\ AnswerInStep

UploadInv == BoardInv /\ (trusted => InStep)

(* The frame being sent.                                                     *)
LEMMA FrameNow ==
    ASSUME BoardInv
    PROVE  /\ rom \in Roms /\ Frame(rom) \in Seq(Byte) /\ Len(Frame(rom)) \in Nat
           /\ Len(Magic) \in Nat /\ Len(Magic) >= 1
           /\ Len(Frame(rom)) = Len(Magic) + Len(rom) + 3 /\ Len(rom) \in Nat
           /\ pos \in 1 .. Len(Frame(rom)) + 1
           /\ \A i \in 1 .. Len(Magic) : Frame(rom)[i] = Magic[i]
<1>1. rom \in Roms /\ pos \in 1 .. Len(Frame(rom)) + 1  BY DEF BoardInv, UploadTypeOK
<1> QED BY <1>1, FrameShape, Constants

(* What has been heard of the frame lies in the frame.                       *)
LEMMA HeardRange ==
    ASSUME BoardInv, rx # NoReport
    PROVE  /\ Heard \in 1 .. Len(Frame(rom))
           /\ pos = 1 => Heard = Len(Frame(rom))
           /\ pos # 1 => Heard = pos - 1
  BY FrameNow DEF Heard

(* The window with one more byte of the frame.                               *)
NextShows(k) ==
    /\ k <= Heard
    /\ \A i \in 1 .. k : NextWindow[Len(Magic) - k + i] = Frame(rom)[Heard - k + i]
    /\ k = Heard \/ \A i \in 1 .. Len(Magic) - k : NextWindow[i] = Magic[i + k]

(* The window holds the last bytes heard, and above them the magic word      *)
(* that was there before.                                                    *)
LEMMA WindowHears ==
    ASSUME BoardInv, NEW j \in 0 .. Len(Magic), WindowShows(j), rx # NoReport,
           rx = ByteReport(Frame(rom)[Heard])
    PROVE  \E k \in 1 .. Len(Magic) : NextShows(k)
<1> DEFINE m == Len(Magic)
           F == Frame(rom)
<1>1. m \in Nat /\ m >= 1 /\ Heard \in Nat /\ Heard >= 1  BY FrameNow, HeardRange
<1>2. /\ Got /\ rx.byte = F[Heard]
  BY DEF ByteReport, Got
<1>3. /\ \A i \in 1 .. m - 1 : NextWindow[i] = magic_window[i + 1]
      /\ NextWindow[m] = F[Heard]
  BY <1>2, WindowMoves DEF BoardInv
<1>4. /\ j < Heard
      /\ \A i \in 1 .. j : magic_window[m - j + i] = F[Heard - 1 - j + i]
      /\ j = Heard - 1 \/ \A i \in 1 .. m - j : magic_window[i] = Magic[i + j]
  BY DEF WindowShows, OldMagic
<1> HIDE DEF m, F
<1>5. CASE j < m
  <2>1. j + 1 \in 1 .. m /\ j + 1 <= Heard  BY <1>1, <1>4, <1>5 DEF m
  <2>2. ASSUME NEW i \in 1 .. j + 1 PROVE NextWindow[m - (j + 1) + i] = F[Heard - (j + 1) + i]
    <3>1. CASE i = j + 1
      <4>1. m - (j + 1) + i = m /\ Heard - (j + 1) + i = Heard  BY <3>1, <1>1, <1>5
      <4> QED BY <4>1, <1>3
    <3>2. CASE i # j + 1
      <4>1. i \in 1 .. j /\ m - (j + 1) + i \in 1 .. m - 1  BY <3>2, <2>1, <1>1
      <4>2. NextWindow[m - (j + 1) + i] = magic_window[(m - (j + 1) + i) + 1]
        BY <4>1, <1>3
      <4>3. (m - (j + 1) + i) + 1 = m - j + i /\ Heard - 1 - j + i = Heard - (j + 1) + i
        BY <1>1, <4>1
      <4>4. magic_window[m - j + i] = F[Heard - 1 - j + i]  BY <4>1, <1>4
      <4> QED BY <4>2, <4>3, <4>4
    <3> QED BY <3>1, <3>2
  <2>3. CASE j = Heard - 1
    <3>1. j + 1 = Heard  BY <2>3, <1>1
    <3>2. NextShows(j + 1)  BY <2>1, <2>2, <3>1 DEF NextShows, m, F
    <3> QED BY <2>1, <3>2 DEF m
  <2>4. CASE \A i \in 1 .. m - j : magic_window[i] = Magic[i + j]
    <3>1. ASSUME NEW i \in 1 .. m - (j + 1) PROVE NextWindow[i] = Magic[i + (j + 1)]
      <4>1. i \in 1 .. m - 1 /\ i + 1 \in 1 .. m - j  BY <1>1, <2>1
      <4>2. (i + 1) + j = i + (j + 1)  BY <4>1
      <4> QED BY <4>1, <4>2, <1>3, <2>4
    <3>2. NextShows(j + 1)  BY <2>1, <2>2, <3>1 DEF NextShows, m, F
    <3> QED BY <2>1, <3>2 DEF m
  <2> QED BY <2>3, <2>4, <1>4
<1>6. CASE j = m
  <2>1. m <= Heard  BY <1>1, <1>4, <1>6
  <2>2. ASSUME NEW i \in 1 .. m PROVE NextWindow[m - m + i] = F[Heard - m + i]
    <3>1. CASE i = m
      <4>1. m - m + i = m /\ Heard - m + i = Heard  BY <3>1, <1>1
      <4> QED BY <4>1, <1>3
    <3>2. CASE i # m
      <4>1. i \in 1 .. m - 1 /\ i + 1 \in 1 .. m  BY <3>2, <1>1
      <4>2. NextWindow[i] = magic_window[i + 1]  BY <4>1, <1>3
      <4>3. magic_window[m - m + (i + 1)] = F[Heard - 1 - m + (i + 1)]  BY <4>1, <1>4, <1>6
      <4>4. m - m + (i + 1) = i + 1 /\ Heard - 1 - m + (i + 1) = Heard - m + i /\ m - m + i = i
        BY <1>1, <4>1
      <4> QED BY <4>2, <4>3, <4>4
    <3> QED BY <3>1, <3>2
  <2>3. \A i \in 1 .. m - m : NextWindow[i] = Magic[i + m]  BY <1>1
  <2>4. NextShows(m)  BY <2>1, <2>2, <2>3 DEF NextShows, m, F
  <2> QED BY <2>4, <1>1 DEF m
<1> QED BY <1>1, <1>5, <1>6 DEF m

(* The magic word is found where it is, and nowhere else.                    *)
LEMMA FoundAtStart ==
    ASSUME BoardInv, rx # NoReport, NEW k \in 1 .. Len(Magic), NextShows(k), NextWindow = Magic
    PROVE  Heard = Len(Magic)
<1> DEFINE m == Len(Magic)
           F == Frame(rom)
<1>1. /\ m \in Nat /\ m >= 1 /\ Heard \in 1 .. Len(F) /\ Len(F) \in Nat /\ Len(F) > m
      /\ Magic \in Seq(Byte) /\ F \in Seq(Byte) /\ rom \in Roms
      /\ \A i \in 1 .. m : F[i] = Magic[i]
  BY FrameNow, HeardRange, Constants
<1>2. /\ k <= Heard /\ \A i \in 1 .. k : Magic[m - k + i] = F[Heard - k + i]
      /\ k = Heard \/ \A i \in 1 .. m - k : Magic[i] = Magic[i + k]
  BY DEF NextShows
<1>3. CASE k = m
  <2>1. SUFFICES ASSUME Heard # m PROVE FALSE  OBVIOUS
  <2> DEFINE h == Heard - m
  <2>2. h \in 1 .. Len(F) - m  BY <1>1, <1>2, <1>3, <2>1
  <2> HIDE DEF h
  <2>3. h + m = Heard  BY <1>1 DEF h
  <2>4. \A i \in 1 .. m : Magic[i] = F[h + i]
    <3> SUFFICES ASSUME NEW i \in 1 .. m PROVE Magic[i] = F[h + i]  OBVIOUS
    <3>1. m - k + i = i /\ Heard - k + i = h + i  BY <1>1, <1>3 DEF h
    <3> QED BY <3>1, <1>2, <1>3
  <2>5. SubSeq(F, h + 1, h + m) = Magic
    <3> DEFINE S == SubSeq(F, h + 1, h + m)
    <3>1. S \in Seq(Byte) /\ Len(S) = m /\ \A i \in 1 .. m : S[i] = F[h + i]
      BY <1>1, <2>2
    <3> HIDE DEF S
    <3>2. \A i \in 1 .. m : S[i] = Magic[i]  BY <3>1, <2>4
    <3>3. S = Magic  BY <3>1, <3>2, <1>1
    <3> QED BY <3>3 DEF S
  <2> QED BY <2>2, <2>5, <1>1, MagicUniqueAssumption
<1>4. CASE k # m /\ k = Heard
  <2>1. m - k \in 1 .. m - 1  BY <1>1, <1>4
  <2>2. ASSUME NEW i \in 1 .. m - (m - k) PROVE Magic[i] = Magic[i + (m - k)]
    <3>1. i \in 1 .. k /\ i \in 1 .. m /\ m - k + i = i + (m - k) /\ Heard - k + i = i
      BY <1>1, <1>4
    <3>2. Magic[m - k + i] = F[Heard - k + i]  BY <1>2, <3>1
    <3> QED BY <3>1, <3>2, <1>1
  <2> QED BY <2>1, <2>2, NoBorder
<1>5. CASE k # m /\ k # Heard
  <2>1. k \in 1 .. m - 1  BY <1>1, <1>5
  <2> QED BY <2>1, <1>2, <1>5, NoBorder
<1> QED BY <1>3, <1>4, <1>5

(* A clock takes the waiting byte into the window, and the window stays in   *)
(* step with the bytes heard; so does a reset.                               *)
LEMMA WindowProcesses ==
    ASSUME BoardInv, WindowInStep, LineIntact, NEW rst \in BOOLEAN,
           UploaderClock(t_index, rst), rx' = NoReport, UNCHANGED <<pos, rom>>
    PROVE  WindowInStep'
<1> DEFINE m == Len(Magic)
           F == Frame(rom)
<1>1. /\ m \in Nat /\ m >= 1 /\ pos \in Nat /\ pos >= 1 /\ F' = F /\ Heard' = pos
      /\ rx \in Report
  BY FrameNow DEF Heard, BoardInv, UploadTypeOK, UploaderTypeOK
<1>2. PICK j \in 0 .. m : WindowShows(j)  BY DEF WindowInStep
<1>3. CASE rx = NoReport
  <2>1. magic_window' = magic_window /\ Heard' = Heard
    BY <1>1, <1>3, ReportKinds DEF UploaderClock, Heard
  <2>2. WindowShows(j)'  BY <1>1, <1>2, <2>1 DEF WindowShows, OldMagic
  <2> QED BY <2>2 DEF WindowInStep
<1>4. CASE rx # NoReport /\ Hunting
  <2>1. rx = ByteReport(F[Heard]) /\ Got  BY <1>4 DEF LineIntact, ByteReport, Got
  <2>2. magic_window' = NextWindow  BY <1>4, <2>1 DEF UploaderClock, Hunting
  <2>3. CASE pos = 1
    <3>1. WindowShows(0)'  BY <1>1, <2>3 DEF WindowShows
    <3> QED BY <3>1, <1>1 DEF WindowInStep
  <2>4. CASE pos # 1
    <3>1. PICK k \in 1 .. m : NextShows(k)  BY <1>2, <1>4, <2>1, WindowHears
    <3>2. Heard = pos - 1 /\ Heard' = Heard + 1 /\ Heard \in Nat
      BY <1>1, <1>4, <2>4, HeardRange
    <3> HIDE DEF F
    <3>3. /\ k < Heard'
          /\ k = Heard' - 1 \/ OldMagic(k)'
      BY <3>1, <3>2, <2>2 DEF NextShows, OldMagic
    <3>4. ASSUME NEW i \in 1 .. k PROVE magic_window'[m - k + i] = F'[Heard' - 1 - k + i]
      <4>1. Heard' - 1 - k + i = Heard - k + i  BY <3>2
      <4>2. NextWindow[m - k + i] = F[Heard - k + i]  BY <3>1 DEF NextShows, F
      <4> QED BY <4>1, <4>2, <2>2, <1>1
    <3>5. WindowShows(k)'  BY <3>3, <3>4 DEF WindowShows, F
    <3>6. k \in 0 .. m  BY <1>1
    <3> QED BY <3>5, <3>6 DEF WindowInStep
  <2> QED BY <2>3, <2>4
<1>5. CASE rx # NoReport /\ ~ Hunting
  <2>1. magic_window' = Magic
    BY <1>5 DEF UploaderClock, Hunting, BoardInv, BoardKept, AnswerBeforeMagic
  <2>2. WindowShows(0)'
    <3>1. 0 < Heard'  BY <1>1
    <3>2. OldMagic(0)'  BY <2>1, <1>1 DEF OldMagic
    <3> QED BY <3>1, <3>2 DEF WindowShows
  <2> QED BY <2>2, <1>1 DEF WindowInStep
<1> QED BY <1>3, <1>4, <1>5

(* A magic word that is found is the one that was sent.                      *)
LEMMA MatchIsStart ==
    ASSUME BoardInv, WindowInStep, LineIntact, MagicMatch
    PROVE  pos = Len(Magic) + 1 /\ rx # NoReport
<1>1. Got /\ Hunting /\ NextWindow = Magic  BY DEF MagicMatch, Hunting
<1>2. rx # NoReport  BY <1>1, ReportKinds DEF BoardInv, UploadTypeOK, UploaderTypeOK
<1>3. rx = ByteReport(Frame(rom)[Heard])  BY <1>1, <1>2 DEF LineIntact
<1>4. PICK j \in 0 .. Len(Magic) : WindowShows(j)  BY DEF WindowInStep
<1>5. PICK k \in 1 .. Len(Magic) : NextShows(k)  BY <1>2, <1>3, <1>4, WindowHears
<1>6. Heard = Len(Magic)  BY <1>1, <1>2, <1>5, FoundAtStart
<1> QED BY <1>2, <1>6, FrameNow, HeardRange

(* What the receiver has of an announced length is true.                     *)
LEMMA AnnouncedIsSent ==
    ASSUME BoardInv, InProtocol, Attached
    PROVE  /\ Len(raw) <= Len(rom) + 2
           /\ state \in {"Payload", "Checksum"} => Announced = Len(rom)
           /\ state = "Checksum" => Len(raw) = Len(rom) + 2 /\ checksum = XorAll(SubSeq(raw, 3, Len(rom) + 2))
<1> DEFINE m == Len(Magic)
           F == Frame(rom)
<1>1. /\ Len(raw) \in Nat /\ Len(rom) \in Nat /\ m \in Nat /\ bytes_remaining \in Nat
      /\ F[m + 1] = Len(rom) % ByteMod /\ F[m + 2] = Len(rom) \div ByteMod
      /\ Len(rom) <= MaxLength
  BY FrameNow, FrameShape, Constants DEF BoardInv, HistoryTypeOK, UploadTypeOK, UploaderTypeOK
<1>2. CASE state \in {"Payload", "Checksum"}
  <2>1. PayloadKept /\ (state = "Checksum" => bytes_remaining = 0 /\ ~ payload_staged)
    BY <1>2 DEF BoardInv, BoardKept, ReceivedKept, StagingInTime
  <2>2. Len(raw) >= 2 /\ Seen(1) = raw[1] /\ Seen(2) = raw[2] /\ 2 <= SeenLength
    BY <2>1, <1>1 DEF PayloadKept, Seen, SeenLength
  <2>3. AsSent(1) /\ AsSent(2)
    <3>1. 1 \in 1 .. SeenLength /\ 2 \in 1 .. SeenLength  BY <2>2, <1>1 DEF SeenLength
    <3>2. \A d \in 3 .. SeenLength : 1 # d /\ 2 # d  OBVIOUS
    <3> QED BY <3>1, <3>2 DEF Attached
  <2>4. raw[1] = Len(rom) % ByteMod /\ raw[2] = Len(rom) \div ByteMod
    BY <2>2, <2>3, <1>1 DEF AsSent
  <2>5. Announced = Len(rom)  BY <2>4, <1>1, LengthBytes DEF Announced
  <2>6. Len(raw) <= Len(rom) + 2
    <3>1. payload_staged => bytes_remaining >= 1
      BY <1>2, <2>1 DEF BoardInv, BoardKept, StagingInTime
    <3>2. Written = Len(rom) - bytes_remaining  BY <2>5 DEF Written
    <3>3. Len(raw) = Written + (IF payload_staged THEN 3 ELSE 2)  BY <2>1 DEF PayloadKept
    <3>4. CASE payload_staged  BY <3>1, <3>2, <3>3, <3>4, <1>1
    <3>5. CASE ~ payload_staged  BY <3>2, <3>3, <3>5, <1>1
    <3> QED BY <3>4, <3>5
  <2>7. ASSUME state = "Checksum"
        PROVE  Len(raw) = Len(rom) + 2 /\ checksum = XorAll(SubSeq(raw, 3, Len(rom) + 2))
    <3>1. Written = Len(rom)  BY <2>1, <2>5, <2>7, <1>1 DEF Written
    <3> QED BY <3>1, <2>1, <2>7 DEF PayloadKept
  <2> QED BY <2>5, <2>6, <2>7
<1>3. CASE state \in {"Length0", "Length1"}
  <2>1. Len(raw) \in {0, 1}  BY <1>3 DEF BoardInv, BoardKept, ReceivedKept
  <2>2. Len(raw) <= Len(rom) + 2
    <3>1. Len(rom) \in Nat  BY <1>1
    <3>2. \A k \in Nat : 0 <= k + 2 /\ 1 <= k + 2  OBVIOUS
    <3>3. 0 <= Len(rom) + 2 /\ 1 <= Len(rom) + 2  BY <3>1, <3>2
    <3> QED BY <2>1, <3>3
  <2>3. state \notin {"Payload", "Checksum"}  BY <1>3
  <2> QED BY <2>2, <2>3
<1> QED BY <1>2, <1>3 DEF InProtocol

(* An image that is acknowledged is the one sent.                            *)
LEMMA AcknowledgedIsSent ==
    ASSUME BoardInv, Attached, ChecksumMatch
    PROVE  /\ pos = Len(Frame(rom)) + 1
           /\ \A i \in 1 .. Len(rom) : mem[i - 1] = rom[i]
<1> DEFINE m == Len(Magic)
           F == Frame(rom)
           n == Len(rom)
           p == SubSeq(raw, 3, n + 2)
<1>1. /\ state = "Checksum" /\ Got /\ rx.byte = checksum /\ InProtocol /\ rx # NoReport
  BY ReportKinds
  DEF ChecksumMatch, InProtocol, BoardInv, UploadTypeOK, UploaderTypeOK
<1>2. /\ n \in Nat /\ m \in Nat /\ m >= 1 /\ Len(F) = m + n + 3 /\ rom \in Seq(Byte)
      /\ raw \in Seq(Byte) /\ pos \in Nat
      /\ \A i \in 1 .. n : F[m + 2 + i] = rom[i]
      /\ F[m + n + 3] = XorAll(rom)
  BY FrameNow, FrameShape DEF BoardInv, HistoryTypeOK
<1>3. Announced = n /\ Len(raw) = n + 2 /\ rx.byte = XorAll(p)
  BY <1>1, AnnouncedIsSent
<1>4. pos = Len(F) + 1
  <2>1. Len(raw) = Heard - 1 - m /\ pos > m  BY DEF Attached
  <2>2. Heard = pos - 1  BY <2>1, <1>1, <1>2, HeardRange
  <2> QED BY <2>1, <2>2, <1>2, <1>3
<1>5. SeenLength = n + 3 /\ Seen(n + 3) = rx.byte /\ \A i \in 1 .. n + 2 : Seen(i) = raw[i]
  BY <1>1, <1>2, <1>3 DEF SeenLength, Seen
<1>6. p \in Seq(Byte) /\ Len(p) = n /\ \A i \in 1 .. n : p[i] = raw[i + 2]
  BY <1>2, <1>3
<1>7. AsSent(n + 3) <=> rx.byte = XorAll(rom)
  <2>1. m + (n + 3) = m + n + 3  BY <1>2
  <2> QED BY <2>1, <1>2, <1>5 DEF AsSent
<1>8. ASSUME NEW i \in 1 .. n PROVE AsSent(i + 2) <=> p[i] = rom[i]
  <2>1. i + 2 \in 1 .. n + 2 /\ m + (i + 2) = m + 2 + i  BY <1>2
  <2>2. Seen(i + 2) = raw[i + 2] /\ F[m + (i + 2)] = rom[i]  BY <2>1, <1>2, <1>5
  <2> QED BY <2>2, <1>6 DEF AsSent
<1> HIDE DEF p
<1>9. \A i \in 1 .. n : p[i] = rom[i]
  <2>1. CASE \A i \in 1 .. SeenLength : AsSent(i)
    <3> SUFFICES ASSUME NEW i \in 1 .. n PROVE p[i] = rom[i]  OBVIOUS
    <3>1. i + 2 \in 1 .. SeenLength  BY <1>2, <1>5
    <3> QED BY <3>1, <2>1, <1>8
  <2>2. CASE \E d \in 3 .. SeenLength :
                ~ AsSent(d) /\ \A i \in (1 .. SeenLength) \ {d} : AsSent(i)
    <3>1. PICK d \in 3 .. n + 3 :
             ~ AsSent(d) /\ \A i \in (1 .. n + 3) \ {d} : AsSent(i)
      BY <2>2, <1>5
    <3>2. CASE d = n + 3
      <4>1. ASSUME NEW i \in 1 .. n PROVE p[i] = rom[i]
        <5>1. i + 2 \in (1 .. n + 3) \ {d}  BY <3>2, <1>2
        <5> QED BY <5>1, <3>1, <1>8
      <4> QED BY <4>1
    <3>3. CASE d # n + 3
      <4> DEFINE e == d - 2
      <4>1. e \in 1 .. n /\ e + 2 = d  BY <3>3, <1>2
      <4> HIDE DEF e
      <4>2. p[e] # rom[e]  BY <4>1, <3>1, <1>8
      <4>3. ASSUME NEW i \in (1 .. n) \ {e} PROVE p[i] = rom[i]
        <5>1. i + 2 \in (1 .. n + 3) \ {d}  BY <4>1, <1>2
        <5> QED BY <5>1, <3>1, <1>8
      <4>4. XorAll(p) # XorAll(rom)
        BY <4>1, <4>2, <4>3, <1>2, <1>6, XorAllDiffers
      <4>5. AsSent(n + 3)
        <5>1. n + 3 \in (1 .. n + 3) \ {d}  BY <3>3, <1>2
        <5> QED BY <5>1, <3>1
      <4> QED BY <4>4, <4>5, <1>3, <1>7
    <3> QED BY <3>2, <3>3
  <2> QED BY <2>1, <2>2 DEF Attached
<1>10. ASSUME NEW i \in 1 .. n PROVE mem[i - 1] = rom[i]
  <2>1. PayloadKept /\ bytes_remaining = 0
    BY <1>1 DEF BoardInv, BoardKept, ReceivedKept
  <2>2. Written = n  BY <2>1, <1>2, <1>3 DEF Written
  <2>3. mem[i - 1] = raw[i + 2]  BY <2>1, <2>2 DEF PayloadKept, Stored
  <2> QED BY <2>3, <1>6, <1>9
<1> QED BY <1>4, <1>10

(* A loaded image stays loaded in every clock that finds no magic word.      *)
LEMMA LoadedStays ==
    ASSUME BoardInv, Loaded, ~ MagicMatch, NEW rst \in BOOLEAN, UploaderClock(t_index, rst),
           rom' = rom
    PROVE  Loaded'
<1>1. /\ state \in {"WaitMagic", "Running"} /\ ~ WriteSlot(t_index) /\ ~ InProtocol
      /\ ~ StartSuccessAck /\ ~ StartFailAck /\ ~ UploadComplete
  BY DEF Loaded, WriteSlot, InProtocol, StartSuccessAck, ChecksumMatch, StartFailAck, Overrun,
         OversizeLength, UploadComplete
<1>2. mem' = mem  BY <1>1 DEF UploaderClock
<1>3. state' \in {"WaitMagic", "Running"}  BY <1>1 DEF UploaderClock, NextState
<1> QED BY <1>2, <1>3 DEF Loaded

(* A magic word is found within the frame being sent.                        *)
LEMMA MatchInFrame ==
    ASSUME BoardInv, InStep, MagicMatch
    PROVE  host = "Sending" /\ pos = Len(Magic) + 1 /\ inbox = "-" /\ tx_left = 0 /\ rx # NoReport
<1>1. pos = Len(Magic) + 1 /\ rx # NoReport  BY MatchIsStart DEF InStep
<1>2. host = "Sending"
  BY <1>1, FrameNow DEF InStep, HostInStep, BoardInv, UploadTypeOK
<1> QED BY <1>1, <1>2, FrameNow DEF InStep, HostInStep

(* An answer is given to the frame being sent.                               *)
LEMMA AnswerInFrame ==
    ASSUME BoardInv, InStep, AckStart
    PROVE  /\ Attached /\ inbox = "-" /\ tx_left = 0 /\ ~ MagicMatch /\ host \in {"Sending", "Waiting"}
           /\ pos > Len(Magic) + 1
<1>1. InProtocol /\ rx # NoReport  BY AnswerStarts DEF BoardInv
<1>2. Attached /\ inbox = "-" /\ host \in {"Sending", "Waiting"} /\ pos > Len(Magic)
  BY <1>1 DEF InStep, FrameInStep, Attached
<1>3. tx_left = 0
  BY <1>1 DEF BoardInv, BoardKept, AnswerBeforeMagic, UploadTypeOK
<1>4. ~ MagicMatch  BY <1>1 DEF InProtocol, MagicMatch
<1>5. pos # Len(Magic) + 1
  <2>1. SUFFICES ASSUME pos = Len(Magic) + 1 PROVE FALSE  OBVIOUS
  <2>2. Heard = Len(Magic)  BY <2>1, <1>1, FrameNow, HeardRange
  <2>3. Len(raw) = Heard - 1 - Len(Magic) /\ Len(raw) \in Nat
    BY <1>2 DEF Attached, BoardInv, HistoryTypeOK
  <2> QED BY <2>2, <2>3, FrameNow
<1>6. pos > Len(Magic) + 1
  <2>1. pos \in Nat /\ Len(Magic) \in Nat  BY FrameNow
  <2> QED BY <2>1, <1>2, <1>5
<1> QED BY <1>2, <1>3, <1>4, <1>6

(* A clock without a report keeps host and receiver in step.                 *)
LEMMA QuietInStep ==
    ASSUME BoardInv, InStep, BoardClock(NoReport), UNCHANGED <<pos, rom, host, hurt>>
    PROVE  InStep'
<1> DEFINE m == Len(Magic)
           F == Frame(rom)
<1>1. /\ UploaderClock(t_index, FALSE) /\ Transmit /\ RecordRaw /\ Answer /\ rx' = NoReport
      /\ state' = NextState /\ rx \in Report /\ state \in UploadState
      /\ tx_left \in Nat /\ inbox \in {"-", "A", "N"} /\ tx_byte \in {"A", "N"}
      /\ host \in {"Ready", "Sending", "Waiting", "Ok"} /\ F' = F
  BY Constants DEF BoardClock, UploaderClock, BoardInv, UploadTypeOK, UploaderTypeOK
<1>2. /\ m \in Nat /\ m >= 1 /\ Len(F) \in Nat /\ pos \in 1 .. Len(F) + 1 /\ raw \in Seq(Byte)
      /\ Heard' = pos /\ Len(raw) \in Nat /\ ~ Got'
  BY <1>1, FrameNow, Reports DEF Heard, BoardInv, HistoryTypeOK, Got, NoReport
<1>3. WindowInStep' /\ LineIntact'
  BY <1>1, WindowProcesses DEF InStep, LineIntact
<1>4. ASSUME InProtocol' PROVE Attached'
  <2>1. CASE MagicMatch
    <3>1. host = "Sending" /\ pos = m + 1 /\ inbox = "-" /\ tx_left = 0
      BY <2>1, MatchInFrame
    <3>2. raw' = <<>> /\ inbox' = "-"  BY <2>1, <3>1, <1>1 DEF RecordRaw, Answer
    <3>3. Len(raw') = Heard' - 1 - m /\ SeenLength' = 0
      BY <3>1, <3>2, <1>2 DEF SeenLength
    <3>4. pos' > m /\ host' \in {"Sending", "Waiting"}  BY <3>1, <1>2
    <3>5. \A i \in 1 .. SeenLength' : AsSent(i)'  BY <3>3
    <3> QED BY <3>2, <3>3, <3>4, <3>5 DEF Attached
  <2>2. CASE ~ MagicMatch
    <3>1. InProtocol
      <4>1. state' \in {"Length0", "Length1", "Payload", "Checksum"}
        BY <1>4 DEF InProtocol
      <4>2. state \notin {"WaitMagic", "Running"}
        BY <4>1, <2>2, <1>1
        DEF NextState, StartSuccessAck, ChecksumMatch, StartFailAck, InProtocol, Overrun,
            OversizeLength, UploadComplete
      <4> QED BY <4>2, <1>1 DEF InProtocol, UploadState
    <3>2. Attached  BY <3>1 DEF InStep, FrameInStep
    <3>3. rx.kind # "Error"
      <4>1. rx.kind = "Error" => ~ Got  BY DEF Got
      <4>2. rx.kind = "Error" => state' = "WaitMagic"
        BY <3>1, <4>1, <1>1 DEF NextState, StartFailAck, StartSuccessAck, ChecksumMatch
      <4> QED BY <4>2, <1>4 DEF InProtocol
    <3>4. tx_left = 0
      BY <3>1, <1>1 DEF BoardInv, BoardKept, AnswerBeforeMagic
    <3>5. inbox' = "-" /\ host' \in {"Sending", "Waiting"} /\ pos' > m
      BY <3>2, <3>4, <1>1 DEF Answer, Attached
    <3>6. /\ Len(raw') = Heard' - 1 - m /\ SeenLength' = SeenLength
          /\ \A i \in 1 .. SeenLength : Seen(i)' = Seen(i)
      <4>1. CASE Got
        <5>1. raw' = Append(raw, rx.byte) /\ rx.byte \in Byte /\ rx # NoReport
          BY <4>1, <3>1, <2>2, <1>1, ReportKinds DEF RecordRaw
        <5>2. /\ Len(raw') = Len(raw) + 1 /\ raw'[Len(raw) + 1] = rx.byte
              /\ \A i \in 1 .. Len(raw) : raw'[i] = raw[i]
          BY <5>1, <1>2, AppendFacts
        <5>3. Len(raw) = Heard - 1 - m /\ Heard = pos - 1
          <6>1. pos > m /\ Len(raw) = Heard - 1 - m  BY <3>2 DEF Attached
          <6>2. pos # 1  BY <6>1, <1>2
          <6> QED BY <6>1, <6>2, <5>1, HeardRange
        <5>4. SeenLength = Len(raw) + 1 /\ SeenLength' = Len(raw) + 1
          BY <4>1, <5>2, <1>2 DEF SeenLength
        <5>5. ASSUME NEW i \in 1 .. Len(raw) + 1 PROVE Seen(i)' = Seen(i)
          <6>1. CASE i = Len(raw) + 1  BY <6>1, <5>2, <1>2 DEF Seen
          <6>2. CASE i # Len(raw) + 1
            <7>1. i \in 1 .. Len(raw)  BY <6>2, <1>2
            <7> QED BY <7>1, <5>2, <1>2 DEF Seen
          <6> QED BY <6>1, <6>2
        <5>6. Len(raw') = Heard' - 1 - m  BY <5>2, <5>3, <1>2
        <5> QED BY <5>4, <5>5, <5>6
      <4>2. CASE ~ Got
        <5>1. rx = NoReport /\ raw' = raw
          BY <4>2, <3>3, <2>2, <1>1, ReportKinds DEF RecordRaw
        <5>2. SeenLength = Len(raw) /\ SeenLength' = Len(raw)
          BY <4>2, <5>1, <1>2 DEF SeenLength
        <5>3. Len(raw') = Heard' - 1 - m
          BY <5>1, <3>2, <1>2 DEF Attached, Heard
        <5>4. \A i \in 1 .. SeenLength : Seen(i)' = Seen(i)  BY <5>1, <5>2, <1>2 DEF Seen
        <5> QED BY <5>2, <5>3, <5>4
      <4> QED BY <4>1, <4>2
    <3>7. \A i \in 1 .. SeenLength : AsSent(i)' <=> AsSent(i)
      BY <3>6, <1>1 DEF AsSent
    <3>8. CASE \A i \in 1 .. SeenLength : AsSent(i)
      <4>1. \A i \in 1 .. SeenLength' : AsSent(i)'  BY <3>6, <3>7, <3>8
      <4> QED BY <4>1, <3>5, <3>6 DEF Attached
    <3>9. CASE hurt > 0 /\ \E d \in 3 .. SeenLength :
                  ~ AsSent(d) /\ \A i \in (1 .. SeenLength) \ {d} : AsSent(i)
      <4>1. PICK d \in 3 .. SeenLength :
               ~ AsSent(d) /\ \A i \in (1 .. SeenLength) \ {d} : AsSent(i)
        BY <3>9
      <4>2. d \in 1 .. SeenLength  BY <1>2 DEF SeenLength
      <4>3. ~ AsSent(d)' /\ \A i \in (1 .. SeenLength') \ {d} : AsSent(i)'
        BY <4>1, <4>2, <3>6, <3>7
      <4>4. d \in 3 .. SeenLength' /\ hurt' > 0  BY <3>6, <3>9
      <4> QED BY <4>3, <4>4, <3>5, <3>6 DEF Attached
    <3> QED BY <3>2, <3>8, <3>9 DEF Attached
  <2> QED BY <2>1, <2>2
<1>5. Loaded /\ host \in {"Waiting", "Ok"} => Loaded'
  BY <1>1, LoadedStays, MatchInFrame
<1>6. ASSUME StartSuccessAck PROVE host = "Waiting" /\ Loaded'
  <2>1. AckStart /\ ChecksumMatch  BY <1>6 DEF AckStart, StartSuccessAck
  <2>2. Attached /\ host \in {"Sending", "Waiting"}  BY <2>1, AnswerInFrame
  <2>3. pos = Len(F) + 1 /\ \A i \in 1 .. Len(rom) : mem[i - 1] = rom[i]
    BY <2>1, <2>2, AcknowledgedIsSent
  <2>4. host = "Waiting"
    <3>1. host = "Sending" => pos <= Len(F)  BY DEF InStep, HostInStep
    <3> QED BY <2>2, <2>3, <3>1, <1>2
  <2>5. state' = "Running"  BY <1>6, <1>1 DEF NextState
  <2>6. mem' = mem  BY <2>1 DEF UploaderClock, ChecksumMatch, WriteSlot, BoardClock
  <2> QED BY <2>3, <2>4, <2>5, <2>6 DEF Loaded
<1>7. HostInStep'
  <2>1. inbox' # inbox => tx_left > 0 /\ tx_left' = 0 /\ inbox = "-" /\ inbox' = tx_byte
    BY <1>1 DEF Answer, Transmit
  <2>2. inbox' = "A" /\ inbox # "A" => host = "Waiting" /\ Loaded
    BY <2>1 DEF InStep, AnswerInStep
  <2>3. AckStart => pos > m + 1 /\ host \in {"Sending", "Waiting"}  BY AnswerInFrame
  <2>4. tx_left = 0 /\ ~ AckStart => tx_left' = 0  BY <1>1 DEF Transmit
  <2>5. host' = "Sending" => pos' <= Len(F') /\ inbox' # "A"
    BY <1>1, <2>2 DEF InStep, HostInStep
  <2>6. host' = "Sending" /\ pos' <= m + 1 => inbox' = "-" /\ tx_left' = 0
    <3>1. pos <= m + 1 => ~ AckStart  BY <2>3, <1>2
    <3>2. host = "Sending" /\ pos <= m + 1 => inbox = "-" /\ tx_left = 0
      BY DEF InStep, HostInStep
    <3> QED BY <3>1, <3>2, <2>1, <2>4, <1>1
  <2>7. host' = "Waiting" => pos' = Len(F') + 1  BY <1>1 DEF InStep, HostInStep
  <2>8. host' = "Ok" => rx' = NoReport /\ inbox' = "A"
    BY <1>1, <2>1 DEF InStep, HostInStep
  <2>9. host' = "Ready" => pos' \in {1, Len(F') + 1} /\ tx_left' = 0
    BY <1>1, <2>3, <2>4 DEF InStep, HostInStep
  <2>10. host' \in {"Waiting", "Ok"} /\ inbox' = "A" => Loaded'
    BY <1>5, <2>2 DEF InStep, HostInStep
  <2> QED BY <2>5, <2>6, <2>7, <2>8, <2>9, <2>10 DEF HostInStep
<1>8. AnswerInStep'
  <2>1. tx_left' > 0 => inbox' = "-"
    <3>1. CASE AckStart
      <4>1. inbox = "-" /\ tx_left = 0  BY <3>1, AnswerInFrame
      <4> QED BY <4>1, <1>1 DEF Answer
    <3>2. CASE ~ AckStart
      <4>1. tx_left' > 0 => tx_left > 1  BY <3>2, <1>1 DEF Transmit
      <4> QED BY <4>1, <1>1 DEF Answer, InStep, AnswerInStep
    <3> QED BY <3>1, <3>2
  <2>2. tx_left' > 0 /\ tx_byte' = "A" => host' = "Waiting" /\ Loaded' /\ rx' = NoReport
    <3>1. CASE AckStart
      <4>1. tx_left = 0  BY <3>1, AnswerInFrame
      <4>2. tx_byte' = "A" => StartSuccessAck  BY <3>1, <4>1, <1>1 DEF Transmit
      <4> QED BY <4>2, <1>1, <1>6
    <3>2. CASE ~ AckStart
      <4>1. tx_left' > 0 => tx_left > 0  BY <3>2, <1>1 DEF Transmit
      <4>2. tx_byte' = tx_byte  BY <3>2, <1>1 DEF Transmit
      <4> QED BY <4>1, <4>2, <1>1, <1>5 DEF InStep, AnswerInStep
    <3> QED BY <3>1, <3>2
  <2> QED BY <2>1, <2>2, <1>1 DEF AnswerInStep
<1> QED BY <1>3, <1>4, <1>7, <1>8 DEF InStep, FrameInStep

(* A reset keeps them in step: the receiver hunts again.                     *)
LEMMA ResetInStep ==
    ASSUME BoardInv, InStep, PressReset
    PROVE  InStep'
<1>1. /\ UploaderClock(t_index, TRUE) /\ rx' = NoReport /\ tx_left' = 0
      /\ UNCHANGED <<tx_byte, rom, host, pos, inbox, hurt>>
  BY DEF PressReset
<1>2. WindowInStep' /\ LineIntact'
  BY <1>1, WindowProcesses DEF InStep, LineIntact
<1>3. ~ InProtocol'  BY <1>1 DEF UploaderClock, InProtocol
<1>4. Loaded /\ host \in {"Waiting", "Ok"} => Loaded'
  BY <1>1, LoadedStays, MatchInFrame
<1>5. HostInStep'  BY <1>1, <1>4 DEF InStep, HostInStep
<1>6. AnswerInStep'  BY <1>1 DEF InStep, AnswerInStep
<1> QED BY <1>2, <1>3, <1>5, <1>6 DEF InStep, FrameInStep

(* A byte is sent; the board is between two reports.                         *)
SentWell(report) == report = ByteReport(Frame(rom)[pos]) /\ hurt' = hurt
SentBroken(report) == report = FramingError /\ ~ Hunting /\ hurt' = hurt
SentWrong(report) ==
    /\ \E b \in Byte \ {Frame(rom)[pos]} : report = ByteReport(b)
    /\ ~ Hunting /\ pos > HeaderLength /\ hurt = 0 /\ hurt' = hurt + 1

(* A byte sent keeps them in step, whether it arrives whole, changed,        *)
(* broken or not at all, as far as the faults are those that may be          *)
(* trusted.                                                                  *)
LEMMA SendInStep ==
    ASSUME BoardInv, InStep, SendNext, NEW report \in Report, BoardClock(report),
           SentWell(report) \/ SentBroken(report) \/ SentWrong(report)
    PROVE  InStep'
<1> DEFINE m == Len(Magic)
           F == Frame(rom)
<1>1. /\ UploaderClock(t_index, FALSE) /\ Transmit /\ RecordRaw /\ Answer /\ rx' = report
      /\ state' = NextState /\ rx \in Report /\ state \in UploadState
      /\ tx_left \in Nat /\ inbox \in {"-", "A", "N"} /\ tx_byte \in {"A", "N"}
      /\ host = "Sending" /\ gap = MinGap /\ pos' = pos + 1 /\ rom' = rom /\ F' = F
      /\ host' = (IF pos = Len(F) THEN "Waiting" ELSE "Sending") /\ hurt \in Nat
  BY Constants
  DEF BoardClock, UploaderClock, BoardInv, UploadTypeOK, UploaderTypeOK, SendNext, HistoryTypeOK
<1>2. /\ m \in Nat /\ m >= 1 /\ Len(F) \in Nat /\ Len(F) > m /\ pos \in 1 .. Len(F)
      /\ raw \in Seq(Byte) /\ F \in Seq(Byte)
  <2>1. pos <= Len(F)  BY <1>1 DEF BoardInv, HistoryTypeOK
  <2> QED BY <2>1, FrameNow DEF BoardInv, HistoryTypeOK
<1>3. rx = NoReport /\ ~ Got /\ rx.kind # "Error"
  <2>1. rx = NoReport
    BY <1>1, Constants DEF BoardInv, BoardKept, StagingInTime
  <2> QED BY <2>1, <1>1, ReportKinds
<1>4. /\ ~ AckStart /\ ~ MagicMatch /\ ~ StageNow /\ raw' = raw
      /\ ~ StartSuccessAck /\ ~ StartFailAck
  BY <1>3 DEF AckStart, StartSuccessAck, StartFailAck, ChecksumMatch, Overrun, OversizeLength,
              MagicMatch, StageNow, RecordRaw, BoardClock
<1>5. /\ state' = (IF UploadComplete THEN "Checksum" ELSE state)
      /\ UploadComplete => state = "Payload"
      /\ magic_window' = magic_window
  BY <1>1, <1>3, <1>4 DEF NextState, UploaderClock, UploadComplete
<1>6. rx' # NoReport /\ Heard = pos /\ Heard' = pos
  <2>1. rx' # NoReport
    <3>1. \A b \in Byte : ByteReport(b) # NoReport  BY Reports
    <3>2. F[pos] \in Byte  BY <1>2
    <3> QED BY <3>1, <3>2, <1>1, Reports DEF SentWell, SentBroken, SentWrong
  <2>2. pos' # 1 /\ pos' - 1 = pos  BY <1>1, <1>2
  <2> QED BY <2>1, <2>2, <1>3 DEF Heard
<1>7. WindowInStep'
  <2>1. PICK j \in 0 .. m : WindowShows(j)  BY DEF InStep, WindowInStep
  <2>2. WindowShows(j)'  BY <2>1, <1>1, <1>5, <1>6 DEF WindowShows, OldMagic
  <2> QED BY <2>2 DEF WindowInStep
<1>8. LineIntact'
  <2>1. Hunting' => Hunting  BY <1>5 DEF Hunting
  <2>2. Hunting => rx' = ByteReport(F[pos])
    BY <1>1 DEF SentWell, SentBroken, SentWrong
  <2> QED BY <2>1, <2>2, <1>1, <1>6 DEF LineIntact
<1>9. ASSUME InProtocol' PROVE Attached'
  <2>1. InProtocol /\ Attached
    <3>1. InProtocol  BY <1>5, <1>9 DEF InProtocol
    <3> QED BY <3>1 DEF InStep, FrameInStep
  <2>0. PICK l \in Nat : l = Len(raw)  BY <1>2
  <2>2. /\ Len(raw) = l /\ Len(raw') = l /\ l = pos - 1 - m /\ pos > m /\ inbox = "-"
        /\ SeenLength = l
    BY <2>0, <2>1, <1>2, <1>3, <1>4, <1>6 DEF Attached, SeenLength
  <2>3. inbox' = "-"
    <3>1. tx_left = 0  BY <2>1, <1>1 DEF BoardInv, BoardKept, AnswerBeforeMagic
    <3> QED BY <3>1, <2>2, <1>1 DEF Answer
  <2>4. /\ Len(raw') = Heard' - 1 - Len(Magic) /\ pos' > Len(Magic)
        /\ host' \in {"Sending", "Waiting"}
    BY <2>2, <1>1, <1>2, <1>4, <1>6
  <2>5. \A i \in 1 .. l : Seen(i)' = Seen(i)  BY <1>4, <2>2 DEF Seen
  <2>6. \A i \in 1 .. l : AsSent(i)' <=> AsSent(i)  BY <2>5, <1>1 DEF AsSent
  <2>7. CASE SentBroken(report)
    <3>1. SeenLength' = l /\ hurt' = hurt
      BY <2>7, <2>2, <1>1, <1>4 DEF SentBroken, SeenLength, Got, FramingError
    <3>2. CASE \A i \in 1 .. SeenLength : AsSent(i)
      <4>1. \A i \in 1 .. SeenLength' : AsSent(i)'  BY <3>1, <3>2, <2>2, <2>6
      <4> QED BY <4>1, <2>3, <2>4 DEF Attached
    <3>3. CASE hurt > 0 /\ \E d \in 3 .. SeenLength :
                  ~ AsSent(d) /\ \A i \in (1 .. SeenLength) \ {d} : AsSent(i)
      <4>1. PICK d \in 3 .. SeenLength :
               ~ AsSent(d) /\ \A i \in (1 .. SeenLength) \ {d} : AsSent(i)
        BY <3>3
      <4>2. d \in 1 .. l /\ d \in 3 .. SeenLength'  BY <2>2, <3>1
      <4>3. ~ AsSent(d)' /\ \A i \in (1 .. SeenLength') \ {d} : AsSent(i)'
        BY <4>1, <4>2, <2>2, <2>6, <3>1
      <4>4. hurt' > 0  BY <3>1, <3>3
      <4> QED BY <4>2, <4>3, <4>4, <2>3, <2>4 DEF Attached
    <3> QED BY <2>1, <3>2, <3>3 DEF Attached
  <2>8. ASSUME NEW b \in Byte, report = ByteReport(b)
        PROVE  /\ SeenLength' = l + 1
               /\ AsSent(l + 1)' <=> b = F[pos]
    <3>1. Got' /\ rx.byte' = b  BY <2>8, <1>1 DEF ByteReport, Got
    <3>2. SeenLength' = l + 1  BY <3>1, <2>2, <1>4 DEF SeenLength
    <3>3. Seen(l + 1)' = b  BY <3>1, <2>2, <1>4 DEF Seen
    <3>4. m + (l + 1) = pos  BY <2>2, <1>2
    <3>5. AsSent(l + 1)' <=> Seen(l + 1)' = F[m + (l + 1)]  BY <1>1 DEF AsSent
    <3> QED BY <3>2, <3>3, <3>4, <3>5
  <2>9. CASE SentWell(report)
    <3>1. F[pos] \in Byte  BY <1>2
    <3>2. report = ByteReport(F[pos]) /\ hurt' = hurt  BY <2>9 DEF SentWell
    <3> HIDE DEF F
    <3>3. SeenLength' = l + 1 /\ AsSent(l + 1)'  BY <3>1, <3>2, <2>8
    <3>4. CASE \A i \in 1 .. SeenLength : AsSent(i)
      <4>1. ASSUME NEW i \in 1 .. SeenLength' PROVE AsSent(i)'
        <5>1. i \in 1 .. l \/ i = l + 1  BY <3>3, <2>2
        <5> QED BY <5>1, <3>3, <3>4, <2>2, <2>6
      <4> QED BY <4>1, <2>3, <2>4 DEF Attached
    <3>5. CASE hurt > 0 /\ \E d \in 3 .. SeenLength :
                  ~ AsSent(d) /\ \A i \in (1 .. SeenLength) \ {d} : AsSent(i)
      <4>1. PICK d \in 3 .. SeenLength :
               ~ AsSent(d) /\ \A i \in (1 .. SeenLength) \ {d} : AsSent(i)
        BY <3>5
      <4>2. d \in 1 .. l /\ d \in 3 .. SeenLength'  BY <2>2, <3>3
      <4>3. ASSUME NEW i \in (1 .. SeenLength') \ {d} PROVE AsSent(i)'
        <5>1. i \in (1 .. l) \ {d} \/ i = l + 1  BY <3>3, <2>2
        <5> QED BY <5>1, <3>3, <4>1, <2>2, <2>6
      <4>4. ~ AsSent(d)' /\ hurt' > 0  BY <4>1, <4>2, <2>6, <3>2, <3>5
      <4> QED BY <4>2, <4>3, <4>4, <2>3, <2>4 DEF Attached
    <3> QED BY <2>1, <3>4, <3>5 DEF Attached
  <2>10. CASE SentWrong(report)
    <3>1. PICK b \in Byte \ {F[pos]} : report = ByteReport(b)  BY <2>10 DEF SentWrong
    <3>2. hurt = 0 /\ hurt' > 0 /\ pos > m + 2
      BY <2>10, <1>1, <1>2 DEF SentWrong, HeaderLength
    <3> HIDE DEF F
    <3>3. SeenLength' = l + 1 /\ ~ AsSent(l + 1)'  BY <3>1, <2>8
    <3>4. \A i \in 1 .. l : AsSent(i)
      BY <2>1, <2>2, <3>2 DEF Attached
    <3>5. l + 1 \in 3 .. SeenLength'
      <4>1. l + 1 >= 3  BY <3>2, <2>2, <1>2
      <4> QED BY <4>1, <3>3, <2>2
    <3>6. ASSUME NEW i \in (1 .. SeenLength') \ {l + 1} PROVE AsSent(i)'
      <4>1. i \in 1 .. l  BY <3>3, <2>2
      <4> QED BY <4>1, <3>4, <2>6
    <3> QED BY <3>2, <3>3, <3>5, <3>6, <2>3, <2>4 DEF Attached
  <2> QED BY <2>7, <2>9, <2>10
<1>10. inbox' # "A"
  BY <1>1 DEF Answer, InStep, HostInStep, AnswerInStep
<1>11. tx_left = 0 => tx_left' = 0 /\ inbox' = inbox
  BY <1>1, <1>4 DEF Transmit, Answer
<1>12. HostInStep'
  <2>1. host' = "Sending" => pos' <= Len(F')  BY <1>1, <1>2
  <2>2. host' = "Waiting" => pos' = Len(F') + 1  BY <1>1, <1>2
  <2>3. host' \in {"Sending", "Waiting"}  BY <1>1
  <2>4. pos' <= m + 1 => pos <= m + 1  BY <1>1, <1>2
  <2>5. pos' <= m + 1 => inbox' = "-" /\ tx_left' = 0
    BY <2>4, <1>1, <1>11 DEF InStep, HostInStep
  <2> QED BY <2>1, <2>2, <2>3, <2>5, <1>10 DEF HostInStep
<1>13. AnswerInStep'
  <2>1. tx_left' > 0 => tx_left > 1 /\ tx_byte' = tx_byte
    BY <1>1, <1>4 DEF Transmit
  <2>2. tx_left' > 0 => inbox' = "-"
    BY <2>1, <1>1 DEF Answer, InStep, AnswerInStep
  <2>3. tx_left' > 0 => tx_byte' # "A"
    BY <2>1, <1>1 DEF InStep, AnswerInStep
  <2> QED BY <2>2, <2>3, <1>10 DEF AnswerInStep
<1> QED BY <1>7, <1>8, <1>9, <1>12, <1>13 DEF InStep, FrameInStep

(* While the receiver is in a frame, the host is sending it or waits for     *)
(* the answer to it.                                                         *)
LEMMA HostInFrame ==
    ASSUME BoardInv, InStep, InProtocol
    PROVE  /\ Attached /\ host \in {"Sending", "Waiting"} /\ inbox = "-" /\ pos > Len(Magic)
           /\ host = "Waiting" => rx # NoReport
<1>1. /\ Attached /\ host \in {"Sending", "Waiting"} /\ inbox = "-" /\ pos > Len(Magic)
      /\ Len(raw) = Heard - 1 - Len(Magic)
  BY DEF InStep, FrameInStep, Attached
<1>2. ASSUME host = "Waiting", rx = NoReport PROVE FALSE
  <2>1. pos = Len(Frame(rom)) + 1  BY <1>2 DEF InStep, HostInStep
  <2>2. Len(raw) = pos - 1 - Len(Magic)  BY <1>1, <1>2 DEF Heard
  <2>3. Len(raw) = Len(rom) + 3  BY <2>1, <2>2, FrameNow
  <2>4. Len(raw) <= Len(rom) + 2  BY <1>1, AnnouncedIsSent
  <2>5. \A k \in Nat : ~ (k + 3 <= k + 2)  OBVIOUS
  <2> QED BY <2>3, <2>4, <2>5, FrameNow
<1> QED BY <1>1, <1>2

(* A new attempt of the host starts in step.                                 *)
LEMMA HostStartInStep ==
    ASSUME BoardInv, InStep, HostStart
    PROVE  InStep'
<1>1. /\ host = "Ready" /\ host' = "Sending" /\ pos' = 1 /\ inbox' = "-" /\ tx_left' = tx_left
      /\ rx' = rx /\ rom' = rom /\ state' = state /\ raw' = raw /\ magic_window' = magic_window
  BY DEF HostStart, uploaderVars
<1>2. pos \in {1, Len(Frame(rom)) + 1} /\ tx_left = 0  BY <1>1 DEF InStep, HostInStep
<1>3. ~ InProtocol' /\ ~ InProtocol
  BY <1>1, HostInFrame DEF InProtocol
<1>4. CASE rx = NoReport
  <2>1. WindowShows(0)'  BY <1>1, <1>4 DEF WindowShows, Heard
  <2>2. WindowInStep'  BY <2>1, Constants DEF WindowInStep
  <2>3. LineIntact'  BY <1>1, <1>4 DEF LineIntact
  <2>4. HostInStep' /\ AnswerInStep'
    BY <1>1, <1>2, FrameNow DEF HostInStep, AnswerInStep
  <2> QED BY <1>3, <2>2, <2>3, <2>4 DEF InStep, FrameInStep
<1>5. CASE rx # NoReport
  <2>1. Heard' = Heard
    BY <1>1, <1>2, <1>5, FrameNow DEF Heard
  <2>2. WindowInStep'
    <3>1. PICK j \in 0 .. Len(Magic) : WindowShows(j)  BY DEF InStep, WindowInStep
    <3>2. WindowShows(j)'  BY <3>1, <1>1, <2>1 DEF WindowShows, OldMagic
    <3> QED BY <3>2 DEF WindowInStep
  <2>3. LineIntact'  BY <1>1, <2>1 DEF LineIntact, Hunting, InStep
  <2>4. HostInStep' /\ AnswerInStep'
    BY <1>1, <1>2, FrameNow DEF HostInStep, AnswerInStep
  <2> QED BY <1>3, <2>2, <2>3, <2>4 DEF InStep, FrameInStep
<1> QED BY <1>4, <1>5

(* A host that reads, times out or gives up stays in step.                   *)
LEMMA HostStopsInStep ==
    ASSUME BoardInv, InStep, HostRead \/ HostTimeout \/ (HostAbort /\ trusted')
    PROVE  InStep'
<1>1. /\ UNCHANGED <<uploaderVars, tx_left, tx_byte, gap, rom, pos, inbox, raw, hurt>>
      /\ host' \in {"Ready", "Ok"}
  BY DEF HostRead, HostTimeout, HostAbort
<1>2. /\ Heard' = Heard /\ (Loaded' <=> Loaded) /\ (InProtocol' <=> InProtocol)
      /\ WindowInStep' /\ LineIntact'
  <2>1. Heard' = Heard  BY <1>1 DEF Heard, uploaderVars
  <2>2. (Loaded' <=> Loaded) /\ (InProtocol' <=> InProtocol)
    BY <1>1 DEF Loaded, InProtocol, uploaderVars
  <2>3. WindowInStep'
    <3>1. PICK j \in 0 .. Len(Magic) : WindowShows(j)  BY DEF InStep, WindowInStep
    <3>2. WindowShows(j)'  BY <3>1, <1>1, <2>1 DEF WindowShows, OldMagic, uploaderVars
    <3> QED BY <3>2 DEF WindowInStep
  <2>4. LineIntact'  BY <1>1, <2>1 DEF LineIntact, Hunting, InStep, uploaderVars
  <2> QED BY <2>1, <2>2, <2>3, <2>4
<1>3. CASE HostRead
  <2>1. host = "Waiting" /\ inbox # "-" /\ (host' = "Ok" <=> inbox = "A")
    BY <1>3 DEF HostRead
  <2>2. ~ InProtocol  BY <2>1, HostInFrame
  <2>3. pos = Len(Frame(rom)) + 1 /\ (inbox = "A" => Loaded /\ rx = NoReport)
    BY <2>1 DEF InStep, HostInStep, AnswerInStep
  <2>4. tx_left = 0
    <3>1. ~ (tx_left > 0)  BY <2>1 DEF InStep, AnswerInStep
    <3> QED BY <3>1, Constants DEF BoardInv, UploadTypeOK
  <2>5. HostInStep' /\ AnswerInStep'
    BY <1>1, <1>2, <2>1, <2>3, <2>4 DEF HostInStep, AnswerInStep, uploaderVars
  <2> QED BY <1>2, <2>2, <2>5 DEF InStep, FrameInStep
<1>4. CASE HostTimeout
  <2>1. host = "Waiting" /\ inbox = "-" /\ tx_left = 0 /\ gap = MinGap /\ host' = "Ready"
    BY <1>4 DEF HostTimeout
  <2>2. rx = NoReport  BY <2>1, Constants DEF BoardInv, BoardKept, StagingInTime
  <2>3. ~ InProtocol  BY <2>1, <2>2, HostInFrame
  <2>4. pos = Len(Frame(rom)) + 1  BY <2>1 DEF InStep, HostInStep
  <2>5. HostInStep' /\ AnswerInStep'
    BY <1>1, <2>1, <2>4 DEF HostInStep, AnswerInStep
  <2> QED BY <1>2, <2>3, <2>5 DEF InStep, FrameInStep
<1>5. CASE HostAbort /\ trusted'
  <2>1. host = "Sending" /\ pos = 1 /\ host' = "Ready"  BY <1>5 DEF HostAbort
  <2>2. ~ InProtocol  BY <2>1, HostInFrame, FrameNow
  <2>3. inbox = "-" /\ tx_left = 0
    BY <2>1, FrameNow DEF InStep, HostInStep
  <2>4. HostInStep' /\ AnswerInStep'
    BY <1>1, <2>1, <2>3 DEF HostInStep, AnswerInStep
  <2> QED BY <1>2, <2>2, <2>4 DEF InStep, FrameInStep
<1> QED BY <1>3, <1>4, <1>5

(* Another ROM is taken only between two attempts.                           *)
LEMMA HostSwapInStep ==
    ASSUME BoardInv, InStep, HostSwap
    PROVE  InStep'
<1>1. /\ host = "Ok" /\ host' = "Ready" /\ pos' = 1 /\ inbox' = inbox /\ tx_left' = tx_left
      /\ rx' = rx /\ state' = state
  BY DEF HostSwap, uploaderVars
<1>2. rx = NoReport /\ inbox = "A"  BY <1>1 DEF InStep, HostInStep
<1>3. tx_left = 0
  <2>1. ~ (tx_left > 0)  BY <1>2 DEF InStep, AnswerInStep
  <2> QED BY <2>1, Constants DEF BoardInv, UploadTypeOK
<1>4. ~ InProtocol'  BY <1>1, HostInFrame DEF InProtocol
<1>5. WindowInStep'
  <2>1. WindowShows(0)'  BY <1>1, <1>2 DEF WindowShows, Heard
  <2> QED BY <2>1, Constants DEF WindowInStep
<1>6. LineIntact' /\ HostInStep' /\ AnswerInStep'
  BY <1>1, <1>2, <1>3 DEF LineIntact, HostInStep, AnswerInStep
<1> QED BY <1>4, <1>5, <1>6 DEF InStep, FrameInStep

(* A step in which nothing moves.                                            *)
LEMMA StutterInStep ==
    ASSUME InStep, UNCHANGED uploadVars
    PROVE  InStep'
<1>1. Heard' = Heard /\ SeenLength' = SeenLength
  BY DEF uploadVars, uploaderVars, Heard, SeenLength, Got
<1>2. WindowInStep'
  <2>1. PICK j \in 0 .. Len(Magic) : WindowShows(j)  BY DEF InStep, WindowInStep
  <2>2. WindowShows(j)'  BY <2>1, <1>1 DEF WindowShows, OldMagic, uploadVars, uploaderVars
  <2> QED BY <2>2 DEF WindowInStep
<1>3. Attached <=> Attached'
  BY <1>1 DEF Attached, AsSent, Seen, uploadVars, uploaderVars
<1>4. LineIntact' /\ FrameInStep' /\ HostInStep' /\ AnswerInStep'
  BY <1>1, <1>3
  DEF InStep, LineIntact, FrameInStep, HostInStep, AnswerInStep, Hunting, InProtocol, Loaded,
      uploadVars, uploaderVars
<1> QED BY <1>2, <1>4 DEF InStep

(* Host and board start in step.                                             *)
LEMMA UploadInitially ==
    ASSUME UploadInit
    PROVE  UploadInv
<1>1. BoardInv  BY BoardInitially
<1>2. /\ rx = NoReport /\ state = "WaitMagic" /\ tx_left = 0 /\ host = "Ready" /\ pos = 1
      /\ inbox = "-"
  BY DEF UploadInit, UploaderInit
<1>3. WindowInStep
  <2>1. WindowShows(0)  BY <1>2 DEF WindowShows, Heard
  <2> QED BY <2>1, Constants DEF WindowInStep
<1>4. LineIntact /\ FrameInStep /\ HostInStep /\ AnswerInStep
  BY <1>2 DEF LineIntact, FrameInStep, InProtocol, HostInStep, AnswerInStep
<1> QED BY <1>1, <1>3, <1>4 DEF UploadInv, InStep

(* Every step of host, line and board keeps the whole invariant.             *)
LEMMA UploadStep ==
    ASSUME UploadInv, [UploadNext]_uploadVars
    PROVE  UploadInv'
<1>1. BoardInv /\ BoardInv'  BY BoardStep DEF UploadInv
<1>2. trusted \in BOOLEAN /\ trusted' \in BOOLEAN
  BY <1>1 DEF BoardInv, HistoryTypeOK
<1>3. SUFFICES ASSUME trusted' PROVE InStep'  BY <1>1 DEF UploadInv
<1>4. trusted
  BY <1>2, <1>3
  DEF UploadNext, QuietClock, PressReset, HostStart, DeliverByte, BreakStopBit, CorruptByte,
      LoseByte, HostRead, HostSwap, HostTimeout, HostAbort, uploadVars
<1>5. InStep  BY <1>4 DEF UploadInv
<1>6. CASE QuietClock  BY <1>1, <1>5, <1>6, QuietInStep DEF QuietClock
<1>7. CASE PressReset  BY <1>1, <1>5, <1>7, ResetInStep
<1>8. CASE HostStart  BY <1>1, <1>5, <1>8, HostStartInStep
<1>9. CASE DeliverByte
  <2>1. ByteReport(Frame(rom)[pos]) \in Report
    <3>1. pos \in 1 .. Len(Frame(rom))
      BY <1>1, <1>9, FrameNow DEF DeliverByte, SendNext, BoardInv, HistoryTypeOK
    <3>2. Frame(rom)[pos] \in Byte  BY <3>1, <1>1, FrameNow
    <3> QED BY <3>2, Reports
  <2> QED BY <2>1, <1>1, <1>5, <1>9, SendInStep DEF DeliverByte, SentWell
<1>10. CASE BreakStopBit
  <2>1. ~ Hunting /\ hurt' = hurt  BY <1>10, <1>3 DEF BreakStopBit
  <2> QED
    BY <2>1, <1>1, <1>5, <1>10, Reports, SendInStep DEF BreakStopBit, LineFault, SentBroken
<1>11. CASE CorruptByte
  <2>1. ~ Hunting /\ pos > HeaderLength /\ hurt = 0 /\ hurt' = hurt + 1
    BY <1>11, <1>3 DEF CorruptByte
  <2>2. PICK b \in Byte \ {Frame(rom)[pos]} : BoardClock(ByteReport(b))
    BY <1>11 DEF CorruptByte
  <2>3. SentWrong(ByteReport(b))  BY <2>1 DEF SentWrong
  <2> QED
    BY <2>2, <2>3, <1>1, <1>5, <1>11, Reports, SendInStep DEF CorruptByte, LineFault
<1>12. CASE LoseByte
  <2>1. trusted' = FALSE  BY <1>12 DEF LoseByte
  <2> QED BY <2>1, <1>3
<1>13. CASE HostRead  BY <1>1, <1>5, <1>13, HostStopsInStep
<1>14. CASE HostSwap  BY <1>1, <1>5, <1>14, HostSwapInStep
<1>15. CASE HostTimeout  BY <1>1, <1>5, <1>15, HostStopsInStep
<1>16. CASE HostAbort  BY <1>1, <1>3, <1>5, <1>16, HostStopsInStep
<1>17. CASE UNCHANGED uploadVars  BY <1>5, <1>17, StutterInStep
<1> QED
  BY <1>6, <1>7, <1>8, <1>9, <1>10, <1>11, <1>12, <1>13, <1>14, <1>15, <1>16, <1>17
  DEF UploadNext

(* An upload that is acknowledged has arrived, whatever fault came before    *)
(* that leaves the receiver its header: OkMeansLoaded.                       *)
THEOREM SuccessIsLoaded == UploadSpec => []OkMeansLoaded
<1>1. UploadInit => UploadInv  BY UploadInitially
<1>2. UploadInv /\ [UploadNext]_uploadVars => UploadInv'  BY UploadStep
<1>3. UploadInv => OkMeansLoaded
  BY DEF UploadInv, InStep, HostInStep, Loaded, OkMeansLoaded
<1> QED BY <1>1, <1>2, <1>3, PTL DEF UploadSpec
=============================================================================
