---------------------------- MODULE ClientProofs ----------------------------
(***************************************************************************)
(* Proofs about what the clients do without the server: Totp, TokenFile,   *)
(* BlobSizes and Forms, one section each.                                  *)
(***************************************************************************)
EXTENDS MCClient, TLAPS

----------------------------------------------------------------------------
(* Totp, for every precision of the clock, every period, every secret and  *)
(* any hash function: how long a code lasts, what is said about it, and    *)
(* that its arithmetic stays in bounds.                                    *)

LEMMA DivRem ==
  ASSUME NEW n \in Nat, NEW p \in Nat \ {0}
  PROVE  /\ n \div p \in Nat
         /\ n % p \in 0 .. p - 1
         /\ n = p * (n \div p) + (n % p)
OBVIOUS

LEMMA MultMonotonic ==
  ASSUME NEW a \in Nat, NEW b \in Nat, NEW p \in Nat, a <= b
  PROVE  p * a <= p * b
<1>1. PICK d \in Nat : b = a + d
  <2>1. b - a \in Nat /\ b = a + (b - a)
    OBVIOUS
  <2> QED
    BY <2>1
<1>2. p * b = p * a + p * d
  BY <1>1
<1>3. p * d \in Nat /\ p * a \in Nat
  BY <1>1
<1> QED
  BY <1>2, <1>3

(* Quotients of one divisor come in the order of the numbers divided.      *)
LEMMA DivMonotonic ==
  ASSUME NEW m \in Nat, NEW n \in Nat, NEW p \in Nat \ {0}, m <= n
  PROVE  m \div p <= n \div p
<1> DEFINE a == m \div p
           b == n \div p
<1>1. a \in Nat /\ b \in Nat /\ p * a <= m /\ n < p * b + p
  BY DivRem
<1>2. SUFFICES ASSUME b + 1 <= a PROVE FALSE
  BY <1>1
<1> HIDE DEF a, b
<1>3. p * (b + 1) <= p * a
  BY <1>1, <1>2, MultMonotonic
<1>4. p * (b + 1) = p * b + p
  BY <1>1
<1> QED
  BY <1>1, <1>3, <1>4

(* From its first second on, a period is the current one up to its end.    *)
LEMMA PeriodEnds ==
  ASSUME NEW n \in Nat, NEW c \in Nat, NEW p \in Nat \ {0}, p * c <= n
  PROVE  (n \div p = c) <=> (n < p * c + p)
<1> DEFINE q == n \div p
<1>1. q \in Nat /\ p * q <= n /\ n < p * q + p
  BY DivRem
<1> HIDE DEF q
<1>2. ASSUME q = c PROVE n < p * c + p
  BY <1>1, <1>2
<1>3. ASSUME n < p * c + p, c + 1 <= q PROVE FALSE
  <2>1. p * (c + 1) <= p * q
    BY <1>1, <1>3, MultMonotonic
  <2>2. p * (c + 1) = p * c + p
    OBVIOUS
  <2> QED
    BY <1>1, <1>3, <2>1, <2>2
<1>4. ASSUME q + 1 <= c PROVE FALSE
  <2>1. p * (q + 1) <= p * c
    BY <1>1, <1>4, MultMonotonic
  <2>2. p * (q + 1) = p * q + p
    BY <1>1
  <2> QED
    BY <1>1, <2>1, <2>2
<1>5. q = c <=> n < p * c + p
  BY <1>1, <1>2, <1>3, <1>4
<1> QED
  BY <1>5 DEF q

LEMMA UnixType ==
  ASSUME NEW t \in Nat
  PROVE  /\ Unix(t) \in Nat
         /\ Unix(t) <= t
         /\ Unix(t) * TicksPerSecond <= t
         /\ t < Unix(t) * TicksPerSecond + TicksPerSecond
<1> DEFINE k == TicksPerSecond
           q == t \div k
<1>1. k \in Nat \ {0}
  BY TotpAssumption
<1>2. q \in Nat /\ k * q <= t /\ t < k * q + k
  BY <1>1, DivRem
<1> HIDE DEF k, q
<1>3. q * k = k * q
  BY <1>1, <1>2
<1>4. q * 1 <= q * k
  BY <1>1, <1>2, MultMonotonic
<1>5. q <= t
  BY <1>1, <1>2, <1>3, <1>4
<1> QED
  BY <1>2, <1>3, <1>5 DEF q, k, Unix

(* The seconds that remain are those up to the end of the period.          *)
LEMMA RemainingEndsPeriod ==
  ASSUME NEW t \in Nat, NEW p \in Nat \ {0}
  PROVE  /\ Counter(t, p) \in Nat
         /\ p * Counter(t, p) <= Unix(t)
         /\ RemainingSeconds(t, p) \in 1 .. p
         /\ Unix(t) + RemainingSeconds(t, p) = p * Counter(t, p) + p
<1> DEFINE n == Unix(t)
<1>1. n \in Nat
  BY UnixType
<1> HIDE DEF n
<1>2. /\ n \div p \in Nat
      /\ n % p \in 0 .. p - 1
      /\ n = p * (n \div p) + (n % p)
  BY <1>1, DivRem
<1>3. Counter(t, p) = n \div p
  BY DEF n, Counter
<1>4. RemainingSeconds(t, p) = IF n % p = 0 THEN p ELSE p - (n % p)
  BY DEF n, RemainingSeconds
<1>5. p * (n \div p) \in Nat
  BY <1>2
<1> DEFINE q == n \div p
           r == n % p
<1> HIDE DEF q, r
<1>6. /\ q \in Nat
      /\ r \in 0 .. p - 1
      /\ p * q \in Nat
      /\ n = p * q + r
      /\ Counter(t, p) = q
      /\ RemainingSeconds(t, p) = IF r = 0 THEN p ELSE p - r
  BY <1>2, <1>3, <1>4, <1>5 DEF q, r
<1>7. n = Unix(t)
  BY DEF n
<1> QED
  BY <1>1, <1>6, <1>7

(* The code on the screen is the one CurrentOTPCode made of the payload.   *)
CodeIsOfMadeAt ==
  code # None => /\ Usable(payload)
                 /\ code = CurrentOTPCode(payload, madeAt)

IInv ==
  /\ clock \in 0 .. MaxClock
  /\ payload \in Payload
  /\ madeAt \in 0 .. clock
  /\ CodeIsOfMadeAt

LEMMA InitInv == Init => IInv
BY TotpAssumption DEF Init, IInv, CodeIsOfMadeAt, Payload

LEMMA StepInv == IInv /\ [Next]_vars => IInv'
<1> SUFFICES ASSUME IInv, [Next]_vars PROVE IInv'
  OBVIOUS
<1>1. CASE Generate
  BY <1>1, TotpAssumption DEF Generate, IInv, CodeIsOfMadeAt
<1>2. CASE Tick
  BY <1>2, TotpAssumption DEF Tick, IInv, CodeIsOfMadeAt
<1>3. CASE UNCHANGED vars
  BY <1>3 DEF vars, IInv, CodeIsOfMadeAt
<1> QED
  BY <1>1, <1>2, <1>3 DEF Next

LEMMA InvHolds == Spec => []IInv
BY InitInv, StepInv, PTL DEF Spec

LEMMA PeriodType == IInv => Period(payload) \in Nat \ {0}
<1>1. IInv => payload.period \in Nat
  BY TotpAssumption DEF IInv, Payload
<1> QED
  BY <1>1 DEF Period, DefaultOTPPeriodSeconds

(* What the shown code says, and what it was made of.                      *)
LEMMA CodeFields ==
  ASSUME IInv, code # None
  PROVE  /\ code.counter = Counter(madeAt, Period(payload))
         /\ code.remaining = RemainingSeconds(madeAt, Period(payload))
         /\ code.expiresAt = ExpiresAt(madeAt, code.remaining)
         /\ code.value = Hotp(payload, code.counter)
         /\ madeAt \in Nat /\ clock \in Nat /\ madeAt <= clock
BY TotpAssumption DEF IInv, CodeIsOfMadeAt, CurrentOTPCode

(* Four bytes of a sum with the sign bit cleared are a number of 31 bits.  *)
LEMMA BinaryCodeFits ==
  ASSUME NEW sum \in Seq(Byte), Len(sum) >= 20
  PROVE  /\ Offset(sum) + 4 <= Len(sum)
         /\ BinaryCode(sum) \in Nat
         /\ BinaryCode(sum) <= Int32Max
<1> DEFINE o == Offset(sum)
           last == sum[Len(sum)]
           b1 == sum[o + 1]
           b2 == sum[o + 2]
           b3 == sum[o + 3]
           b4 == sum[o + 4]
           top == b1 % 128
           high == top * 256 + b2
           low == b3 * 256 + b4
           h == 65536
<1>1. Len(sum) \in Nat /\ \A i \in 1 .. Len(sum) : sum[i] \in Byte
  OBVIOUS
<1>2. last \in Byte
  BY <1>1
<1>3. o = last % 16
  BY DEF Offset
<1> HIDE DEF o, last
<1>4. o \in 0 .. 16 - 1
  BY <1>2, <1>3, DivRem DEF Byte
<1>5. o + 4 <= Len(sum)
  BY <1>1, <1>4
<1>6. b1 \in Byte /\ b2 \in Byte /\ b3 \in Byte /\ b4 \in Byte
  BY <1>1, <1>4, <1>5
<1>7. BinaryCode(sum) = high * h + low
  BY DEF BinaryCode, o
<1> HIDE DEF b1, b2, b3, b4
<1>8. top \in 0 .. 128 - 1
  BY <1>6, DivRem DEF Byte
<1> HIDE DEF top
<1>9. high \in Nat /\ high <= 32767 /\ low \in Nat /\ low <= 65535
  <2>1. /\ top \in 0 .. 127 /\ b2 \in 0 .. 255
        /\ b3 \in 0 .. 255 /\ b4 \in 0 .. 255
    BY <1>6, <1>8 DEF Byte
  <2>2. high \in Nat /\ high <= 32767
    BY <2>1
  <2>3. low \in Nat /\ low <= 65535
    BY <2>1
  <2> QED
    BY <2>2, <2>3
<1>10. h \in Nat /\ Int32Max = 32767 * h + 65535
  BY DEF Int32Max
<1> HIDE DEF high, low, h
<1>11. high * h \in Nat /\ high * h <= 32767 * h
  <2>1. h * high <= h * 32767
    BY <1>9, <1>10, MultMonotonic
  <2> QED
    BY <1>9, <1>10, <2>1
<1>12. BinaryCode(sum) \in Nat /\ BinaryCode(sum) <= 32767 * h + 65535
  <2>1. 32767 * h \in Nat
    BY <1>10
  <2> DEFINE x == high * h
             y == 32767 * h
  <2>2. /\ x \in Nat /\ y \in Nat /\ x <= y
        /\ BinaryCode(sum) = x + low
    BY <1>7, <1>11, <2>1
  <2> HIDE DEF x, y
  <2>3. x + low \in Nat /\ x + low <= y + 65535
    BY <1>9, <2>2
  <2> QED
    BY <2>2, <2>3 DEF y
<1> QED
  BY <1>5, <1>10, <1>12 DEF o

LEMMA Pow10Type ==
  ASSUME NEW d
  PROVE  Pow10(d) \in Nat \ {0}
<1>1. ASSUME NEW a \in Nat \ {0}
      PROVE  a * a \in Nat \ {0}
  BY <1>1, MultMonotonic
<1> DEFINE six == 1000 * 1000
           eight == 10000 * 10000
<1>2. six \in Nat \ {0} /\ eight \in Nat \ {0}
  BY <1>1
<1> HIDE DEF six, eight
<1>3. Pow10(d) = IF d = 6 THEN six ELSE eight
  BY DEF Pow10, six, eight
<1> QED
  BY <1>2, <1>3

(* The arithmetic of the shown code stays in bounds.                       *)
LEMMA CodeBounds ==
  ASSUME IInv, code # None
  PROVE  LET sum == Mac[payload.secret][payload.algorithm][code.counter] IN
         /\ Offset(sum) + 4 <= Len(sum)
         /\ BinaryCode(sum) <= Int32Max
         /\ code.value \in Nat
         /\ code.value < Pow10(payload.digits)
<1> DEFINE p == Period(payload)
           c == code.counter
           sum == Mac[payload.secret][payload.algorithm][c]
           m == Pow10(payload.digits)
           b == BinaryCode(sum)
<1>1. p \in Nat \ {0}
  BY PeriodType
<1>2. c \in Nat /\ p * c <= Unix(madeAt)
  BY <1>1, CodeFields, RemainingEndsPeriod
<1>3. Unix(madeAt) \in Nat /\ Unix(madeAt) <= MaxClock
  BY CodeFields, UnixType, TotpAssumption DEF IInv
<1>4. c <= p * c /\ p * c \in Nat
  <2> HIDE DEF p, c
  <2>1. c * 1 <= c * p
    BY <1>1, <1>2, MultMonotonic
  <2> QED
    BY <2>1, <1>1, <1>2
<1>5. c \in 0 .. MaxClock
  <2> HIDE DEF p, c
  <2> QED
    BY <1>2, <1>3, <1>4, TotpAssumption
<1>6. payload.secret \in Keys /\ payload.algorithm \in Algorithms
  BY DEF IInv, CodeIsOfMadeAt, Usable, Payload
<1>7. sum \in Seq(Byte) /\ Len(sum) >= 20
  BY <1>5, <1>6, TotpAssumption
<1>8. code.value = b % m
  BY CodeFields DEF Hotp
<1> HIDE DEF sum
<1>9. Offset(sum) + 4 <= Len(sum) /\ b \in Nat /\ b <= Int32Max
  BY <1>7, BinaryCodeFits
<1>10. m \in Nat \ {0}
  BY Pow10Type
<1> HIDE DEF b, m
<1>11. b % m \in 0 .. m - 1
  BY <1>9, <1>10, DivRem
<1>12. code.value \in Nat /\ code.value < m
  BY <1>8, <1>10, <1>11
<1> QED
  BY <1>9, <1>12 DEF sum, b, m

(* The variables keep their types (core/otp.go OTPCode).                   *)
THEOREM TypeCorrect == Spec => []TypeOK
<1>1. IInv => TypeOK
  <2> SUFFICES ASSUME IInv, code # None
               PROVE  code \in [counter: Nat, value: Nat, remaining: Nat,
                                expiresAt: Nat]
    BY DEF IInv, TypeOK
  <2> DEFINE p == Period(payload)
             r == code.remaining
  <2>1. p \in Nat \ {0}
    BY PeriodType
  <2>2. code.counter \in Nat /\ r \in Nat
    <3>1. r \in 1 .. p /\ code.counter \in Nat
      BY <2>1, CodeFields, RemainingEndsPeriod
    <3> HIDE DEF r, p
    <3> QED
      BY <2>1, <3>1
  <2>3. code.expiresAt \in Nat
    <3>1. r * TicksPerSecond \in Nat
      BY <2>2, TotpAssumption
    <3> HIDE DEF r
    <3>2. code.expiresAt = madeAt + r * TicksPerSecond
      BY CodeFields DEF ExpiresAt, r
    <3> QED
      BY <3>1, <3>2, CodeFields
  <2>4. code.value \in Nat
    BY CodeBounds, SMT
  <2>5. code = CurrentOTPCode(payload, madeAt)
    BY DEF IInv, CodeIsOfMadeAt
  <2>6. code = [counter |-> code.counter, value |-> code.value,
                remaining |-> code.remaining, expiresAt |-> code.expiresAt]
    BY <2>5 DEF CurrentOTPCode
  <2> QED
    BY <2>2, <2>3, <2>4, <2>6
<1> QED
  BY <1>1, InvHolds, PTL

(* The code shown is the current one for exactly the seconds it was said   *)
(* to remain (totp.go GenerateTOTP, RemainingSeconds).                     *)
THEOREM CodesLastAsSaid == Spec => []CodeLastsRemaining
<1>1. IInv => CodeLastsRemaining
  <2> SUFFICES ASSUME IInv, code # None
               PROVE  (Counter(clock, Period(payload)) = code.counter)
                        <=> (Unix(clock) < Unix(madeAt) + code.remaining)
    BY DEF CodeLastsRemaining
  <2> DEFINE p == Period(payload)
             c == code.counter
             n == Unix(clock)
  <2>1. p \in Nat \ {0}
    BY PeriodType
  <2>2. /\ c \in Nat
        /\ p * c <= Unix(madeAt)
        /\ Unix(madeAt) + code.remaining = p * c + p
    BY <2>1, CodeFields, RemainingEndsPeriod
  <2>3. n \in Nat /\ Unix(madeAt) \in Nat
    BY CodeFields, UnixType
  <2>4. Unix(madeAt) <= n
    BY CodeFields, DivMonotonic, TotpAssumption DEF Unix
  <2>5. p * c <= n
    <3>1. p * c \in Nat
      BY <2>1, <2>2
    <3> HIDE DEF p, c, n
    <3> QED
      BY <3>1, <2>2, <2>3, <2>4
  <2>6. n \div p = c <=> n < p * c + p
    BY <2>1, <2>2, <2>3, <2>5, PeriodEnds
  <2> QED
    BY <2>2, <2>6 DEF Counter
<1> QED
  BY <1>1, InvHolds, PTL

(* Some second always remains, never more than the period (totp.go         *)
(* RemainingSeconds).                                                      *)
THEOREM SomeSecondRemains == Spec => []RemainingInPeriod
<1>1. IInv => RemainingInPeriod
  BY PeriodType, CodeFields, RemainingEndsPeriod DEF RemainingInPeriod
<1> QED
  BY <1>1, InvHolds, PTL

(* The expiry shown is the rotation, late by less than a second (core's    *)
(* CurrentOTPCode).                                                        *)
THEOREM ExpiryIsOfRotation == Spec => []ExpiresWithinASecond
<1>1. IInv => ExpiresWithinASecond
  <2> DEFINE p == Period(payload)
             c == code.counter
             k == TicksPerSecond
             s == Unix(madeAt)
             r == code.remaining
             rotation == (c + 1) * p * k
  <2> SUFFICES ASSUME IInv, code # None
               PROVE  /\ rotation <= code.expiresAt
                      /\ code.expiresAt < rotation + k
    BY DEF ExpiresWithinASecond
  <2>1. p \in Nat \ {0} /\ k \in Nat \ {0}
    BY PeriodType, TotpAssumption
  <2>2. /\ c \in Nat
        /\ r \in 1 .. p
        /\ s + r = p * c + p
    BY <2>1, CodeFields, RemainingEndsPeriod
  <2>3. s \in Nat /\ s * k <= madeAt /\ madeAt < s * k + k /\ madeAt \in Nat
    BY CodeFields, UnixType
  <2>4. code.expiresAt = madeAt + r * k
    BY CodeFields DEF ExpiresAt
  <2> HIDE DEF p, c, k, s, r
  <2>5. (c + 1) * p = s + r
    BY <2>1, <2>2
  <2>6. rotation = (s + r) * k
    BY <2>5
  <2>7. (s + r) * k = s * k + r * k
    BY <2>1, <2>2, <2>3
  <2>8. s * k \in Nat /\ r * k \in Nat
    BY <2>1, <2>2, <2>3
  <2> QED
    BY <2>1, <2>3, <2>4, <2>6, <2>7, <2>8
<1> QED
  BY <1>1, InvHolds, PTL

(* hotp reads inside the sum, does not overflow 32 bits, and answers no    *)
(* more digits than asked for.                                             *)
THEOREM CodesFit == Spec => []CodeFits
<1>1. IInv => CodeFits
  BY CodeBounds, SMT DEF CodeFits
<1> QED
  BY <1>1, InvHolds, PTL

(* A code, and the seconds and the expiry that come with it, are right     *)
(* (totp.go GenerateTOTP, otp.go CurrentOTPCode).                          *)
THEOREM CodesAreAsSaid == Spec => []CodeIsAsSaid
<1>1. /\ CodeLastsRemaining
      /\ RemainingInPeriod
      /\ ExpiresWithinASecond
      /\ CodeFits
      => CodeIsAsSaid
  BY DEF CodeIsAsSaid
<1> QED
  BY <1>1, CodesLastAsSaid, SomeSecondRemains, ExpiryIsOfRotation,
     CodesFit, PTL

----------------------------------------------------------------------------
(* TokenFile, for any number of processes that save to one token file, any *)
(* of which may fail or be killed at any step.                             *)

(* The inductive invariant is TokenFileInv: that the token file is whole   *)
(* rests on what the phase of a Save says of its temporary.                *)

LEMMA InitFileInv == InitFile => TokenFileInv
BY TokenFileAssumption
DEF InitFile, TokenFileInv, TypeOKFile, TokenFileWhole, TempOfPhase, Names, File

(* A step of Save that writes nothing but its own temporary.               *)
LEMMA OwnTempInv ==
  ASSUME TokenFileInv, NEW p \in Processes,
         NEW f \in File \cup {NoFile}, Put(p, f),
         NEW ph \in {"encode", "chmod", "close", "done"}, Goto(p, ph),
         UNCHANGED result,
         ph = "done" => f = NoFile,
         ph # "done" => /\ f \in File /\ f.token = p /\ f.private
                        /\ result[p] = "none",
         ph \in {"chmod", "close"} => f.whole
  PROVE  TokenFileInv'
<1>1. /\ files' = [files EXCEPT ![p] = f]
      /\ phase' = [phase EXCEPT ![p] = ph]
  BY DEF Put, Goto
<1>2. TypeOKFile'
  BY <1>1 DEF TokenFileInv, TypeOKFile, Names
<1>3. TokenFileWhole'
  BY <1>1, TokenFileAssumption
  DEF TokenFileInv, TypeOKFile, TokenFileWhole, Names
<1>4. \A q \in Processes : TempOfPhase(q)'
  <2> SUFFICES ASSUME NEW q \in Processes PROVE TempOfPhase(q)'
    OBVIOUS
  <2>1. f \in File => f # NoFile
    BY TokenFileAssumption DEF File
  <2>2. CASE q = p
    BY <1>1, <2>1, <2>2 DEF TokenFileInv, TypeOKFile, TempOfPhase, Names
  <2>3. CASE q # p
    BY <1>1, <2>3 DEF TokenFileInv, TypeOKFile, TempOfPhase, Names
  <2> QED
    BY <2>2, <2>3
<1> QED
  BY <1>2, <1>3, <1>4 DEF TokenFileInv

(* A step that writes no file.                                             *)
LEMMA NoFileInv ==
  ASSUME TokenFileInv, NEW p \in Processes, UNCHANGED files,
         NEW ph \in {"create", "rename", "remove", "done", "killed"},
         Goto(p, ph),
         result' = result \/ Return(p, "error"),
         ph \in {"create", "rename"} => UNCHANGED result,
         ph = "create" => phase[p] = "idle",
         ph = "rename" => phase[p] = "close",
         ph = "done" => files[p] = NoFile
  PROVE  TokenFileInv'
<1>1. phase' = [phase EXCEPT ![p] = ph]
  BY DEF Goto
<1>2. \/ result' = result
      \/ result' = [result EXCEPT ![p] = "error"]
  BY DEF Return
<1>3. TypeOKFile'
  BY <1>1, <1>2 DEF TokenFileInv, TypeOKFile
<1>4. TokenFileWhole'
  BY DEF TokenFileInv, TokenFileWhole
<1>5. \A q \in Processes : TempOfPhase(q)'
  <2> SUFFICES ASSUME NEW q \in Processes PROVE TempOfPhase(q)'
    OBVIOUS
  <2>1. TempOfPhase(q)
    BY DEF TokenFileInv
  <2>2. CASE q = p
    BY <1>1, <2>1, <2>2 DEF TokenFileInv, TypeOKFile, TempOfPhase
  <2>3. CASE q # p
    BY <1>1, <1>2, <2>1, <2>3 DEF TokenFileInv, TypeOKFile, TempOfPhase
  <2> QED
    BY <2>2, <2>3
<1> QED
  BY <1>3, <1>4, <1>5 DEF TokenFileInv

LEMMA RenameInv ==
  ASSUME TokenFileInv, NEW p \in Processes, Rename(p)
  PROVE  TokenFileInv' /\ files'[Path] = Saved(p)
<1>1. /\ phase[p] = "rename"
      /\ files' = [files EXCEPT ![Path] = files[p], ![p] = NoFile]
      /\ phase' = [phase EXCEPT ![p] = "remove"]
      /\ result' = [result EXCEPT ![p] = "saved"]
  BY DEF Rename, Goto, Return
<1>2. files[p] \in File /\ files[p] = Saved(p)
  BY <1>1 DEF TokenFileInv, TypeOKFile, TempOfPhase, Names, File, Saved
<1>3. files'[Path] = Saved(p)
  BY <1>1, <1>2, TokenFileAssumption DEF TokenFileInv, TypeOKFile, Names
<1>4. TypeOKFile'
  BY <1>1, <1>2 DEF TokenFileInv, TypeOKFile, Names
<1>5. TokenFileWhole'
  BY <1>3 DEF TokenFileWhole, Saved
<1>6. \A q \in Processes : TempOfPhase(q)'
  <2> SUFFICES ASSUME NEW q \in Processes PROVE TempOfPhase(q)'
    OBVIOUS
  <2>1. CASE q = p
    BY <1>1, <2>1 DEF TokenFileInv, TypeOKFile, TempOfPhase
  <2>2. CASE q # p
    BY <1>1, <2>2, TokenFileAssumption
    DEF TokenFileInv, TypeOKFile, TempOfPhase, Names
  <2> QED
    BY <2>1, <2>2
<1> QED
  BY <1>3, <1>4, <1>5, <1>6 DEF TokenFileInv

LEMMA SaveInv ==
  ASSUME TokenFileInv, NEW p \in Processes, Save(p) \/ Kill(p)
  PROVE  TokenFileInv'
<1>0. TempOfPhase(p) /\ files[p] \in File \cup {NoFile}
  BY DEF TokenFileInv, TypeOKFile, Names
<1>1. CASE Start(p)
  BY <1>0, <1>1, NoFileInv DEF Start, TempOfPhase
<1>2. CASE CreateTemp(p)
  <2> DEFINE f == [token |-> p, whole |-> FALSE, private |-> TRUE]
  <2>1. f \in File /\ f.token = p /\ f.private
    BY DEF File
  <2>2. Put(p, f) /\ Goto(p, "encode") /\ UNCHANGED result
    BY <1>2 DEF CreateTemp
  <2>3. result[p] = "none"
    BY <1>0, <1>2 DEF CreateTemp, TempOfPhase
  <2> HIDE DEF f
  <2> QED
    BY <2>1, <2>2, <2>3, OwnTempInv
<1>3. CASE Encode(p)
  <2> DEFINE f == [files[p] EXCEPT !.whole = TRUE]
  <2>1. files[p] \in File /\ files[p].token = p /\ files[p].private
    BY <1>0, <1>3 DEF Encode, TempOfPhase
  <2>2. f \in File /\ f.token = p /\ f.private /\ f.whole
    BY <2>1 DEF File
  <2>3. Put(p, f) /\ Goto(p, "chmod") /\ UNCHANGED result
    BY <1>3 DEF Encode
  <2>4. result[p] = "none"
    BY <1>0, <1>3 DEF Encode, TempOfPhase
  <2> HIDE DEF f
  <2> QED
    BY <2>2, <2>3, <2>4, OwnTempInv
<1>4. CASE Chmod(p)
  <2> DEFINE f == [files[p] EXCEPT !.private = TRUE]
  <2>1. files[p] \in File /\ files[p].token = p /\ files[p].whole
    BY <1>0, <1>4 DEF Chmod, TempOfPhase
  <2>2. f \in File /\ f.token = p /\ f.private /\ f.whole
    BY <2>1 DEF File
  <2>3. Put(p, f) /\ Goto(p, "close") /\ UNCHANGED result
    BY <1>4 DEF Chmod
  <2>4. result[p] = "none"
    BY <1>0, <1>4 DEF Chmod, TempOfPhase
  <2> HIDE DEF f
  <2> QED
    BY <2>2, <2>3, <2>4, OwnTempInv
<1>5. CASE Close(p)
  BY <1>5, NoFileInv DEF Close
<1>6. CASE Rename(p)
  BY <1>6, RenameInv
<1>7. CASE Fail(p)
  BY <1>7, NoFileInv DEF Fail
<1>8. CASE Remove(p)
  BY <1>8, OwnTempInv DEF Remove
<1>9. CASE Kill(p)
  BY <1>9, NoFileInv DEF Kill
<1> QED
  BY <1>1, <1>2, <1>3, <1>4, <1>5, <1>6, <1>7, <1>8, <1>9 DEF Save

LEMMA StepFileInv == TokenFileInv /\ [NextFile]_fileVars => TokenFileInv'
<1> SUFFICES ASSUME TokenFileInv, [NextFile]_fileVars PROVE TokenFileInv'
  OBVIOUS
<1>1. CASE NextFile
  BY <1>1, SaveInv DEF NextFile
<1>2. CASE UNCHANGED fileVars
  BY <1>2 DEF fileVars, TokenFileInv, TypeOKFile, TokenFileWhole, TempOfPhase
<1> QED
  BY <1>1, <1>2

(* The inductive invariant, the types included (file_token_store.go Save). *)
THEOREM TokenFileInvHolds == SpecFile => []TokenFileInv
BY InitFileInv, StepFileInv, PTL DEF SpecFile

(* Whatever fails or is killed, the token file is one whole private token  *)
(* (file_token_store.go Save: a temporary file and a rename).              *)
THEOREM WholeAtAllTimes == SpecFile => []TokenFileWhole
<1>1. TokenFileInv => TokenFileWhole
  BY DEF TokenFileInv
<1> QED
  BY <1>1, TokenFileInvHolds, PTL

(* A Save that returned has left no temporary file behind (the deferred    *)
(* Remove).                                                                *)
THEOREM TempsAreRemoved == SpecFile => []OnlyKilledLeaveTemps
<1>1. TokenFileInv => OnlyKilledLeaveTemps
  BY DEF TokenFileInv, TempOfPhase, OnlyKilledLeaveTemps
<1> QED
  BY <1>1, TokenFileInvHolds, PTL

(* The token file changes exactly when a Save succeeds, and to its token.  *)
THEOREM OnlySuccessReplaces == SpecFile => TokenReplacedBySave
<1> DEFINE Replaced ==
      /\ files'[Path] # files[Path] =>
           \E p \in Processes : result'[p] = "saved" /\ result[p] = "none"
      /\ \A p \in Processes :
           result'[p] = "saved" /\ result[p] = "none" =>
             files'[Path] = Saved(p)
<1>1. TokenFileInv /\ [NextFile]_fileVars => [Replaced]_fileVars
  <2> SUFFICES ASSUME TokenFileInv, NextFile PROVE Replaced
    OBVIOUS
  <2>1. PICK p \in Processes : Save(p) \/ Kill(p)
    BY DEF NextFile
  <2>2. CASE Rename(p)
    <3>1. files'[Path] = Saved(p)
      BY <2>2, RenameInv
    <3>2. result[p] = "none" /\ result' = [result EXCEPT ![p] = "saved"]
      BY <2>2 DEF Rename, Return, TokenFileInv, TempOfPhase
    <3> QED
      BY <3>1, <3>2 DEF TokenFileInv, TypeOKFile
  <2>3. CASE ~ Rename(p)
    <3>1. files'[Path] = files[Path]
      BY <2>1, <2>3, TokenFileAssumption
      DEF Save, Start, CreateTemp, Encode, Chmod, Close, Fail, Remove, Kill,
          Put, TokenFileInv, TypeOKFile, Names
    <3>2. \A q \in Processes : result'[q] = "saved" => result[q] = "saved"
      BY <2>1, <2>3
      DEF Save, Start, CreateTemp, Encode, Chmod, Close, Fail, Remove, Kill,
          Return, TokenFileInv, TypeOKFile
    <3> QED
      BY <3>1, <3>2
  <2> QED
    BY <2>2, <2>3
<1> QED
  BY <1>1, TokenFileInvHolds, PTL DEF SpecFile, TokenReplacedBySave

(* Save writes the token file at once or not at all, wherever it fails or  *)
(* is killed (file_token_store.go Save).                                   *)
THEOREM SaveIsAtomic == SpecFile => SavesAreAtomic
BY WholeAtAllTimes, TempsAreRemoved, OnlySuccessReplaces, PTL
DEF SavesAreAtomic

----------------------------------------------------------------------------
(* BlobSizes, for files of any length cut into chunks of any size, under   *)
(* any limits: what is uploaded is the file, of the sizes that were        *)
(* declared.                                                               *)

LEMMA EncodedMonotonic ==
  ASSUME NEW a \in Nat, NEW b \in Nat, a <= b
  PROVE  /\ Sizes!Encoded(a) \in Nat /\ Sizes!Encoded(b) \in Nat
         /\ Sizes!Encoded(a) <= Sizes!Encoded(b)
BY DEF Sizes!Encoded, Sizes!Base64, Sizes!Sealed

(* Chunk k of the file, and the encoded size of k chunks: all of them are  *)
(* full but the last one, which may be shorter.                            *)
ChunkOf(k) ==
  IF k * ChunkSize <= length THEN ChunkSize ELSE length - (k - 1) * ChunkSize

SizeOf(k) ==
  IF k = 0 THEN 0
  ELSE (k - 1) * Sizes!Encoded(ChunkSize) + Sizes!Encoded(ChunkOf(k))

SizesInv ==
  /\ Sizes!TypeOK
  /\ offset = Len(chunks) * ChunkSize
  /\ \A k \in 1 .. Len(chunks) :
       chunks[k] = ChunkOf(k) /\ (k - 1) * ChunkSize < length
  /\ total = SizeOf(Len(chunks))
  /\ size = SizeOf(accepted)
  /\ verdict = "cut" => accepted = 0
  /\ verdict # "cut" => length <= offset /\ Len(chunks) > 0
  /\ Sizes!DeclaredIsSent

LEMMA ChunkType ==
  ASSUME length \in Nat \ {0}, NEW k \in Nat \ {0},
         (k - 1) * ChunkSize < length
  PROVE  /\ ChunkOf(k) \in Nat \ {0} /\ ChunkOf(k) <= ChunkSize
         /\ ChunkOf(k) <= ChunkOf(1)
         /\ SizeOf(k) \in Nat
<1> DEFINE c == ChunkSize
           full == (k - 1) * c
<1>1. c \in Nat \ {0} /\ full \in Nat /\ k * c = full + c /\ 1 * c = c
  BY SizesAssumption
<1>2. ChunkOf(k) \in Nat \ {0} /\ ChunkOf(k) <= c
  BY <1>1 DEF ChunkOf
<1>3. ChunkOf(k) <= ChunkOf(1)
  <2>1. CASE k = 1
    BY <1>2, <2>1
  <2>2. CASE k # 1
    <3>1. k - 1 \in Nat \ {0} /\ 1 <= k - 1
      BY <2>2
    <3>2. c * 1 <= c * (k - 1)
      BY <1>1, <3>1, MultMonotonic
    <3>3. c <= full
      BY <1>1, <3>1, <3>2
    <3>4. ChunkOf(1) = c
      BY <1>1, <3>3 DEF ChunkOf
    <3> QED
      BY <1>2, <3>4
  <2> QED
    BY <2>1, <2>2
<1>4. /\ Sizes!Encoded(c) \in Nat /\ Sizes!Encoded(ChunkOf(k)) \in Nat
      /\ k - 1 \in Nat
  BY <1>1, <1>2, EncodedMonotonic
<1>5. SizeOf(k) \in Nat
  BY <1>4 DEF SizeOf
<1> QED
  BY <1>2, <1>3, <1>5

(* A chunk that another one follows is full.                               *)
LEMMA SizeOfNext ==
  ASSUME length \in Nat \ {0}, NEW k \in Nat, k * ChunkSize < length
  PROVE  SizeOf(k + 1) = SizeOf(k) + Sizes!Encoded(ChunkOf(k + 1))
<1> DEFINE e == Sizes!Encoded(ChunkSize)
<1>1. e \in Nat /\ ChunkSize \in Nat \ {0}
  BY SizesAssumption, EncodedMonotonic
<1>2. Sizes!Encoded(ChunkOf(k + 1)) \in Nat
  <2>1. ((k + 1) - 1) * ChunkSize < length
    OBVIOUS
  <2>2. ChunkOf(k + 1) \in Nat
    BY <2>1, ChunkType
  <2> QED
    BY <2>2, EncodedMonotonic
<1>3. CASE k = 0
  BY <1>1, <1>2, <1>3 DEF SizeOf
<1>4. CASE k # 0
  <2>1. ChunkOf(k) = ChunkSize
    BY <1>1 DEF ChunkOf
  <2>2. SizeOf(k) = (k - 1) * e + e
    BY <1>4, <2>1 DEF SizeOf
  <2>3. (k - 1) * e + e = k * e
    BY <1>1, <1>4
  <2>4. SizeOf(k + 1) = k * e + Sizes!Encoded(ChunkOf(k + 1))
    BY <1>1 DEF SizeOf
  <2> QED
    BY <2>2, <2>3, <2>4
<1> QED
  BY <1>3, <1>4

LEMMA InitSizes == Sizes!Init => SizesInv
<1> SUFFICES ASSUME Sizes!Init PROVE SizesInv
  OBVIOUS
<1>1. /\ length \in Lengths /\ offset = 0 /\ chunks = <<>> /\ Len(chunks) = 0
      /\ total = 0 /\ accepted = 0 /\ size = 0 /\ verdict = "cut"
  BY DEF Sizes!Init
<1>2. 0 * ChunkSize = 0
  BY SizesAssumption
<1>3. Sizes!TypeOK
  BY <1>1 DEF Sizes!TypeOK
<1>4. SizeOf(0) = 0
  BY DEF SizeOf
<1> QED
  BY <1>1, <1>2, <1>3, <1>4 DEF SizesInv, Sizes!DeclaredIsSent

LEMMA CutInv == SizesInv /\ Sizes!Cut => SizesInv'
<1> SUFFICES ASSUME SizesInv, Sizes!Cut PROVE SizesInv'
  OBVIOUS
<1> DEFINE n == Len(chunks)
<1>1. /\ length \in Nat \ {0} /\ chunks \in Seq(Nat \ {0}) /\ n \in Nat
      /\ offset = n * ChunkSize /\ ChunkSize \in Nat \ {0}
      /\ total \in Nat /\ total = SizeOf(n)
  <2>1. chunks \in Seq(Nat \ {0}) /\ length \in Lengths /\ total \in Nat
    BY DEF SizesInv, Sizes!TypeOK
  <2>2. n \in Nat
    BY <2>1
  <2> QED
    BY <2>1, <2>2, SizesAssumption DEF SizesInv
<1>2. /\ verdict = "cut" /\ offset < length
      /\ chunks' = Append(chunks, Sizes!NextChunk)
      /\ total' = total + Sizes!Encoded(Sizes!NextChunk)
      /\ offset' = offset + ChunkSize
      /\ UNCHANGED <<length, accepted, size, verdict>>
  BY DEF Sizes!Cut
<1> HIDE DEF n
<1>3. /\ (n + 1) * ChunkSize = offset + ChunkSize
      /\ ((n + 1) - 1) * ChunkSize = offset
  BY <1>1
<1>4. Sizes!NextChunk = ChunkOf(n + 1)
  BY <1>1, <1>3 DEF Sizes!NextChunk, ChunkOf
<1>5. ChunkOf(n + 1) \in Nat \ {0}
  BY <1>1, <1>2, <1>3, ChunkType
<1>6. /\ chunks' \in Seq(Nat \ {0}) /\ Len(chunks') = n + 1
      /\ chunks'[n + 1] = ChunkOf(n + 1)
      /\ \A k \in 1 .. n : chunks'[k] = chunks[k]
  BY <1>1, <1>2, <1>4, <1>5 DEF n
<1>7. total' = SizeOf(n + 1) /\ total' \in Nat
  <2>1. SizeOf(n + 1) = SizeOf(n) + Sizes!Encoded(ChunkOf(n + 1))
    BY <1>1, <1>2, SizeOfNext
  <2>2. Sizes!Encoded(ChunkOf(n + 1)) \in Nat
    BY <1>5, EncodedMonotonic
  <2> QED
    BY <1>1, <1>2, <1>4, <2>1, <2>2
<1>8. Sizes!TypeOK'
  <2>1. accepted' = 0 /\ offset' \in Nat /\ length' \in Lengths
        /\ size' \in Nat /\ verdict' = "cut"
    BY <1>1, <1>2 DEF SizesInv, Sizes!TypeOK
  <2> QED
    BY <1>1, <1>6, <1>7, <2>1 DEF Sizes!TypeOK
<1>9. \A k \in 1 .. Len(chunks') :
        chunks'[k] = ChunkOf(k)' /\ (k - 1) * ChunkSize < length'
  <2> TAKE k \in 1 .. Len(chunks')
  <2>1. ChunkOf(k)' = ChunkOf(k)
    BY <1>2 DEF ChunkOf
  <2>2. CASE k = n + 1
    BY <1>2, <1>3, <1>6, <2>1, <2>2
  <2>3. CASE k \in 1 .. n
    <3>1. chunks[k] = ChunkOf(k) /\ (k - 1) * ChunkSize < length
      BY <2>3 DEF SizesInv, n
    <3> QED
      BY <1>2, <1>6, <2>1, <2>3, <3>1
  <2> QED
    BY <1>1, <1>6, <2>2, <2>3
<1>10. SizeOf(0) = 0
  BY DEF SizeOf
<1>11. accepted = 0 /\ size = 0
  BY <1>2, <1>10 DEF SizesInv
<1>12. /\ offset' = Len(chunks') * ChunkSize
       /\ total' = SizeOf(Len(chunks))'
       /\ accepted' = 0 /\ size' = SizeOf(accepted)' /\ verdict' = "cut"
  <2>1. SizeOf(Len(chunks))' = SizeOf(n + 1)
    BY <1>2, <1>6 DEF SizeOf, ChunkOf
  <2>2. SizeOf(accepted)' = SizeOf(0)
    BY <1>2, <1>11 DEF SizeOf, ChunkOf
  <2> QED
    BY <1>1, <1>2, <1>3, <1>6, <1>7, <1>10, <1>11, <2>1, <2>2
<1>13. Sizes!DeclaredIsSent'
  BY <1>12 DEF Sizes!DeclaredIsSent
<1> QED
  BY <1>8, <1>9, <1>12, <1>13 DEF SizesInv
LEMMA CreateUploadInv == SizesInv /\ Sizes!CreateUpload => SizesInv'
<1> SUFFICES ASSUME SizesInv, Sizes!CreateUpload PROVE SizesInv'
  OBVIOUS
<1>1. /\ verdict = "cut" /\ length <= offset
      /\ verdict' \in {"exceeds max size", "send"}
      /\ UNCHANGED <<length, offset, chunks, total, accepted, size>>
  <2>1. length \in Nat /\ offset \in Nat
    BY SizesAssumption DEF SizesInv, Sizes!TypeOK
  <2> QED
    BY <2>1 DEF Sizes!CreateUpload
<1>2. Len(chunks) > 0
  <2>1. /\ Len(chunks) \in Nat /\ length \in Nat \ {0}
        /\ offset = Len(chunks) * ChunkSize
    <3>1. chunks \in Seq(Nat \ {0}) /\ length \in Lengths
      BY DEF SizesInv, Sizes!TypeOK
    <3> QED
      BY <3>1, SizesAssumption DEF SizesInv
  <2>2. 0 * ChunkSize = 0
    BY SizesAssumption
  <2>3. length \in Nat \ {0}
    BY <2>1
  <2>4. Len(chunks) # 0
    <3> SUFFICES ASSUME Len(chunks) = 0 PROVE FALSE
      OBVIOUS
    <3>1. offset = 0 * ChunkSize
      BY <2>1
    <3>2. offset = 0
      BY <2>2, <3>1
    <3>3. length <= 0
      BY <1>1, <3>2
    <3> QED
      BY <2>3, <3>3
  <2> QED
    BY <2>1, <2>4
<1>3. Sizes!TypeOK'
  BY <1>1 DEF SizesInv, Sizes!TypeOK
<1>4. /\ total' = SizeOf(Len(chunks))'
      /\ size' = SizeOf(accepted)'
      /\ \A k \in 1 .. Len(chunks') :
           chunks'[k] = ChunkOf(k)' /\ (k - 1) * ChunkSize < length'
  BY <1>1 DEF SizesInv, SizeOf, ChunkOf
<1> QED
  BY <1>1, <1>2, <1>3, <1>4 DEF SizesInv, Sizes!DeclaredIsSent

(* No chunk encodes to more than the first one, which was declared.        *)
LEMMA SendInv == SizesInv /\ Sizes!Send => SizesInv'
<1> SUFFICES ASSUME SizesInv, Sizes!Send PROVE SizesInv'
  OBVIOUS
<1> DEFINE a == accepted
           n == chunks[a + 1]
<1>1. /\ verdict = "send" /\ a < Len(chunks)
      /\ verdict' = Sizes!ChunkVerdict(n)
      /\ IF Sizes!ChunkVerdict(n) = "send"
         THEN accepted' = a + 1 /\ size' = size + Sizes!Encoded(n)
         ELSE UNCHANGED <<accepted, size>>
      /\ UNCHANGED <<length, offset, chunks, total>>
  BY DEF Sizes!Send
<1>2. /\ length \in Nat \ {0} /\ Len(chunks) \in Nat /\ a \in Nat
      /\ size \in Nat /\ size = SizeOf(a)
  <2>1. /\ chunks \in Seq(Nat \ {0}) /\ length \in Lengths /\ size \in Nat
        /\ accepted \in 0 .. Len(chunks)
    BY DEF SizesInv, Sizes!TypeOK
  <2> QED
    BY <2>1, SizesAssumption DEF SizesInv
<1>3. /\ chunks[1] = ChunkOf(1) /\ n = ChunkOf(a + 1)
      /\ ((a + 1) - 1) * ChunkSize < length
  <2>1. 1 \in 1 .. Len(chunks) /\ a + 1 \in 1 .. Len(chunks)
    BY <1>1, <1>2
  <2> QED
    BY <2>1 DEF SizesInv
<1> HIDE DEF n
<1>4. /\ n \in Nat /\ ChunkOf(1) \in Nat /\ n <= ChunkOf(1)
      /\ a * ChunkSize < length
  <2>1. (1 - 1) * ChunkSize < length /\ (a + 1) - 1 = a
    BY <1>2, SizesAssumption
  <2>2. ChunkOf(1) \in Nat
    BY <1>2, <2>1, ChunkType
  <2>3. a + 1 \in Nat \ {0}
    BY <1>2
  <2>4. ChunkOf(a + 1) \in Nat /\ ChunkOf(a + 1) <= ChunkOf(1)
    BY <1>2, <1>3, <2>3, ChunkType
  <2> QED
    BY <1>3, <2>1, <2>2, <2>4
<1>5. Sizes!ChunkVerdict(n) \in {"exceeds message", "send"}
  <2>1. /\ Sizes!Encoded(n) \in Nat /\ Sizes!Encoded(ChunkOf(1)) \in Nat
        /\ Sizes!Encoded(n) <= Sizes!Encoded(ChunkOf(1))
    BY <1>4, EncodedMonotonic
  <2>2. ~ Sizes!Encoded(n) > Sizes!Declared
    BY <1>3, <2>1 DEF Sizes!Declared
  <2> QED
    BY <2>2 DEF Sizes!ChunkVerdict
<1>6. /\ accepted' \in 0 .. Len(chunks) /\ size' \in Nat
      /\ size' = SizeOf(accepted')
  <2>1. CASE Sizes!ChunkVerdict(n) = "send"
    <3>1. SizeOf(a + 1) = SizeOf(a) + Sizes!Encoded(n)
      BY <1>2, <1>3, <1>4, SizeOfNext
    <3>2. Sizes!Encoded(n) \in Nat
      BY <1>4, EncodedMonotonic
    <3> QED
      BY <1>1, <1>2, <2>1, <3>1, <3>2
  <2>2. CASE Sizes!ChunkVerdict(n) # "send"
    BY <1>1, <1>2, <2>2
  <2> QED
    BY <2>1, <2>2
<1>7. Sizes!TypeOK'
  <2>1. verdict' \in {"exceeds message", "send"}
    BY <1>1, <1>5
  <2> QED
    BY <1>1, <1>6, <2>1 DEF SizesInv, Sizes!TypeOK
<1>8. /\ total' = SizeOf(Len(chunks))'
      /\ size' = SizeOf(accepted)'
      /\ offset' = Len(chunks') * ChunkSize
      /\ \A k \in 1 .. Len(chunks') :
           chunks'[k] = ChunkOf(k)' /\ (k - 1) * ChunkSize < length'
  BY <1>1, <1>6 DEF SizesInv, SizeOf, ChunkOf
<1>9. verdict' # "cut" /\ length' <= offset' /\ Len(chunks') > 0
  BY <1>1, <1>5 DEF SizesInv
<1>10. Sizes!DeclaredIsSent'
  BY <1>1, <1>5 DEF Sizes!DeclaredIsSent
<1> QED
  BY <1>7, <1>8, <1>9, <1>10 DEF SizesInv

LEMMA CommitInv == SizesInv /\ Sizes!Commit => SizesInv'
<1> SUFFICES ASSUME SizesInv, Sizes!Commit PROVE SizesInv'
  OBVIOUS
<1>1. /\ verdict = "send" /\ verdict' = "ready"
      /\ UNCHANGED <<length, offset, chunks, total, accepted, size>>
  BY DEF SizesInv, Sizes!Commit
<1>2. Sizes!TypeOK'
  BY <1>1 DEF SizesInv, Sizes!TypeOK
<1>3. /\ total' = SizeOf(Len(chunks))'
      /\ size' = SizeOf(accepted)'
      /\ \A k \in 1 .. Len(chunks') :
           chunks'[k] = ChunkOf(k)' /\ (k - 1) * ChunkSize < length'
  BY <1>1 DEF SizesInv, SizeOf, ChunkOf
<1> QED
  BY <1>1, <1>2, <1>3 DEF SizesInv, Sizes!DeclaredIsSent

LEMMA SizesInvHolds == Sizes!Spec => []SizesInv
<1>1. SizesInv /\ UNCHANGED Sizes!vars => SizesInv'
  <2> SUFFICES ASSUME SizesInv, UNCHANGED Sizes!vars PROVE SizesInv'
    OBVIOUS
  <2>1. UNCHANGED <<length, offset, chunks, total, accepted, size, verdict>>
    BY DEF Sizes!vars
  <2>2. Sizes!TypeOK'
    BY <2>1 DEF SizesInv, Sizes!TypeOK
  <2>3. /\ total' = SizeOf(Len(chunks))'
        /\ size' = SizeOf(accepted)'
        /\ \A k \in 1 .. Len(chunks') :
             chunks'[k] = ChunkOf(k)' /\ (k - 1) * ChunkSize < length'
    BY <2>1 DEF SizesInv, SizeOf, ChunkOf
  <2> QED
    BY <2>1, <2>2, <2>3 DEF SizesInv, Sizes!DeclaredIsSent
<1>2. SizesInv /\ [Sizes!Next]_(Sizes!vars) => SizesInv'
  BY <1>1, CutInv, CreateUploadInv, SendInv, CommitInv DEF Sizes!Next
<1> QED
  BY <1>2, InitSizes, PTL DEF Sizes!Spec

(* A byte of the file is in the chunk its position says, and no chunk goes *)
(* beyond the file.                                                        *)
LEMMA SizesCover == SizesInv => Sizes!ChunksCoverFile
<1> SUFFICES ASSUME SizesInv, verdict # "cut"
             PROVE  /\ \A b \in 0 .. length - 1 :
                         /\ b \div ChunkSize < Len(chunks)
                         /\ b % ChunkSize < chunks[b \div ChunkSize + 1]
                    /\ (Len(chunks) - 1) * ChunkSize + chunks[Len(chunks)]
                         = length
  BY DEF Sizes!ChunksCoverFile
<1> DEFINE c == ChunkSize
           n == Len(chunks)
<1>1. /\ length \in Nat \ {0} /\ n \in Nat \ {0} /\ c \in Nat \ {0}
      /\ length <= n * c
  <2>1. chunks \in Seq(Nat \ {0}) /\ length \in Lengths
    BY DEF SizesInv, Sizes!TypeOK
  <2>2. n \in Nat
    BY <2>1
  <2> QED
    BY <2>1, <2>2, SizesAssumption DEF SizesInv
<1>2. \A k \in 1 .. n : chunks[k] = ChunkOf(k) /\ (k - 1) * c < length
  BY DEF SizesInv
<1> HIDE DEF c, n
<1>3. ASSUME NEW b \in 0 .. length - 1
      PROVE  b \div c < n /\ b % c < chunks[b \div c + 1]
  <2> DEFINE q == b \div c
             r == b % c
  <2>1. b \in Nat /\ b < length
    BY <1>1, <1>3
  <2>2. q \in Nat /\ r \in 0 .. c - 1 /\ b = c * q + r
    BY <1>1, <2>1, DivRem
  <2> HIDE DEF q, r
  <2>3. q < n
    <3> SUFFICES ASSUME n <= q PROVE FALSE
      BY <1>1, <2>2
    <3>1. c * n <= c * q
      BY <1>1, <2>2, MultMonotonic
    <3>2. n * c = c * n /\ c * n \in Nat /\ c * q \in Nat
      BY <1>1, <2>2
    <3> QED
      BY <1>1, <2>1, <2>2, <3>1, <3>2
  <2>4. chunks[q + 1] = ChunkOf(q + 1) /\ q + 1 \in Nat
    BY <1>1, <1>2, <2>2, <2>3
  <2>5. (q + 1) * c = c * q + c /\ ((q + 1) - 1) * c = c * q /\ c * q \in Nat
    BY <1>1, <2>2
  <2>6. r < ChunkOf(q + 1)
    BY <1>1, <2>1, <2>2, <2>5 DEF ChunkOf, c
  <2> QED
    BY <2>3, <2>4, <2>6 DEF q, r
<1>4. (n - 1) * c + chunks[n] = length
  <2>1. chunks[n] = ChunkOf(n) /\ (n - 1) * c < length
    BY <1>1, <1>2
  <2>2. n * c = (n - 1) * c + c /\ (n - 1) * c \in Nat
    BY <1>1
  <2> QED
    BY <1>1, <2>1, <2>2 DEF ChunkOf, c
<1> QED
  BY <1>3, <1>4 DEF c, n

(* Types of the variables of an upload.                                    *)
THEOREM SizesTypeCorrect == Sizes!Spec => []Sizes!TypeOK
<1>1. SizesInv => Sizes!TypeOK
  BY DEF SizesInv
<1> QED
  BY <1>1, SizesInvHolds, PTL

(* Whatever the length of the file and the size of a chunk, the chunks cut *)
(* the file without a gap or an overlap (encryptedBinaryChunks), none      *)
(* encodes to more than the chunk size declared (maxBlobChunkSize), and    *)
(* their sizes add up to the total that the commit compares.               *)
THEOREM UploadsAreFiles == Sizes!Spec => []UploadIsTheFile
<1>1. SizesInv => UploadIsTheFile
  BY SizesCover DEF SizesInv, UploadIsTheFile, Sizes!UploadIsTheFile
<1> QED
  BY <1>1, SizesInvHolds, PTL

----------------------------------------------------------------------------
(* Forms: for every field, however it is typed, shown and saved again.     *)

(* What Accepts and RequiredIsStored ask of a field's text.                *)
Required(t) ==
  /\ field \in {"login", "number", "cardholder", "month", "year",
                "otp secret"} => t.words # "none"
  /\ field \in {"text", "password"} => t # Field!Empty

(* What the TUI has written it can show and write again as it is.          *)
Settled(t) == Field!Holds(t) = t /\ Field!TuiInput(t) = t

FormInv ==
  /\ Field!TypeOK
  /\ vault # None => Required(vault)
  /\ opened # None => opened \in Field!Text /\ Required(opened)
  /\ opened # None /\ form # None => form = Field!Holds(opened)
  /\ writer = "tui" => vault # None /\ Settled(vault)
  /\ writer = "cli" => vault # None /\ vault.lines = FALSE
  /\ writer = None => vault = None

(* A text is its three marks.                                              *)
LEMMA TextIs ==
  ASSUME NEW t \in Field!Text
  PROVE  /\ t.words \in Field!Words /\ t.pad \in BOOLEAN /\ t.lines \in BOOLEAN
         /\ t = [words |-> t.words, pad |-> t.pad, lines |-> t.lines]
BY DEF Field!Text

LEMMA HoldsIs ==
  ASSUME NEW t \in Field!Text
  PROVE  /\ Field!Holds(t) \in Field!Text
         /\ Field!Holds(t).words # "many" /\ ~ Field!Holds(t).lines
BY DEF Field!Holds, Field!Text, Field!Words

LEMMA TrimIs ==
  ASSUME NEW t \in Field!Text
  PROVE  /\ Field!Trim(t) \in Field!Text
         /\ Field!Trim(Field!Trim(t)) = Field!Trim(t)
         /\ Field!Trim(t).words = t.words
BY DEF Field!Trim, Field!Text, Field!Words, Field!Empty
(* A value written by the TUI, or one the CLI wrote that is trimmed and    *)
(* not too long, is what the form shows and what is encoded from there.    *)
LEMMA ShownIsSettled ==
  ASSUME NEW t \in Field!Text, ~ t.lines, t.words # "many",
         t = Field!Trim(t) \/ Settled(t)
  PROVE  Settled(t)
<1> SUFFICES ASSUME t = Field!Trim(t) PROVE Settled(t)
  OBVIOUS
<1>1. Field!TuiInput(t) = t
  BY DEF Field!TuiInput
<1>2. Field!Holds(t) = t
  BY TextIs DEF Field!Holds
<1> QED
  BY <1>1, <1>2 DEF Settled

(* A form filled from a field that was accepted is accepted.               *)
LEMMA FilledIsAccepted ==
  ASSUME NEW t \in Field!Text, Required(t)
  PROVE  Field!Accepts(Field!TuiInput(Field!Holds(t)))
<1> DEFINE h == Field!Holds(t)
<1>1. h \in Field!Text /\ (t.words # "none" => h.words # "none")
  BY HoldsIs DEF Field!Holds
<1>2. Field!TuiInput(h).words = h.words
  BY <1>1, TrimIs DEF Field!TuiInput
<1>3. field \in {"text", "password"} => Field!TuiInput(h) = h
  BY DEF Field!TuiInput, Field!TrimmedByTui
<1>4. t # Field!Empty => h # Field!Empty
  BY TextIs DEF Field!Holds, Field!Empty
<1> QED
  BY <1>1, <1>2, <1>3, <1>4 DEF Required, Field!Accepts

(* What the TUI encodes from a form that it holds, the form would hold.    *)
LEMMA InputIsSettled ==
  ASSUME NEW t \in Field!Text, t.words # "many", ~ t.lines
  PROVE  /\ Field!TuiInput(t) \in Field!Text
         /\ Settled(Field!TuiInput(t))
<1>1. Field!Holds(t) = t
  BY TextIs DEF Field!Holds
<1>2. /\ Field!Trim(t) \in Field!Text
      /\ Field!Trim(Field!Trim(t)) = Field!Trim(t)
      /\ Field!Trim(t).words # "many"
  BY TrimIs
<1>3. ~ Field!Trim(t).lines
  BY TextIs DEF Field!Trim, Field!Empty
<1>4. Settled(Field!Trim(t))
  BY <1>2, <1>3, ShownIsSettled
<1> QED
  BY <1>1, <1>2, <1>4 DEF Field!TuiInput, Settled
LEMMA InitForms == Field!Init => FormInv
BY FormsAssumption DEF Field!Init, FormInv, Field!TypeOK

LEMMA CliWriteInv ==
  ASSUME FormInv, NEW t \in Field!Typable, Field!CliWrite(t)
  PROVE  FormInv'
<1> DEFINE v == Field!CliInput(t)
<1>1. /\ ~ t.lines /\ Field!Accepts(v) /\ vault' = v /\ writer' = "cli"
      /\ typed' = t /\ UNCHANGED <<field, form, opened>>
  BY DEF Field!CliWrite, Field!CliAccepts
<1>2. t \in Field!Text
  BY DEF Field!Typable
<1>3. v \in Field!Text /\ v.lines = FALSE
  <2>1. Field!Trim(t) \in Field!Text /\ Field!Trim(t).lines = FALSE
    BY <1>1, <1>2, TrimIs, TextIs DEF Field!Trim, Field!Empty
  <2> QED
    BY <1>1, <1>2, <2>1, TextIs DEF Field!CliInput
<1> HIDE DEF v
<1>4. Required(v)
  BY <1>1 DEF Field!Accepts, Required
<1>5. Field!TypeOK'
  BY <1>1, <1>2, <1>3 DEF FormInv, Field!TypeOK
<1>6. vault' # None /\ Required(vault)' /\ vault'.lines = FALSE
  BY <1>1, <1>3, <1>4, FormsAssumption DEF Required
<1>7. /\ opened' # None => opened' \in Field!Text /\ Required(opened)'
      /\ opened' # None /\ form' # None => form' = Field!Holds(opened')
  BY <1>1 DEF FormInv, Required
<1> QED
  BY <1>1, <1>5, <1>6, <1>7, FormsAssumption DEF FormInv

LEMMA NewFormInv == FormInv /\ Field!NewForm => FormInv'
<1> SUFFICES ASSUME FormInv, Field!NewForm PROVE FormInv'
  OBVIOUS
<1>1. /\ form' = Field!Empty /\ opened' = None
      /\ UNCHANGED <<field, vault, writer, typed>>
  BY DEF Field!NewForm
<1>2. Field!TypeOK'
  BY <1>1 DEF FormInv, Field!TypeOK, Field!Empty, Field!Text, Field!Words
<1>3. /\ Required(vault)' = Required(vault)
      /\ Settled(vault)' = Settled(vault)
  BY <1>1 DEF Required, Settled, Field!TuiInput
<1> QED
  BY <1>1, <1>2, <1>3 DEF FormInv

LEMMA EditFormInv == FormInv /\ Field!EditForm => FormInv'
<1> SUFFICES ASSUME FormInv, Field!EditForm PROVE FormInv'
  OBVIOUS
<1>1. /\ vault # None /\ form' = Field!Holds(vault) /\ opened' = vault
      /\ UNCHANGED <<field, vault, writer, typed>>
  BY DEF Field!EditForm
<1>2. vault \in Field!Text
  BY <1>1 DEF FormInv, Field!TypeOK
<1>3. Field!TypeOK'
  <2>1. /\ Field!Holds(vault) \in Field!Text
        /\ Field!Holds(vault).words # "many" /\ ~ Field!Holds(vault).lines
    BY <1>2, HoldsIs
  <2> QED
    BY <1>1, <1>2, <2>1 DEF FormInv, Field!TypeOK
<1>4. /\ Required(vault)' = Required(vault)
      /\ Required(opened)' = Required(vault)
      /\ Settled(vault)' = Settled(vault)
  BY <1>1 DEF Required, Settled, Field!TuiInput
<1> QED
  BY <1>1, <1>2, <1>3, <1>4 DEF FormInv

LEMMA TypeInv ==
  ASSUME FormInv, NEW t \in Field!Typable, Field!Type(t)
  PROVE  FormInv'
<1>1. /\ form' = Field!Holds(t) /\ typed' = t /\ opened' = None
      /\ UNCHANGED <<field, vault, writer>>
  BY DEF Field!Type
<1>2. t \in Field!Text
  BY DEF Field!Typable
<1>3. Field!TypeOK'
  <2>1. /\ Field!Holds(t) \in Field!Text
        /\ Field!Holds(t).words # "many" /\ ~ Field!Holds(t).lines
    BY <1>2, HoldsIs
  <2> QED
    BY <1>1, <1>2, <2>1 DEF FormInv, Field!TypeOK
<1>4. /\ Required(vault)' = Required(vault)
      /\ Settled(vault)' = Settled(vault)
  BY <1>1 DEF Required, Settled, Field!TuiInput
<1> QED
  BY <1>1, <1>3, <1>4 DEF FormInv

LEMMA SaveFormInv == FormInv /\ Field!Save => FormInv'
<1> SUFFICES ASSUME FormInv, Field!Save PROVE FormInv'
  OBVIOUS
<1> DEFINE v == Field!TuiInput(form)
<1>1. /\ form # None /\ Field!Accepts(v) /\ vault' = v /\ writer' = "tui"
      /\ form' = None /\ UNCHANGED <<field, typed, opened>>
  BY DEF Field!Save
<1>2. form \in Field!Text /\ form.words # "many" /\ ~ form.lines
  BY <1>1 DEF FormInv, Field!TypeOK
<1>3. v \in Field!Text /\ Settled(v)
  BY <1>2, InputIsSettled
<1>4. Required(v)
  BY <1>1 DEF Field!Accepts, Required
<1> HIDE DEF v
<1>5. Field!TypeOK'
  BY <1>1, <1>3 DEF FormInv, Field!TypeOK
<1>6. vault' # None /\ Required(vault)' /\ Settled(vault)'
  BY <1>1, <1>3, <1>4, FormsAssumption DEF Required, Settled, Field!TuiInput
<1>7. opened' # None => opened' \in Field!Text /\ Required(opened)'
  BY <1>1 DEF FormInv, Required
<1> QED
  BY <1>1, <1>5, <1>6, <1>7, FormsAssumption DEF FormInv

LEMMA LeaveInv == FormInv /\ Field!Leave => FormInv'
<1> SUFFICES ASSUME FormInv, Field!Leave PROVE FormInv'
  OBVIOUS
<1>1. /\ form' = None /\ opened' = None
      /\ UNCHANGED <<field, vault, writer, typed>>
  BY DEF Field!Leave
<1>2. Field!TypeOK'
  BY <1>1 DEF FormInv, Field!TypeOK
<1>3. /\ Required(vault)' = Required(vault)
      /\ Settled(vault)' = Settled(vault)
  BY <1>1 DEF Required, Settled, Field!TuiInput
<1> QED
  BY <1>1, <1>2, <1>3 DEF FormInv

LEMMA FormInvHolds == Field!Spec => []FormInv
<1>1. FormInv /\ UNCHANGED Field!vars => FormInv'
  <2> SUFFICES ASSUME FormInv, UNCHANGED Field!vars PROVE FormInv'
    OBVIOUS
  <2>1. UNCHANGED <<field, vault, writer, typed, form, opened>>
    BY DEF Field!vars
  <2>2. /\ Required(vault)' = Required(vault)
        /\ Required(opened)' = Required(opened)
        /\ Settled(vault)' = Settled(vault)
        /\ Field!TypeOK' = Field!TypeOK
    BY <2>1 DEF Required, Settled, Field!TuiInput, Field!TypeOK
  <2> QED
    BY <2>1, <2>2 DEF FormInv
<1>2. FormInv /\ [Field!Next]_(Field!vars) => FormInv'
  BY <1>1, CliWriteInv, NewFormInv, EditFormInv, TypeInv, SaveFormInv, LeaveInv
  DEF Field!Next
<1> QED
  BY <1>2, InitForms, PTL DEF Field!Spec

(* Saving a form as it was opened writes the field back as it was.         *)
LEMMA UnchangedFormStep ==
  ASSUME FormInv, Field!Save, opened # None, opened = vault,
         writer = "tui" \/ (vault = Field!Trim(vault) /\ vault.words # "many")
  PROVE  vault' = vault
<1>1. form # None /\ vault' = Field!TuiInput(form)
  BY DEF Field!Save
<1>2. form = Field!Holds(vault) /\ vault \in Field!Text
  BY <1>1 DEF FormInv
<1>3. Settled(vault)
  <2>1. CASE writer = "tui"
    BY <2>1 DEF FormInv
  <2>2. CASE writer # "tui"
    <3>1. ~ vault.lines
      BY <2>2 DEF FormInv, Field!TypeOK
    <3> QED
      BY <1>2, <2>2, <3>1, ShownIsSettled
  <2> QED
    BY <2>1, <2>2
<1> QED
  BY <1>1, <1>2, <1>3 DEF Settled

(* Whatever field it is and whichever client wrote it: what is stored has  *)
(* what the schemas require, an edit form filled from it is accepted as it *)
(* is, and saving that form writes the field back as it was                *)
(* (inputsFromSecret, secretInputFromForm, the Encode functions).          *)
THEOREM FormsKeepFields == Field!Spec => FieldsSurviveForms
<1>1. FormInv => Field!WhatIsStoredCanBeSaved /\ Field!RequiredIsStored
  BY FilledIsAccepted
  DEF FormInv, Required, Field!WhatIsStoredCanBeSaved, Field!RequiredIsStored
<1>2. FormInv /\ [Field!Next]_(Field!vars) =>
        [ /\ Field!Save
          /\ opened # None
          /\ opened = vault
          /\ \/ writer = "tui"
             \/ vault = Field!Trim(vault) /\ vault.words # "many"
         => vault' = vault ]_(Field!vars)
  BY UnchangedFormStep
<1> QED
  BY <1>1, <1>2, FormInvHolds, PTL
  DEF Field!Spec, FieldsSurviveForms, Field!FieldsSurviveForms,
      Field!UnchangedFormKeepsField

=============================================================================
