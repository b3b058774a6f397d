-------------------------------- MODULE Totp --------------------------------
(***************************************************************************)
(* One-time passwords on the client (RFC 6238): the payload of an OTP      *)
(* secret, the code that is current at a moment, and how long it will be.  *)
(*                                                                         *)
(* The clock counts ticks from 1970; a second has TicksPerSecond of them,  *)
(* since time.Now is finer than the seconds the counter is made of.  The   *)
(* hash functions are external: Mac is any function to the bytes of a sum. *)
(* A base32 text is a member of Secrets, of which only Keys decode.        *)
(***************************************************************************)
EXTENDS Naturals, Sequences

CONSTANTS
  TicksPerSecond,
  Secrets,     \* texts a user may store as the secret
  Keys,        \* those that are base32
  Algorithms,  \* SHA1, SHA256, SHA512
  Periods,     \* bound: the period_seconds a user may store
  Mac,         \* the HMAC of a counter under a key and an algorithm
  MaxClock,    \* bound: how far the clock is followed
  None

Byte == 0 .. 255

Int32Max == 32767 * 65536 + 65535

ASSUME TotpAssumption ==
  /\ TicksPerSecond \in Nat \ {0}
  /\ Keys \subseteq Secrets
  /\ Periods \subseteq Nat
  /\ MaxClock \in Nat
  /\ \A k \in Keys, a \in Algorithms, c \in 0 .. MaxClock :
       /\ Mac[k][a][c] \in Seq(Byte)
       /\ Len(Mac[k][a][c]) >= 20

VARIABLES
  clock,    \* ticks since 1970
  payload,  \* the OTPPayload of the secret on the screen
  code,     \* the OTPCode last computed for it
  madeAt    \* the clock then

vars == <<clock, payload, code, madeAt>>

DefaultOTPPeriodSeconds == 30

(* What a vault may hold.  This client normalises a payload when it writes *)
(* it and again when it reads it; another client need not.                 *)
Payload ==
  [secret: Secrets, algorithm: Algorithms, digits: Nat, period: Periods]

TypeOK ==
  /\ clock \in 0 .. MaxClock
  /\ payload \in Payload
  /\ code \in [counter: Nat, value: Nat, remaining: Nat, expiresAt: Nat]
              \cup {None}
  /\ madeAt \in 0 .. clock

Init ==
  /\ clock = 0
  /\ payload \in [secret: Secrets, algorithm: Algorithms, digits: {0, 6, 8},
                  period: Periods]
  /\ code = None
  /\ madeAt = 0

----------------------------------------------------------------------------

Unix(ticks) == ticks \div TicksPerSecond

(* normalizeOTPPayload: a period of 0 stands for the default.              *)
Period(p) == IF p.period = 0 THEN DefaultOTPPeriodSeconds ELSE p.period

(* normalizeOTPPayload and decodeBase32Secret refuse the others.           *)
Usable(p) == p.digits \in {6, 8} /\ p.secret \in Keys

Counter_Rounded(ticks, period) == (Unix(ticks) + period \div 2) \div period

Counter(ticks, period) == Unix(ticks) \div period

(* At a boundary the code is new: the whole period is left.                *)
RemainingSeconds(ticks, period) ==
  LET remainder == Unix(ticks) % period IN
  IF remainder = 0 THEN period ELSE period - remainder

Pow10(digits) == IF digits = 6 THEN 1000 * 1000 ELSE 10000 * 10000

(* The low four bits of the last byte say where the code is taken from.    *)
Offset(sum) == sum[Len(sum)] % 16

(* Four bytes, the sign bit of the first one cleared.                      *)
BinaryCode(sum) ==
  LET o == Offset(sum) IN
  ((sum[o + 1] % 128) * 256 + sum[o + 2]) * 65536
    + (sum[o + 3] * 256 + sum[o + 4])

Hotp(p, counter) ==
  BinaryCode(Mac[p.secret][p.algorithm][counter]) % Pow10(p.digits)

(* now.Add: the fraction of the second stays in.                           *)
ExpiresAt(ticks, remaining) == ticks + remaining * TicksPerSecond

(* CurrentOTPCode, GenerateTOTP.                                           *)
CurrentOTPCode(p, ticks) ==
  LET counter == Counter(ticks, Period(p))
      remaining == RemainingSeconds(ticks, Period(p)) IN
  [counter |-> counter, value |-> Hotp(p, counter), remaining |-> remaining,
   expiresAt |-> ExpiresAt(ticks, remaining)]

Generate ==
  /\ Usable(payload)
  /\ code' = CurrentOTPCode(payload, clock)
  /\ madeAt' = clock
  /\ UNCHANGED <<clock, payload>>

Tick ==
  /\ clock < MaxClock
  /\ clock' = clock + 1
  /\ UNCHANGED <<payload, code, madeAt>>

Next == Generate \/ Tick

Spec == Init /\ [][Next]_vars

----------------------------------------------------------------------------
(* Properties                                                              *)

(* A code is the current one for exactly as many seconds as it was said to *)
(* remain, counted from the second it was computed in: never for longer,   *)
(* and it does not change before.                                          *)
CodeLastsRemaining ==
  code # None =>
    ((Counter(clock, Period(payload)) = code.counter)
       <=> (Unix(clock) < Unix(madeAt) + code.remaining))

(* Some second always remains, and never more than a period.               *)
RemainingInPeriod ==
  code # None => code.remaining \in 1 .. Period(payload)

(* ExpiresAt is the moment of the next rotation, late by the fraction of   *)
(* the second the code was computed in, that is by less than a second.     *)
ExpiresWithinASecond ==
  code # None =>
    LET rotation == (code.counter + 1) * Period(payload) * TicksPerSecond IN
    /\ rotation <= code.expiresAt
    /\ code.expiresAt < rotation + TicksPerSecond

(* The code is taken from inside the sum, fits 31 bits before it is        *)
(* reduced, and has no more digits than asked for: the arithmetic of hotp  *)
(* on 32 bits does not overflow.                                           *)
CodeFits ==
  code # None =>
    LET sum == Mac[payload.secret][payload.algorithm][code.counter] IN
    /\ Offset(sum) + 4 <= Len(sum)
    /\ BinaryCode(sum) <= Int32Max
    /\ code.value < Pow10(payload.digits)

(* A code has the digits asked for, and what comes with it, the seconds    *)
(* that remain and the expiry, is of its own rotation.                     *)
CodeIsAsSaid ==
  /\ CodeLastsRemaining
  /\ RemainingInPeriod
  /\ ExpiresWithinASecond
  /\ CodeFits

=============================================================================
