--------------------------- MODULE OpticalSchedule ---------------------------
(***************************************************************************)
(* The order in which an optical sender shows its frames                   *)
(* (lib/optical-schedule.ts), for the classic stream (createTransferPass-  *)
(* Frames of lib/protocol.ts) and the large one (passFrames of             *)
(* lib/stream-protocol.ts): in each pass every chunk once, in an affine    *)
(* permutation, with the manifest at the start and repeated every so often.*)
(*                                                                         *)
(* What the seed is mixed into is an arbitrary number, so that nothing     *)
(* here rests on a particular mixing. JavaScript's numbers lose their low  *)
(* bit beyond MaxSafe; BigInt arithmetic is exact.                         *)
(***************************************************************************)
EXTENDS Integers, Sequences

CONSTANT MaxSafe     \* Number.MAX_SAFE_INTEGER

\* Asserted where the module is instantiated.
OpticalScheduleAssumption == MaxSafe \in Nat \ { 0 }

\* What a Number operation returns for the integer x.
Num(x) == IF x <= MaxSafe THEN x ELSE x - (x % 2)

AddModulo(left, right, modulus) ==
  IF right >= modulus - left THEN right - (modulus - left) ELSE Num(left + right)

MultiplyModulo(left, right, modulus) ==
  IF left = 0 \/ right = 0 THEN 0
  ELSE IF left <= MaxSafe \div right THEN Num(left * right) % modulus
  ELSE (left * right) % modulus

GreatestCommonDivisor[left \in Nat, right \in Nat] ==
  IF right = 0 THEN left ELSE GreatestCommonDivisor[right, left % right]

\* The first candidate from entropy on, around the modulus, that has no factor
\* in common with it.
NextCoprime(entropy, modulus) ==
  LET search[c \in 1 .. modulus - 1] ==
        IF GreatestCommonDivisor[c, modulus] = 1 THEN c
        ELSE search[IF c + 1 = modulus THEN 1 ELSE c + 1]
  IN search[IF entropy % modulus = 0 THEN 1 ELSE entropy % modulus]

\* What mix32 and foldSafeInteger make of the seed and the pass: the entropy of
\* the stride is the pass's own, the other two stay the same in all passes.
Keys(values) == [ stride : values, base : values, phase : values ]

PhaseOf(total, pass, key) ==
  AddModulo(key.base % total,
            MultiplyModulo(NextCoprime(key.phase, total), pass % total, total), total)

OpticalPassSchedule(total, pass, key) ==
  IF total = 1 THEN [ total |-> 1, stride |-> 0, phase |-> 0 ]
  ELSE [ total |-> total, stride |-> NextCoprime(key.stride, total),
         phase |-> PhaseOf(total, pass, key) ]

IndexAt(schedule, position) ==
  AddModulo(schedule.phase, MultiplyModulo(schedule.stride, position, schedule.total),
            schedule.total)

\* The iterator from a position on: only its first index is computed from the
\* position, each other one from the one before.
Indices(schedule, start) ==
  LET chunk[p \in start .. schedule.total - 1] ==
        IF p = start THEN IndexAt(schedule, start)
        ELSE AddModulo(chunk[p - 1], schedule.stride, schedule.total)
  IN [ i \in 1 .. schedule.total - start |-> chunk[start + i - 1] ]

\* A frame is the manifest or the chunk of this number.
Manifest == -1

\* createTransferPassFrames: the frames of one pass.
PassFrames(total, pass, key, interval) ==
  IF total = 0 THEN << Manifest >>
  ELSE LET indices == Indices(OpticalPassSchedule(total, pass, key), 0)
           upTo[n \in 0 .. total] ==
             IF n = 0 THEN << Manifest >>
             ELSE upTo[n - 1] \o << indices[n] >>
                  \o (IF n % interval = 0 /\ n < total THEN << Manifest >> ELSE << >>)
       IN upTo[total]

(***************************************************************************)
(* What a pass promises                                                    *)
(***************************************************************************)
\* The reference for the iterator: exact arithmetic from the first index.
Reference(schedule, position) ==
  (schedule.phase + schedule.stride * position) % schedule.total

\* Every chunk is shown exactly once in a pass, whatever the mixing gives
\* (optical-schedule.ts:22, "every chunk index appears exactly once").
EveryChunkOnce(schedule) ==
  LET indices == Indices(schedule, 0) IN
  /\ Len(indices) = schedule.total
  /\ { indices[i] : i \in DOMAIN indices } = 0 .. schedule.total - 1

\* An iterator that is started in the middle shows what the whole pass would
\* show there, and both are the exact permutation although products and sums
\* can pass the numbers that are exact (optical-schedule.ts:86, 190).
RestartsExactly(schedule) ==
  \A start \in 0 .. schedule.total :
    Indices(schedule, start) =
      [ i \in 1 .. schedule.total - start |-> Reference(schedule, start + i - 1) ]

\* Two passes in a row start on different chunks, also if their strides are the
\* same (optical-schedule.ts:56): later stays is the later pass's own entropy.
StartsElsewhere(total, pass, key, later) ==
  total > 1 =>
    IndexAt(OpticalPassSchedule(total, pass, key), 0)
      # IndexAt(OpticalPassSchedule(total, pass + 1, [ key EXCEPT !.stride = later ]), 0)

\* A receiver that joins a pass anywhere sees the manifest within interval + 1
\* frames, also over the end of the pass into the next one, and no manifest is
\* shown twice in a row inside a pass (protocol.ts:448).
ManifestIsNear(total, pass, key, interval) ==
  LET frames == PassFrames(total, pass, key, interval)
      twice == frames \o frames
  IN
  /\ \A i \in 1 .. Len(frames) : \E j \in i .. i + interval : twice[j] = Manifest
  /\ \A i \in 1 .. Len(frames) - 1 : frames[i] # Manifest \/ frames[i + 1] # Manifest
  /\ Len(SelectSeq(frames, LAMBDA f : f # Manifest)) = total
=============================================================================
