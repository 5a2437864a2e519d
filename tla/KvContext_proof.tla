--------------------------- MODULE KvContext_proof ---------------------------
(***************************************************************************)
(* For prompts that go through in one pass, or token by token through the  *)
(* KV cache, both engines sample every token from its whole context: for   *)
(* every prompt length, output length and chunk size.                      *)
(***************************************************************************)
EXTENDS KvContext, TLAPS

(* A prompt that fits a chunk is never left half way. *)
NotHalfWay == conf.chunk >= conf.prompt /\ ~ conf.cuts => pos \in {0, conf.prompt}

(* What the steps preserve: the cache is exact, hence so is the next pass. *)
IInv == TypeOK /\ SampledInContext /\ CacheExact /\ NotHalfWay

(* The first position a pass starts from in a configuration of one pass: it
   is 0, or everything below it is in the cache and the pass is single. *)
Covers(lo, hi) ==
    /\ lo \in Nat
    /\ hi \in Nat
    /\ lo < hi
    /\ hi <= MaxPos
    /\ lo = 0 \/ (conf.kv /\ Single(lo, hi))
    /\ conf.kv => \A p \in 0 .. lo - 1 : slots[p] = Slot(p, TRUE)

(* Such a pass sees its whole context. *)
LEMMA SeesAll ==
    ASSUME NEW lo, NEW hi, Covers(lo, hi)
    PROVE  WholeContext(lo, hi)
BY DEF Covers, WholeContext

(* And it leaves every position below hi exact, in either engine. *)
LEMMA WritesExact ==
    ASSUME ConfigAssumption, TypeOK, NEW lo, NEW hi, Covers(lo, hi)
    PROVE  /\ Written(lo, hi) \in [0 .. MaxPos - 1 -> Slots]
           /\ conf.kv => \A p \in 0 .. hi - 1 : Written(lo, hi)[p] = Slot(p, TRUE)
<1>1. WholeContext(lo, hi) = TRUE
  BY SeesAll DEF WholeContext
<1>2. /\ MaxPos \in Nat /\ lo \in Nat /\ hi \in Nat /\ lo < hi /\ hi <= MaxPos
      /\ slots \in [0 .. MaxPos - 1 -> Slots]
  BY DEF ConfigAssumption, TypeOK, Covers
<1>3. WriteAt(lo, hi) = lo
  BY <1>2 DEF WriteAt, Covers, Single
<1>4. CASE ~ conf.kv
  BY <1>2, <1>4 DEF Written
<1>5. CASE conf.kv
  <2>1. Written(lo, hi) = [p \in 0 .. MaxPos - 1 |->
            IF p \in lo .. lo + (hi - lo) - 1 THEN Slot(lo + (p - lo), TRUE) ELSE slots[p]]
    BY <1>1, <1>3, <1>5 DEF Written
  <2>2. \A p \in 0 .. MaxPos - 1 : Slot(lo + (p - lo), TRUE) \in Slots
    BY <1>2 DEF Slot, Slots
  <2>3. \A p \in 0 .. lo - 1 : slots[p] = Slot(p, TRUE)
    BY <1>5 DEF Covers
  <2>4. ASSUME NEW p \in 0 .. hi - 1 PROVE Written(lo, hi)[p] = Slot(p, TRUE)
    <3>1. p \in 0 .. MaxPos - 1
      BY <1>2
    <3>2. CASE p < lo
      <4>1. p \in 0 .. lo - 1 /\ p \notin lo .. lo + (hi - lo) - 1
        BY <1>2, <3>2
      <4>. QED  BY <2>1, <2>3, <3>1, <4>1
    <3>3. CASE ~ (p < lo)
      <4>1. p \in lo .. lo + (hi - lo) - 1 /\ lo + (p - lo) = p
        BY <1>2, <3>3
      <4>. QED  BY <2>1, <3>1, <4>1
    <3>. QED  BY <3>2, <3>3
  <2>. QED  BY <1>2, <2>1, <2>2, <2>4
<1>. QED  BY <1>4, <1>5

(* A chunk of a one-pass configuration starts at 0 or is a single token. *)
LEMMA ChunkCovers ==
    ASSUME ConfigAssumption, IInv, OnePass(conf), NEW n \in 1 .. MaxPos, Chunk(n)
    PROVE  Covers(pos, pos + n) /\ pos + n \in 0 .. conf.prompt
<1>1. /\ conf.prompt \in Nat /\ conf.chunk \in Nat /\ conf.new \in Nat
      /\ conf.prompt + conf.new <= MaxPos
      /\ MaxPos \in Nat /\ pos \in Nat /\ pos <= conf.prompt /\ out = 0
  BY DEF ConfigAssumption, IInv, TypeOK, Chunk
<1>2. pos + n <= conf.prompt /\ n <= conf.chunk /\ n \in Nat /\ n > 0
  BY <1>1 DEF Chunk
<1>3. pos = 0 \/ (conf.kv /\ Single(pos, pos + n))
  <2>1. CASE conf.kv /\ conf.chunk = 1
    BY <1>1, <1>2, <2>1 DEF Single
  <2>2. CASE conf.chunk >= conf.prompt /\ ~ conf.cuts
    BY <1>1, <1>2, <2>2 DEF Chunk, IInv, NotHalfWay
  <2>. QED  BY <2>1, <2>2 DEF OnePass
<1>4. conf.kv => \A p \in 0 .. pos - 1 : slots[p] = Slot(p, TRUE)
  BY <1>1 DEF IInv, CacheExact, Fed
<1>5. pos + n \in Nat /\ pos < pos + n /\ pos + n <= MaxPos
  BY <1>1, <1>2
<1>6. Covers(pos, pos + n)
  BY <1>1, <1>3, <1>4, <1>5 DEF Covers
<1>. QED  BY <1>1, <1>2, <1>6

(* A chunk moves pos to a position of the prompt and keeps the cache exact. *)
LEMMA ChunkKeeps ==
    ASSUME ConfigAssumption, IInv, OnePass(conf), NEW n \in 1 .. MaxPos, Chunk(n)
    PROVE  /\ conf' = conf
           /\ pos' = pos + n
           /\ pos' \in 0 .. conf.prompt
           /\ slots' \in [0 .. MaxPos - 1 -> Slots]
           /\ conf.kv => \A p \in 0 .. pos' - 1 : slots'[p] = Slot(p, TRUE)
           /\ NotHalfWay'
           /\ out = 0
           /\ WholeContext(pos, pos + n)
<1>1. Covers(pos, pos + n) /\ pos + n \in 0 .. conf.prompt
  BY ChunkCovers
<1>2. conf' = conf /\ pos' = pos + n /\ slots' = Written(pos, pos + n)
  BY DEF Chunk
<1>3. TypeOK /\ WholeContext(pos, pos + n)
  BY <1>1, SeesAll DEF IInv
<1>4. /\ Written(pos, pos + n) \in [0 .. MaxPos - 1 -> Slots]
      /\ conf.kv => \A p \in 0 .. (pos + n) - 1 : Written(pos, pos + n)[p] = Slot(p, TRUE)
  BY <1>1, <1>3, WritesExact
<1>5. NotHalfWay'
  <2>1. SUFFICES ASSUME conf.chunk >= conf.prompt, ~ conf.cuts PROVE pos + n = conf.prompt
    BY <1>2 DEF NotHalfWay
  <2>2. conf.prompt \in Nat /\ conf.chunk \in Nat /\ pos \in Nat /\ n \in Nat /\ pos < conf.prompt
    BY DEF ConfigAssumption, IInv, TypeOK, Chunk
  <2>3. n = conf.chunk \/ n = conf.prompt - pos
    BY <2>1 DEF Chunk
  <2>. QED  BY <1>1, <2>1, <2>2, <2>3
<1>6. out = 0
  BY DEF IInv, TypeOK, Chunk
<1>. QED  BY <1>1, <1>2, <1>3, <1>4, <1>5, <1>6

(* The invariant holds before the first pass ... *)
LEMMA InitEstablishes ==
    ASSUME ConfigAssumption
    PROVE  Init => IInv
<1> SUFFICES ASSUME Init PROVE IInv
  OBVIOUS
<1>1. /\ conf \in Configs /\ conf.prompt \in Nat \ {0} /\ conf.new \in Nat \ {0}
      /\ MaxPos \in Nat
  BY DEF Init, ConfigAssumption
<1>2. slots \in [0 .. MaxPos - 1 -> Slots]
  BY DEF Init, Unwritten, Slot, Slots
<1>3. TypeOK
  <2>1. pos \in 0 .. conf.prompt /\ out \in 0 .. conf.new /\ out = 0 /\ pos # conf.prompt
    BY <1>1 DEF Init
  <2>2. ~ (out >= conf.new)
    BY <1>1, <2>1
  <2>3. sound \in BOOLEAN /\ done \in BOOLEAN
    BY DEF Init
  <2>. QED  BY <1>1, <1>2, <2>1, <2>2, <2>3 DEF TypeOK
<1>4. CacheExact
  BY DEF Init, CacheExact, Fed
<1>. QED  BY <1>3, <1>4 DEF Init, IInv, SampledInContext, NotHalfWay

(* ... and every pass of a one-pass configuration keeps it. *)
LEMMA NextPreserves ==
    ASSUME ConfigAssumption, IInv, OnePass(conf), [Next]_vars
    PROVE  IInv'
<1>1. /\ conf.prompt \in Nat /\ conf.new \in Nat /\ conf.prompt > 0 /\ conf.new > 0
      /\ conf.prompt + conf.new <= MaxPos /\ MaxPos \in Nat
      /\ conf \in Configs /\ pos \in Nat /\ out \in Nat
      /\ sound \in BOOLEAN /\ done \in BOOLEAN
  BY DEF ConfigAssumption, IInv, TypeOK
<1>2. ASSUME NEW n \in 1 .. MaxPos, PrefillChunk(n) PROVE IInv'
  <2>1. /\ Chunk(n) /\ pos' < conf.prompt
        /\ UNCHANGED <<out, sound, done>>
    BY <1>2 DEF PrefillChunk, Chunk
  <2>2. /\ conf' = conf /\ pos' \in 0 .. conf.prompt
        /\ slots' \in [0 .. MaxPos - 1 -> Slots]
        /\ conf.kv => \A p \in 0 .. pos' - 1 : slots'[p] = Slot(p, TRUE)
        /\ NotHalfWay' /\ out = 0
    BY <2>1, ChunkKeeps
  <2>3. TypeOK'
    BY <1>1, <2>1, <2>2 DEF TypeOK
  <2>4. CacheExact'
    BY <2>1, <2>2 DEF CacheExact, Fed
  <2>. QED  BY <2>1, <2>2, <2>3, <2>4 DEF IInv, SampledInContext
<1>3. ASSUME NEW n \in 1 .. MaxPos, FinalChunk(n) PROVE IInv'
  <2>1. /\ Chunk(n) /\ pos' = conf.prompt /\ out' = out + 1
        /\ sound' = WholeContext(pos, pos + n)
        /\ \E stop \in BOOLEAN : done' = (stop \/ out + 1 >= conf.new)
    BY <1>3 DEF FinalChunk, Chunk, Sample
  <2>2. /\ conf' = conf /\ pos' \in 0 .. conf.prompt
        /\ slots' \in [0 .. MaxPos - 1 -> Slots]
        /\ conf.kv => \A p \in 0 .. pos' - 1 : slots'[p] = Slot(p, TRUE)
        /\ NotHalfWay' /\ out = 0 /\ WholeContext(pos, pos + n)
    BY <2>1, ChunkKeeps
  <2>3. sound' = TRUE
    BY <2>1, <2>2 DEF WholeContext
  <2>4. done' \in BOOLEAN /\ (out' >= conf.new => done')
    BY <1>1, <2>1
  <2>5. TypeOK'
    <3>1. out' = 1 /\ pos' = conf.prompt
      BY <1>1, <2>1, <2>2
    <3>2. out' \in 0 .. conf.new /\ out' > 0 /\ ~ (pos' < conf.prompt)
      BY <1>1, <3>1
    <3>3. sound' \in BOOLEAN
      BY <2>3
    <3>. QED  BY <1>1, <2>2, <2>4, <3>2, <3>3 DEF TypeOK
  <2>6. Fed' = pos'
    BY <1>1, <2>1, <2>2 DEF Fed
  <2>7. CacheExact'
    BY <2>2, <2>6 DEF CacheExact
  <2>. QED  BY <2>2, <2>3, <2>5, <2>7 DEF IInv, SampledInContext
<1>4. ASSUME Decode PROVE IInv'
  <2> DEFINE hi == conf.prompt + out
             lo == IF conf.kv THEN hi - 1 ELSE 0
  <2>1. /\ ~ done /\ pos = conf.prompt /\ slots' = Written(lo, hi)
        /\ sound' = WholeContext(lo, hi) /\ out' = out + 1
        /\ \E stop \in BOOLEAN : done' = (stop \/ out + 1 >= conf.new)
        /\ conf' = conf /\ pos' = pos
    BY <1>4 DEF Decode, Sample
  <2>2. out > 0 /\ out < conf.new
    BY <1>1, <2>1 DEF IInv, TypeOK
  <2>3. Fed = hi - 1
    BY <1>1, <2>2 DEF Fed
  <2>4. lo \in Nat /\ hi \in Nat /\ lo < hi /\ hi <= MaxPos /\ (conf.kv => lo = hi - 1) /\ (~ conf.kv => lo = 0)
    BY <1>1, <2>2
  <2>5. conf.kv => \A p \in 0 .. lo - 1 : slots[p] = Slot(p, TRUE)
    BY <2>3, <2>4 DEF IInv, CacheExact
  <2> HIDE DEF hi, lo
  <2>6. Covers(lo, hi)
    <3>1. lo = 0 \/ (conf.kv /\ Single(lo, hi))
      BY <2>4 DEF Single
    <3>. QED  BY <2>4, <2>5, <3>1 DEF Covers
  <2>7. WholeContext(lo, hi) /\ TypeOK
    BY <2>6, SeesAll DEF IInv
  <2>8. /\ Written(lo, hi) \in [0 .. MaxPos - 1 -> Slots]
        /\ conf.kv => \A p \in 0 .. hi - 1 : Written(lo, hi)[p] = Slot(p, TRUE)
    BY <2>6, <2>7, WritesExact
  <2>9. sound' = TRUE
    BY <2>1, <2>7 DEF WholeContext
  <2>10. done' \in BOOLEAN /\ (out' >= conf.new => done')
    BY <1>1, <2>1
  <2>11. TypeOK'
    BY <1>1, <2>1, <2>2, <2>8, <2>9, <2>10 DEF TypeOK
  <2>12. Fed' = hi
    BY <1>1, <2>1, <2>2 DEF Fed, hi
  <2>13. CacheExact'
    BY <2>1, <2>8, <2>12 DEF CacheExact
  <2>14. NotHalfWay'
    BY <2>1 DEF IInv, NotHalfWay
  <2>. QED  BY <2>9, <2>11, <2>13, <2>14 DEF IInv, SampledInContext
<1>5. ASSUME UNCHANGED vars PROVE IInv'
  BY <1>5 DEF vars, IInv, TypeOK, SampledInContext, CacheExact, NotHalfWay, Fed
<1>. QED  BY <1>2, <1>3, <1>4, <1>5 DEF Next

(* The configuration never changes, so the passes of a one-pass one keep the
   invariant whatever other configurations there are. *)
LEMMA OnePassKept == Spec => [](OnePass(conf) => IInv)
<1>1. Init => (OnePass(conf) => IInv)
  BY InitEstablishes, ConfigAssumption
<1>2. (OnePass(conf) => IInv) /\ [Next]_vars => (OnePass(conf) => IInv)'
  <2>. SUFFICES ASSUME OnePass(conf) => IInv, [Next]_vars, OnePass(conf)' PROVE IInv'
    OBVIOUS
  <2>1. conf' = conf
    BY DEF Next, PrefillChunk, FinalChunk, Chunk, Decode, vars
  <2>2. OnePass(conf)
    BY <2>1 DEF OnePass
  <2>. QED
    BY <2>2, NextPreserves, ConfigAssumption
<1>. QED
  BY <1>1, <1>2, PTL DEF Spec

(* In every configuration whose prompts go through in one pass or token by
   token, both engines sample every token from all tokens before it
   (runner.rs:484-489; _inference_loop.py:333-338). *)
THEOREM ContextComplete == Spec => [](OnePass(conf) => SampledInContext)
<1>1. IInv => SampledInContext
  BY DEF IInv
<1>. QED
  BY <1>1, OnePassKept, PTL

(* In those configurations every fed position finds its own keys and values
   in its slot, computed from all positions before it, wherever an engine
   puts the tokens of a pass (intercept.rs:64-68; mlir_executor.py:400-413). *)
THEOREM CacheStaysExact == Spec => [](OnePass(conf) => CacheExact)
<1>1. IInv => CacheExact
  BY DEF IInv
<1>. QED
  BY <1>1, OnePassKept, PTL
==============================================================================
