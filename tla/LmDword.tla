------------------------------- MODULE LmDword -------------------------------
(***************************************************************************)
(* Unsigned 32-bit values (__u32 command dwords, sizes and counts) as      *)
(* pairs <<hi, lo>> of 16-bit halves.  Every value of the C type,          *)
(* 0xFFFFFFFF included, stays inside TLC's integers, and a shift loses the *)
(* bits that leave bit 31 exactly as the C expression does.                *)
(***************************************************************************)
EXTENDS Integers, Bitwise

Half == 2^16
U16 == 0 .. Half - 1
Dword == U16 \X U16

\* A small non-negative C integer converted to __u32 (n < 2^31).
Dw(n) == << n \div Half, n % Half >>

DwZero == << 0, 0 >>

\* 0xFFFFFFFF: the bits of the __s32 value -1.
DwAllOnes == << Half - 1, Half - 1 >>

\* x << k evaluated in 32-bit unsigned arithmetic, 0 <= k <= 31.
DwShl(x, k) ==
  IF k >= 16
  THEN << (x[2] * 2^(k - 16)) % Half, 0 >>
  ELSE << (x[1] * 2^k + x[2] \div 2^(16 - k)) % Half, (x[2] * 2^k) % Half >>

\* x >> k, 0 <= k <= 16.
DwShr(x, k) ==
  << x[1] \div 2^k, (x[1] % 2^k) * 2^(16 - k) + x[2] \div 2^k >>

\* The value of x as a C size_t, for the lengths small enough to index.
DwValue(x) == x[1] * Half + x[2]

\* Fault variant: the four wire bytes taken most significant first.
Be32(b) == << b[1] * 256 + b[2], b[3] * 256 + b[4] >>

\* le32_to_cpu of the four bytes b[1] .. b[4] of a little-endian __le32.
Le32(b) == << b[4] * 256 + b[3], b[2] * 256 + b[1] >>

\* x | y.
DwOr(x, y) == << x[1] | y[1], x[2] | y[2] >>

\* x + 1 in 32-bit unsigned arithmetic (0xFFFFFFFF + 1 = 0).
DwInc(x) ==
  IF x[2] < Half - 1 THEN << x[1], x[2] + 1 >> ELSE << (x[1] + 1) % Half, 0 >>

\* x % m for a modulus m that divides 2^16.
DwMod(x, m) == x[2] % m

\* x < y as unsigned values.
DwLess(x, y) == x[1] < y[1] \/ (x[1] = y[1] /\ x[2] < y[2])

\* The __s32 reading of the bits: x >= 0 exactly when bit 31 is clear.
DwNonNegative(x) == x[1] < 2^15

\* Bits [low + width - 1 : low] of x, for a field inside one 16-bit half.
Bits(x, low, width) ==
  IF low >= 16 THEN (x[1] \div 2^(low - 16)) % 2^width
               ELSE (x[2] \div 2^low) % 2^width
==============================================================================
