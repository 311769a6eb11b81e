--------------------------- MODULE SettingsProofs ---------------------------
(***************************************************************************)
(* Proofs about settings.c and eeprom.c: what the memory holds, for lines  *)
(* of every length, every number of commands and power lost at any byte.   *)
(***************************************************************************)
EXTENDS Settings, TLAPS, WellFoundedInduction

-----------------------------------------------------------------------------
(* Bytes.                                                                  *)

(* A cell whose bits need not be erased has those of the new value set, so *)
(* that programming its zeros gives this value.                            *)
LEMMA ProgramsNew ==
  ASSUME NEW old \in Byte, NEW new \in Byte
  PROVE  Programmed(old, new) = new
<1> DEFINE b(w) == IF IsSet(old, w) /\ IsSet(new, w) THEN w ELSE 0
           c(w) == IF IsSet(new, w) THEN w ELSE 0
<1>1. new = c(1) + c(2) + c(4) + c(8) + c(16) + c(32) + c(64) + c(128)
  BY DEF IsSet, Byte
<1>2. ASSUME ~MustErase(old, new) PROVE BothSet(old, new) = new
  <2>1. \A w \in Weights : IsSet(new, w) => IsSet(old, w)
    BY <1>2 DEF MustErase
  <2>2. \A w \in Weights : b(w) = c(w)
    BY <2>1
  <2>3. /\ b(1) = c(1) /\ b(2) = c(2) /\ b(4) = c(4) /\ b(8) = c(8)
        /\ b(16) = c(16) /\ b(32) = c(32) /\ b(64) = c(64) /\ b(128) = c(128)
    <3> HIDE DEF b, c
    <3> QED
      BY <2>2 DEF Weights
  <2>4. BothSet(old, new) = b(1) + b(2) + b(4) + b(8) + b(16) + b(32) + b(64) + b(128)
    BY DEF BothSet
  <2> HIDE DEF b, c
  <2> QED
    BY <1>1, <2>3, <2>4
<1>3. CASE MustErase(old, new)
  BY <1>3 DEF Programmed
<1>4. CASE ~MustErase(old, new)
  BY <1>2, <1>4 DEF Programmed
<1> QED
  BY <1>3, <1>4

(* A set of numbers has a least one.                                       *)
LEMMA LeastNumber ==
  ASSUME NEW S \in SUBSET Nat, S # {}
  PROVE  \E n \in S : \A m \in S : n <= m
<1> DEFINE R == {p \in Nat \X Nat : p[1] < p[2]}
<1>1. IsWellFoundedOn(R, Nat)
  BY NatLessThanWellFounded, Zenon DEF OpToRel
<1>2. PICK n \in S : \A m \in S : ~(<<m, n>> \in R)
  BY <1>1, WFMin, Zenon
<1>3. ASSUME NEW m \in S PROVE n <= m
  <2>1. SUFFICES ASSUME m < n PROVE FALSE
    OBVIOUS
  <2>2. <<m, n>> \in Nat \X Nat /\ <<m, n>>[1] = m /\ <<m, n>>[2] = n
    OBVIOUS
  <2>3. <<m, n>> \in R
    BY <2>1, <2>2
  <2> QED
    BY <1>2, <2>3
<1> QED
  BY <1>3

(* What holds of the empty prefix, and of a prefix when it holds of the one *)
(* shorter by a byte, holds of every prefix.                               *)
LEMMA EveryPrefix ==
  ASSUME NEW N \in Nat, NEW S, 0 \in S, \A n \in 1..N : n - 1 \in S => n \in S
  PROVE  \A n \in 0..N : n \in S
<1> DEFINE D == {n \in 0..N : n \notin S}
<1> SUFFICES ASSUME D # {} PROVE FALSE
  OBVIOUS
<1>1. D \in SUBSET Nat
  OBVIOUS
<1>2. PICK n \in D : \A m \in D : n <= m
  BY <1>1, LeastNumber, Zenon
<1>3. n \in 1..N /\ n - 1 \in 0..N /\ n \notin S
  BY <1>2
<1>4. n - 1 \in S
  BY <1>2, <1>3
<1> QED
  BY <1>3, <1>4

(* The checksum of any bytes is a byte: its recursion has a solution, and  *)
(* an overflow is cut off.                                                 *)
LEMMA ChecksumIsByte ==
  ASSUME NEW bytes \in Seq(Byte)
  PROVE  Checksum(bytes) \in Byte
<1> DEFINE N == Len(bytes)
           L == 0..N
           Body(f, n) == IF n = 0 THEN 0 ELSE (Bit(f[n - 1] # 0) + bytes[n]) % 256
           Sums(f, m) == f \in [L -> Byte] /\ \A n \in 0..m : f[n] = Body(f, n)
           S == {m \in L : \E f : Sums(f, m)}
<1>1. N \in Nat /\ 0 \in L /\ N \in L /\ \A n \in 1..N : bytes[n] \in Byte
  OBVIOUS
<1>2. \A f : \A n \in L : Body(f, n) \in Byte
  <2> TAKE f
  <2> TAKE n \in L
  <2>1. CASE n = 0
    BY <2>1 DEF Byte
  <2>2. CASE n # 0
    <3>1. PICK x \in 0..1, y \in Byte : x = Bit(f[n - 1] # 0) /\ y = bytes[n]
      BY <1>1, <2>2 DEF Bit
    <3>2. (x + y) % 256 \in Byte
      BY DEF Byte
    <3> QED
      BY <2>2, <3>1, <3>2
  <2> QED
    BY <2>1, <2>2
<1>3. 0 \in S
  <2>1. Sums([n \in L |-> 0], 0)
    BY <1>1 DEF Byte
  <2> QED
    BY <1>1, <2>1
<1>4. ASSUME NEW m \in 1..N, m - 1 \in S PROVE m \in S
  <2>1. PICK f : Sums(f, m - 1)
    BY <1>4
  <2>2. m \in L /\ m - 1 \in L /\ m # 0
    BY <1>1
  <2>3. PICK z \in Byte : z = Body(f, m)
    BY <1>2, <2>2
  <2> DEFINE g == [f EXCEPT ![m] = z]
  <2>4. g \in [L -> Byte] /\ g[m] = z /\ \A n \in L : n # m => g[n] = f[n]
    BY <2>1, <2>2
  <2>5. ASSUME NEW n \in 0..m PROVE g[n] = Body(g, n)
    <3>1. n \in L /\ (n # 0 => n - 1 \in L /\ n - 1 # m)
      BY <1>1
    <3>2. Body(g, n) = Body(f, n)
      <4>1. n # 0 => g[n - 1] = f[n - 1]
        BY <2>4, <3>1
      <4> HIDE DEF g
      <4> QED
        BY <4>1
    <3>3. CASE n = m
      BY <2>3, <2>4, <3>2, <3>3
    <3>4. CASE n # m
      <4>1. n \in 0..m - 1
        BY <3>4
      <4>2. f[n] = Body(f, n)
        BY <2>1, <4>1
      <4> HIDE DEF Body, g
      <4> QED
        BY <2>4, <3>1, <3>2, <3>4, <4>2
    <3> QED
      BY <3>3, <3>4
  <2>6. Sums(g, m)
    BY <2>4, <2>5
  <2> QED
    BY <2>2, <2>6
<1>5. N \in S
  <2> HIDE DEF S
  <2> QED
    BY <1>1, <1>3, <1>4, EveryPrefix
<1>6. PICK f : Sums(f, N)
  BY <1>5
<1>7. f = [n \in L |-> Body(f, n)]
  <2>1. \A n \in L : f[n] = Body(f, n)
    BY <1>6
  <2>2. f = [n \in L |-> f[n]]
    BY <1>6
  <2> HIDE DEF Body
  <2> QED
    BY <2>1, <2>2
<1>8. Checksum(bytes) = (CHOOSE k : k = [n \in L |-> Body(k, n)])[N]
  BY Zenon DEF Checksum
<1>9. PICK h : h = CHOOSE k : k = [n \in L |-> Body(k, n)]
  OBVIOUS
<1>10. h = [n \in L |-> Body(h, n)]
  <2> HIDE DEF Body, L
  <2> QED
    BY <1>7, <1>9, Zenon
<1>11. h[N] = Body(h, N)
  <2> HIDE DEF Body
  <2> QED
    BY <1>1, <1>10
<1> QED
  <2>1. Body(h, N) \in Byte
    BY <1>1, <1>2
  <2> HIDE DEF Body, L, N
  <2> QED
    BY <1>8, <1>9, <1>11, <2>1

-----------------------------------------------------------------------------
(* The layout of the memory.                                               *)

(* Where a record lies, its checksum included.                             *)
Region(r) == IF r = Global THEN 0..EEPROM_ADDR_GLOBAL + SettingsSize
             ELSE LineAddr(r)..LineAddr(r) + LINE_BUFFER_SIZE

Sizes == /\ LINE_BUFFER_SIZE \in Nat /\ LINE_BUFFER_SIZE > 1
         /\ EepromSize \in Nat /\ EepromSize = 3 * LINE_BUFFER_SIZE + 9

(* The memory has room for both startup lines and the build info.          *)
LEMMA Layout == Sizes
BY SettingsAssumption
DEF Sizes, EepromSize, EEPROM_ADDR_BUILD_INFO, EEPROM_ADDR_STARTUP_BLOCK, EEPROM_ADDR_GLOBAL,
    SettingsSize, N_STARTUP_LINE

(* Where each line begins.                                                 *)
LEMMA LineAddrs ==
  ASSUME NEW r \in Lines
  PROVE  /\ r = 0 => LineAddr(r) = 5
         /\ r = 1 => LineAddr(r) = LINE_BUFFER_SIZE + 6
         /\ r = BuildInfo => LineAddr(r) = 2 * LINE_BUFFER_SIZE + 8
         /\ r \in {0, 1, BuildInfo} /\ r # Global /\ r \in Int
BY Layout DEF Sizes, Lines, LineAddr, StartupAddr, BuildInfo, N_STARTUP_LINE, SettingsSize, Global,
   EEPROM_ADDR_BUILD_INFO, EEPROM_ADDR_STARTUP_BLOCK, EEPROM_ADDR_GLOBAL

(* A line lies in the memory, behind the settings.                         *)
LEMMA LineInMemory ==
  ASSUME NEW r \in Lines
  PROVE  /\ LineAddr(r) \in Nat /\ LineAddr(r) > 4
         /\ LineAddr(r) + LINE_BUFFER_SIZE < EepromSize
BY Layout, LineAddrs DEF Sizes

(* No two records share a cell.                                            *)
LEMMA RegionsApart ==
  ASSUME NEW r \in Lines \cup {Global}, NEW q \in Lines \cup {Global}, r # q
  PROVE  Region(r) \cap Region(q) = {}
<1>1. SUFFICES ASSUME NEW a \in Region(r), a \in Region(q) PROVE FALSE
  OBVIOUS
<1>2. Global \notin Lines /\ EEPROM_ADDR_GLOBAL + SettingsSize = 4
  BY LineAddrs DEF EEPROM_ADDR_GLOBAL, SettingsSize
<1>3. CASE r = Global
  BY <1>1, <1>2, <1>3, LineInMemory, Layout DEF Region, Sizes
<1>4. CASE q = Global
  BY <1>1, <1>2, <1>4, LineInMemory, Layout DEF Region, Sizes
<1>5. CASE r # Global /\ q # Global
  BY <1>1, <1>5, LineAddrs, Layout DEF Region, Sizes
<1> QED
  BY <1>3, <1>4, <1>5

(* An address in the memory is that of its cell, and every address that of *)
(* some cell.                                                              *)
LEMMA CellOf ==
  ASSUME NEW a \in Int
  PROVE  a % EepromSize \in Cells /\ (a \in Cells => a % EepromSize = a)
<1>1. PICK n \in Nat \ {0} : n = EepromSize
  BY Layout DEF Sizes
<1>2. a % n \in 0..n - 1 /\ (a \in 0..n - 1 => a % n = a)
  OBVIOUS
<1> QED
  BY <1>1, <1>2 DEF Cells

-----------------------------------------------------------------------------
(* What is written.                                                        *)

(* w writes the n bytes b of a record r, each to the cell after the one    *)
(* before.                                                                 *)
WritesOf(w, r, addr, n, b) ==
  /\ w \in Seq(WriteType) /\ Len(w) = n
  /\ \A i \in 1..n :
       /\ w[i].record = r /\ w[i].byte = b[i]
       /\ addr + i - 1 \in Cells => w[i].addr = addr + i - 1

(* That is what Writes does.                                               *)
LEMMA WritesTyped ==
  ASSUME NEW r \in Records \cup {Global}, NEW addr \in Int, NEW bytes \in Seq(Byte)
  PROVE  WritesOf(Writes(r, addr, bytes), r, addr, Len(bytes), bytes)
<1>1. PICK N \in Nat : N = Len(bytes)
  OBVIOUS
<1> DEFINE w(i) == [record |-> r, addr |-> (addr + i - 1) % EepromSize, byte |-> bytes[i]]
<1>2. Writes(r, addr, bytes) = [i \in 1..N |-> w(i)]
  BY <1>1 DEF Writes
<1>3. ASSUME NEW i \in 1..N
      PROVE  w(i) \in WriteType /\ (addr + i - 1 \in Cells => w(i).addr = addr + i - 1)
             /\ w(i).record = r /\ w(i).byte = bytes[i]
  <2>1. addr + i - 1 \in Int /\ bytes[i] \in Byte
    BY <1>1
  <2> QED
    BY <2>1, CellOf DEF WriteType
<1> HIDE DEF w
<1>4. [i \in 1..N |-> w(i)] \in Seq(WriteType) /\ Len([i \in 1..N |-> w(i)]) = N
  BY <1>3
<1> QED
  BY <1>1, <1>2, <1>3, <1>4 DEF WritesOf

(* w writes n bytes of a record and their checksum behind them.            *)
RecordOf(w, r, addr, n, bytes) ==
  \E b : /\ WritesOf(w, r, addr, n + 1, b) /\ b[n + 1] = Checksum(bytes)
         /\ \A i \in 1..n : b[i] = bytes[i]

(* The checksum is at the end.                                             *)
LEMMA RecordTyped ==
  ASSUME NEW r \in Records \cup {Global}, NEW addr \in Int, NEW n \in Nat,
         NEW bytes \in [1..n -> Byte], NEW w, w = memcpy_to_eeprom_with_checksum(r, addr, bytes)
  PROVE  RecordOf(w, r, addr, n, bytes)
<1>1. bytes \in Seq(Byte) /\ Len(bytes) = n
  OBVIOUS
<1>2. PICK c \in Byte : c = Checksum(bytes)
  BY <1>1, ChecksumIsByte
<1>3. PICK b : b = Append(bytes, c)
  OBVIOUS
<1>4. b \in Seq(Byte) /\ Len(b) = n + 1 /\ \A i \in 1..n + 1 : b[i] = IF i = n + 1 THEN c ELSE bytes[i]
  BY <1>1, <1>3
<1>5. w = Writes(r, addr, b)
  BY <1>2, <1>3 DEF memcpy_to_eeprom_with_checksum
<1>6. WritesOf(w, r, addr, n + 1, b)
  BY <1>4, <1>5, WritesTyped
<1>7. b[n + 1] = Checksum(bytes) /\ \A i \in 1..n : b[i] = bytes[i]
  BY <1>2, <1>4
<1> QED
  BY <1>6, <1>7 DEF RecordOf

-----------------------------------------------------------------------------
(* What the memory will hold.                                              *)

(* The memory M when the writes have been carried out on mem.              *)
Reaches(mem, writes, M) ==
  /\ M \in [Cells -> Byte]
  /\ \A i \in 1..Len(writes) : M[writes[i].addr] = writes[i].byte
  /\ \A a \in Cells : (\A i \in 1..Len(writes) : writes[i].addr # a) => M[a] = mem[a]

(* The writes are of records of R, and within them.                        *)
Placed(writes, R) ==
  \A i \in 1..Len(writes) : /\ writes[i].record \in R
                            /\ writes[i].addr \in Region(writes[i].record)

(* M holds the settings s, or a text at r: an empty one by its first byte  *)
(* alone.                                                                  *)
GlobalIn(M, s) ==
  /\ M[0] = SETTINGS_VERSION
  /\ \A i \in 1..SettingsSize : M[i] = s[i]
  /\ M[EEPROM_ADDR_GLOBAL + SettingsSize] = Checksum(s)

LineIn(M, r, text) ==
  IF text[1] = 0 THEN M[LineAddr(r)] = 0
  ELSE /\ \A i \in 1..LINE_BUFFER_SIZE : M[LineAddr(r) + i - 1] = text[i]
       /\ M[LineAddr(r) + LINE_BUFFER_SIZE] = Checksum(text)

Kept == Lines \cup {Global}

(* Nothing to write: the memory is as it is.                               *)
LEMMA NothingToWrite ==
  ASSUME NEW mem \in [Cells -> Byte], NEW M, Reaches(mem, << >>, M)
  PROVE  M = mem
BY DEF Reaches

(* No writes lead from the memory to itself.                               *)
LEMMA NothingReached ==
  ASSUME NEW mem \in [Cells -> Byte]
  PROVE  Reaches(mem, << >>, mem) /\ Placed(<< >>, {})
BY DEF Reaches, Placed

(* A record that is not written stays as it was.                           *)
LEMMA OthersKept ==
  ASSUME NEW mem \in [Cells -> Byte], NEW w, NEW M, Reaches(mem, w, M),
         NEW R \in SUBSET Kept, Placed(w, R), NEW r \in Kept \ R, NEW a \in Region(r) \cap Cells
  PROVE  M[a] = mem[a]
<1>1. ASSUME NEW i \in 1..Len(w) PROVE w[i].addr # a
  <2>1. w[i].record \in R /\ w[i].addr \in Region(w[i].record)
    BY DEF Placed
  <2>2. Region(w[i].record) \cap Region(r) = {}
    BY <2>1, RegionsApart DEF Kept
  <2> QED
    BY <2>1, <2>2
<1> QED
  BY <1>1 DEF Reaches

(* A record is told by its region.                                         *)
LEMMA SameLine ==
  ASSUME NEW M, NEW N, NEW r \in Lines, NEW text,
         \A a \in Region(r) \cap Cells : M[a] = N[a], LineIn(N, r, text)
  PROVE  LineIn(M, r, text)
<1>1. /\ Region(r) = LineAddr(r)..LineAddr(r) + LINE_BUFFER_SIZE
      /\ LineAddr(r) \in Nat /\ LineAddr(r) + LINE_BUFFER_SIZE < EepromSize
  BY LineAddrs, LineInMemory DEF Region
<1>2. \A a \in LineAddr(r)..LineAddr(r) + LINE_BUFFER_SIZE : M[a] = N[a]
  BY <1>1, Layout DEF Cells, Sizes
<1>3. /\ LineAddr(r) \in LineAddr(r)..LineAddr(r) + LINE_BUFFER_SIZE
      /\ LineAddr(r) + LINE_BUFFER_SIZE \in LineAddr(r)..LineAddr(r) + LINE_BUFFER_SIZE
      /\ \A i \in 1..LINE_BUFFER_SIZE :
           LineAddr(r) + i - 1 \in LineAddr(r)..LineAddr(r) + LINE_BUFFER_SIZE
  BY <1>1, Layout DEF Sizes
<1> QED
  BY <1>2, <1>3 DEF LineIn

(* So are the settings.                                                    *)
LEMMA SameGlobal ==
  ASSUME NEW M, NEW N, NEW s, \A a \in Region(Global) \cap Cells : M[a] = N[a], GlobalIn(N, s)
  PROVE  GlobalIn(M, s)
<1>1. Region(Global) = 0..4 /\ 0..4 \subseteq Cells
  BY Layout DEF Region, EEPROM_ADDR_GLOBAL, SettingsSize, Cells, Sizes
<1>2. \A a \in 0..4 : M[a] = N[a]
  BY <1>1
<1> QED
  BY <1>2 DEF GlobalIn, EEPROM_ADDR_GLOBAL, SettingsSize

(* x is the n writes u, then the m writes w.                               *)
Chained(x, u, w, n, m) ==
  /\ x \in Seq(WriteType) /\ Len(x) = n + m
  /\ \A i \in 1..n : x[i] = u[i]
  /\ \A i \in n + 1..n + m : x[i] = w[i - n]

(* That is what one sequence after another is.                             *)
LEMMA ChainWrites ==
  ASSUME NEW u \in Seq(WriteType), NEW w \in Seq(WriteType)
  PROVE  Chained(u \o w, u, w, Len(u), Len(w))
<1> DEFINE T == WriteType
<1>1. u \in Seq(T) /\ w \in Seq(T)
  OBVIOUS
<1> HIDE DEF T
<1>2. PICK x : x = u \o w
  OBVIOUS
<1>3. PICK n \in Nat, m \in Nat : n = Len(u) /\ m = Len(w)
  BY <1>1
<1>4. /\ x \in Seq(T) /\ Len(x) = n + m
      /\ \A i \in 1..n : x[i] = u[i]
      /\ \A i \in n + 1..n + m : x[i] = w[i - n]
  BY <1>1, <1>2, <1>3
<1> QED
  BY <1>2, <1>3, <1>4 DEF Chained, T

(* Writes one after the other, of different records.                       *)
LEMMA ReachTwice ==
  ASSUME NEW mem \in [Cells -> Byte], NEW u \in Seq(WriteType), NEW w \in Seq(WriteType),
         NEW M, NEW N, Reaches(mem, u, M), Reaches(M, w, N),
         NEW R \in SUBSET Kept, NEW Q \in SUBSET Kept, R \cap Q = {},
         Placed(u, R), Placed(w, Q)
  PROVE  /\ Reaches(mem, u \o w, N) /\ Placed(u \o w, R \cup Q)
         /\ u \o w \in Seq(WriteType)
<1>0. PICK x : x = u \o w
  OBVIOUS
<1>1. PICK n \in Nat, m \in Nat : n = Len(u) /\ m = Len(w) /\ x = u \o w
  BY <1>0
<1>2. /\ x \in Seq(WriteType) /\ Len(x) = n + m
      /\ \A i \in 1..n : x[i] = u[i]
      /\ \A i \in n + 1..n + m : x[i] = w[i - n]
  BY <1>1, ChainWrites DEF Chained
<1>3. \A i \in 1..n + m : i \in 1..n \/ (i \in n + 1..n + m /\ i - n \in 1..m)
  OBVIOUS
<1>4. Placed(x, R \cup Q)
  BY <1>1, <1>2, <1>3 DEF Placed
<1>5. ASSUME NEW i \in 1..n PROVE N[u[i].addr] = u[i].byte
  <2>1. /\ u[i].record \in R /\ u[i].addr \in Region(u[i].record) /\ u[i] \in WriteType
        /\ M[u[i].addr] = u[i].byte
    BY <1>1 DEF Placed, Reaches
  <2>2. u[i].addr \in Cells /\ u[i].record \in Kept \ Q /\ M \in [Cells -> Byte]
    BY <2>1 DEF WriteType, Reaches
  <2>3. N[u[i].addr] = M[u[i].addr]
    BY <2>1, <2>2, OthersKept
  <2> QED
    BY <2>1, <2>3
<1>6. ASSUME NEW i \in 1..n + m PROVE N[x[i].addr] = x[i].byte
  <2>1. CASE i \in 1..n
    BY <1>2, <1>5, <2>1
  <2>2. CASE i \in n + 1..n + m /\ i - n \in 1..m
    BY <1>1, <1>2, <2>2 DEF Reaches
  <2> QED
    BY <1>3, <2>1, <2>2
<1>7. ASSUME NEW a \in Cells, \A i \in 1..n + m : x[i].addr # a PROVE N[a] = mem[a]
  <2>1. \A i \in 1..n : u[i].addr # a
    <3> TAKE i \in 1..n
    <3>1. i \in 1..n + m
      OBVIOUS
    <3> QED
      BY <1>2, <1>7, <3>1
  <2>2. \A i \in 1..m : w[i].addr # a
    <3> TAKE i \in 1..m
    <3>1. i + n \in n + 1..n + m /\ i + n \in 1..n + m /\ (i + n) - n = i
      OBVIOUS
    <3>2. x[i + n] = w[i]
      BY <1>2, <3>1
    <3> QED
      BY <1>7, <3>1, <3>2
  <2> QED
    BY <1>1, <2>1, <2>2 DEF Reaches
<1> QED
  BY <1>1, <1>2, <1>4, <1>6, <1>7 DEF Reaches

-----------------------------------------------------------------------------
(* What the commands write.                                                *)

(* w reaches M, where the record r of the bytes is in its place.           *)
RecordIn(mem, w, M, r, addr, n, bytes) ==
  /\ Reaches(mem, w, M) /\ Placed(w, {r}) /\ w \in Seq(WriteType) /\ Len(w) = n + 1
  /\ \A i \in 1..n : M[addr + i - 1] = bytes[i]
  /\ M[addr + n] = Checksum(bytes)
  /\ \A a \in Cells : a \notin addr..addr + n => M[a] = mem[a]

(* A record with its checksum is reached in the cells of its own.          *)
LEMMA RecordReached ==
  ASSUME NEW mem \in [Cells -> Byte], NEW r \in Kept, NEW addr \in Nat, NEW n \in Nat,
         addr + n < EepromSize, addr..addr + n \subseteq Region(r),
         NEW bytes \in [1..n -> Byte], NEW w, w = memcpy_to_eeprom_with_checksum(r, addr, bytes)
  PROVE  \E M : RecordIn(mem, w, M, r, addr, n, bytes)
<1>0. /\ w \in Seq(WriteType) /\ Len(w) = n + 1
      /\ \A i \in 1..n + 1 :
           /\ w[i].record = r
           /\ w[i].byte = IF i = n + 1 THEN Checksum(bytes) ELSE bytes[i]
           /\ addr + i - 1 \in Cells => w[i].addr = addr + i - 1
  <2>1. r \in Records \cup {Global} /\ addr \in Int
    BY DEF Kept, Records
  <2>2. RecordOf(w, r, addr, n, bytes)
    BY <2>1, RecordTyped
  <2>3. \A i \in 1..n + 1 : i = n + 1 \/ i \in 1..n
    OBVIOUS
  <2> QED
    BY <2>2, <2>3 DEF RecordOf, WritesOf
<1>1. PICK c \in Byte : c = Checksum(bytes)
  <2>1. bytes \in Seq(Byte)
    OBVIOUS
  <2> QED
    BY <2>1, ChecksumIsByte
<1>2. PICK N \in Nat : N = EepromSize /\ Cells = 0..N - 1
  BY Layout DEF Cells, Sizes
<1> DEFINE M == [a \in Cells |-> IF a \in addr..addr + n
                                 THEN IF a = addr + n THEN c ELSE bytes[a - addr + 1]
                                 ELSE mem[a]]
<1>3. ASSUME NEW a \in Cells
      PROVE  (IF a \in addr..addr + n
              THEN IF a = addr + n THEN c ELSE bytes[a - addr + 1] ELSE mem[a]) \in Byte
  <2>1. CASE a \in addr..addr + n /\ a # addr + n
    <3>1. a - addr + 1 \in 1..n
      BY <2>1
    <3> QED
      BY <2>1, <3>1
  <2> QED
    BY <2>1
<1>4. M \in [Cells -> Byte]
  BY <1>3
<1>5. ASSUME NEW i \in 1..n + 1
      PROVE  /\ addr + i - 1 \in Cells /\ addr + i - 1 \in addr..addr + n
             /\ M[addr + i - 1] = IF i = n + 1 THEN c ELSE bytes[i]
  <2>1. addr + i - 1 \in Cells /\ addr + i - 1 \in addr..addr + n /\ (addr + i - 1) - addr + 1 = i
        /\ (addr + i - 1 = addr + n <=> i = n + 1)
    BY <1>2
  <2> QED
    BY <2>1
<1>6. \A a \in Cells : a \notin addr..addr + n => M[a] = mem[a]
  OBVIOUS
<1> HIDE DEF M
<1>7. \A i \in 1..n + 1 : w[i].addr = addr + i - 1
  BY <1>0, <1>5
<1>8. Placed(w, {r})
  BY <1>0, <1>5, <1>7 DEF Placed
<1>9. ASSUME NEW a \in Cells, \A i \in 1..n + 1 : w[i].addr # a PROVE M[a] = mem[a]
  <2>1. SUFFICES ASSUME a \in addr..addr + n PROVE FALSE
    BY <1>6
  <2>2. a - addr + 1 \in 1..n + 1 /\ addr + (a - addr + 1) - 1 = a
    BY <1>2, <2>1
  <2> QED
    BY <1>7, <1>9, <2>2
<1>10. Reaches(mem, w, M)
  BY <1>0, <1>1, <1>4, <1>5, <1>7, <1>9 DEF Reaches
<1>11. /\ \A i \in 1..n : M[addr + i - 1] = bytes[i]
       /\ M[addr + n] = Checksum(bytes)
  <2>1. \A i \in 1..n : i \in 1..n + 1 /\ i # n + 1
    OBVIOUS
  <2>2. n + 1 \in 1..n + 1 /\ addr + (n + 1) - 1 = addr + n
    OBVIOUS
  <2> QED
    BY <1>1, <1>5, <2>1, <2>2
<1> QED
  BY <1>0, <1>6, <1>8, <1>10, <1>11 DEF RecordIn

(* The settings: their version byte first.                                 *)
LEMMA GlobalReached ==
  ASSUME NEW mem \in [Cells -> Byte], NEW s \in [1..SettingsSize -> Byte],
         NEW w, w = write_global_settings(s)
  PROVE  \E M : /\ Reaches(mem, w, M) /\ Placed(w, {Global}) /\ w \in Seq(WriteType)
                /\ GlobalIn(M, s)
<1>1. SettingsSize = 3 /\ EEPROM_ADDR_GLOBAL = 1 /\ EepromSize > 4 /\ EepromSize \in Nat
  BY Layout DEF SettingsSize, EEPROM_ADDR_GLOBAL, Sizes
<1>2. PICK u, x : /\ u = Writes(Global, 0, <<SETTINGS_VERSION>>)
                  /\ x = memcpy_to_eeprom_with_checksum(Global, 1, s)
                  /\ w = u \o x
  BY <1>1 DEF write_global_settings
<1>3. Global \in Kept /\ Global \in Records \cup {Global} /\ Region(Global) = 0..4
  BY <1>1 DEF Kept, Region
<1>4. 0..4 \subseteq Cells
  BY <1>1 DEF Cells
<1>5. <<SETTINGS_VERSION>> \in Seq(Byte) /\ Len(<<SETTINGS_VERSION>>) = 1
      /\ <<SETTINGS_VERSION>>[1] = SETTINGS_VERSION /\ SETTINGS_VERSION \in Byte
  BY DEF SETTINGS_VERSION, Byte
<1>6. /\ u \in Seq(WriteType) /\ Len(u) = 1
      /\ u[1].record = Global /\ u[1].byte = SETTINGS_VERSION /\ u[1].addr = 0
  <2>1. 0 + 1 - 1 = 0 /\ 0 \in Cells /\ 0 \in Int /\ 1 \in 1..1
    BY <1>4
  <2>2. WritesOf(u, Global, 0, Len(<<SETTINGS_VERSION>>), <<SETTINGS_VERSION>>)
    BY <1>2, <1>3, <1>5, <2>1, WritesTyped
  <2> QED
    BY <1>5, <2>1, <2>2 DEF WritesOf
<1>7. PICK N : N = [mem EXCEPT ![0] = SETTINGS_VERSION]
  OBVIOUS
<1>8. N \in [Cells -> Byte] /\ N[0] = SETTINGS_VERSION /\ \A a \in Cells : a # 0 => N[a] = mem[a]
  BY <1>4, <1>5, <1>7
<1>9. PICK M : /\ Reaches(N, x, M) /\ x \in Seq(WriteType) /\ Len(x) = 4
               /\ Placed(x, {Global})
               /\ \A i \in 1..3 : M[1 + i - 1] = s[i]
               /\ M[1 + 3] = Checksum(s)
               /\ \A a \in Cells : a \notin 1..1 + 3 => M[a] = N[a]
  <2>1. 1 \in Nat /\ 3 \in Nat /\ 1 + 3 < EepromSize /\ 1..1 + 3 \subseteq Region(Global)
        /\ s \in [1..3 -> Byte] /\ 3 + 1 = 4
    BY <1>1, <1>3
  <2>2. PICK M : RecordIn(N, x, M, Global, 1, 3, s)
    BY <1>2, <1>3, <1>8, <2>1, RecordReached
  <2> QED
    BY <2>1, <2>2 DEF RecordIn
<1>10. /\ w \in Seq(WriteType) /\ Len(w) = 5 /\ w[1] = u[1]
       /\ \A i \in 2..5 : w[i] = x[i - 1]
  <2>1. u \in Seq(WriteType) /\ x \in Seq(WriteType) /\ Len(u) = 1 /\ Len(x) = 4 /\ w = u \o x
    BY <1>2, <1>6, <1>9
  <2>2. Chained(w, u, x, 1, 4)
    BY <2>1, ChainWrites
  <2>3. 1 \in 1..1 /\ 1 + 4 = 5 /\ 1 + 1 = 2
    OBVIOUS
  <2> QED
    BY <2>2, <2>3 DEF Chained
<1>11. \A i \in 1..5 : i = 1 \/ (i \in 2..5 /\ i - 1 \in 1..4)
  OBVIOUS
<1>12. Placed(w, {Global})
  <2>1. w[1].record = Global /\ w[1].addr \in Region(Global)
    BY <1>3, <1>6, <1>10
  <2>2. \A i \in 2..5 : w[i].record = Global /\ w[i].addr \in Region(Global)
    BY <1>9, <1>10, <1>11 DEF Placed
  <2> QED
    BY <1>10, <1>11, <2>1, <2>2 DEF Placed
<1>13. M[0] = SETTINGS_VERSION
  <2>1. 0 \in Cells /\ 0 \notin 1..1 + 3
    BY <1>4
  <2> QED
    BY <1>8, <1>9, <2>1
<1>14. Reaches(mem, w, M)
  <2>1. \A i \in 1..5 : M[w[i].addr] = w[i].byte
    BY <1>6, <1>9, <1>10, <1>11, <1>13 DEF Reaches
  <2>2. ASSUME NEW a \in Cells, \A i \in 1..5 : w[i].addr # a PROVE M[a] = mem[a]
    <3>1. a # 0
      BY <1>6, <1>10, <2>2
    <3>2. \A i \in 1..4 : x[i].addr # a
      <4> TAKE i \in 1..4
      <4>1. i + 1 \in 2..5 /\ i + 1 \in 1..5 /\ (i + 1) - 1 = i
        OBVIOUS
      <4>2. w[i + 1] = x[i]
        BY <1>10, <4>1
      <4> QED
        BY <2>2, <4>1, <4>2
    <3> QED
      BY <1>8, <1>9, <3>1, <3>2 DEF Reaches
  <2> QED
    BY <1>9, <1>10, <2>1, <2>2 DEF Reaches
<1>15. GlobalIn(M, s)
  <2>1. /\ \A i \in 1..3 : 1 + i - 1 = i
        /\ 1 + 3 = 4
    OBVIOUS
  <2> QED
    BY <1>1, <1>9, <1>13, <2>1 DEF GlobalIn
<1> QED
  BY <1>10, <1>12, <1>14, <1>15

(* A line.                                                                 *)
LEMMA LineReached ==
  ASSUME NEW mem \in [Cells -> Byte], NEW r \in Lines, NEW text \in Text,
         NEW w, w = memcpy_to_eeprom_with_checksum(r, LineAddr(r), text)
  PROVE  \E M : /\ Reaches(mem, w, M) /\ Placed(w, {r}) /\ w \in Seq(WriteType)
                /\ LineIn(M, r, text)
<1>1. /\ LineAddr(r) \in Nat /\ LINE_BUFFER_SIZE \in Nat /\ 1 \in 1..LINE_BUFFER_SIZE
      /\ LineAddr(r) + LINE_BUFFER_SIZE < EepromSize
      /\ LineAddr(r)..LineAddr(r) + LINE_BUFFER_SIZE \subseteq Region(r)
      /\ text \in [1..LINE_BUFFER_SIZE -> Byte] /\ r \in Kept
  BY LineInMemory, LineAddrs, Layout DEF Region, Text, Sizes, Kept
<1>2. PICK M : /\ Reaches(mem, w, M) /\ Placed(w, {r}) /\ w \in Seq(WriteType)
               /\ \A i \in 1..LINE_BUFFER_SIZE : M[LineAddr(r) + i - 1] = text[i]
               /\ M[LineAddr(r) + LINE_BUFFER_SIZE] = Checksum(text)
  <2>1. PICK M : RecordIn(mem, w, M, r, LineAddr(r), LINE_BUFFER_SIZE, text)
    BY <1>1, RecordReached
  <2> QED
    BY <2>1 DEF RecordIn
<1>3. LineAddr(r) + 1 - 1 = LineAddr(r)
  BY <1>1
<1>4. LineIn(M, r, text)
  BY <1>1, <1>2, <1>3 DEF LineIn
<1> QED
  BY <1>2, <1>4

(* A line erased: two zeros at its start.                                  *)
LEMMA EraseReached ==
  ASSUME NEW mem \in [Cells -> Byte], NEW r \in Lines, NEW w, w = EraseLine(r)
  PROVE  \E M : /\ Reaches(mem, w, M) /\ Placed(w, {r}) /\ w \in Seq(WriteType)
                /\ M[LineAddr(r)] = 0
<1>1. PICK A \in Nat : A = LineAddr(r) /\ A \in Cells /\ A + 1 \in Cells
                       /\ A \in Region(r) /\ A + 1 \in Region(r)
  BY LineInMemory, LineAddrs, Layout DEF Region, Sizes, Cells
<1>2. PICK z \in Seq(Byte) : z = <<0, 0>> /\ Len(z) = 2 /\ \A i \in 1..2 : z[i] = 0
  <2>1. PICK z : z = <<0, 0>>
    OBVIOUS
  <2>2. z \in Seq({0}) /\ Len(z) = 2 /\ z[1] = 0 /\ z[2] = 0
    BY <2>1
  <2>3. z \in Seq(Byte) /\ \A i \in 1..2 : z[i] = 0
    BY <2>2 DEF Byte
  <2> QED
    BY <2>1, <2>2, <2>3
<1>3. w = Writes(r, A, z) /\ r \in Records \cup {Global}
  BY <1>1, <1>2 DEF EraseLine, Records
<1>4. /\ w \in Seq(WriteType) /\ Len(w) = 2
      /\ \A i \in 1..2 : w[i].record = r /\ w[i].byte = 0
      /\ \A i \in 1..2 : A + i - 1 \in Cells => w[i].addr = A + i - 1
  <2>1. WritesOf(w, r, A, Len(z), z)
    BY <1>3, WritesTyped
  <2> QED
    BY <1>2, <2>1 DEF WritesOf
<1>5. w[1].addr = A /\ w[2].addr = A + 1
  <2>1. 1 \in 1..2 /\ 2 \in 1..2 /\ A + 1 - 1 = A /\ A + 2 - 1 = A + 1
    OBVIOUS
  <2> QED
    BY <1>1, <1>4, <2>1
<1>6. PICK M : M = [mem EXCEPT ![A] = 0, ![A + 1] = 0]
  OBVIOUS
<1>7. /\ M \in [Cells -> Byte] /\ M[A] = 0 /\ M[A + 1] = 0
      /\ \A a \in Cells : a # A /\ a # A + 1 => M[a] = mem[a]
  <2>1. 0 \in Byte /\ A # A + 1
    BY <1>1 DEF Byte
  <2> QED
    BY <1>1, <1>6, <2>1
<1>8. \A i \in 1..2 : i = 1 \/ i = 2
  OBVIOUS
<1>9. Reaches(mem, w, M)
  <2>1. \A i \in 1..2 : M[w[i].addr] = w[i].byte
    BY <1>4, <1>5, <1>7, <1>8
  <2>2. \A a \in Cells : (\A i \in 1..2 : w[i].addr # a) => M[a] = mem[a]
    BY <1>5, <1>7
  <2> QED
    BY <1>4, <1>7, <2>1, <2>2 DEF Reaches
<1>10. Placed(w, {r})
  BY <1>1, <1>4, <1>5, <1>8 DEF Placed
<1> QED
  BY <1>1, <1>4, <1>7, <1>9, <1>10

(* An erased line stays erased when another one is.                        *)
LEMMA StillErased ==
  ASSUME NEW mem \in [Cells -> Byte], NEW w, NEW M, Reaches(mem, w, M),
         NEW q \in Lines, Placed(w, {q}), NEW r \in Lines, r # q
  PROVE  M[LineAddr(r)] = mem[LineAddr(r)]
<1>1. PICK a : a = LineAddr(r) /\ a \in Region(r) \cap Cells
  BY LineInMemory, LineAddrs, Layout DEF Region, Sizes, Cells
<1>2. PICK R : R = {q} /\ R \in SUBSET Kept /\ r \in Kept \ R
  BY DEF Kept
<1>3. M[a] = mem[a]
  BY <1>1, <1>2, OthersKept
<1> QED
  BY <1>1, <1>3

(* The settings' defaults and three erased lines.                          *)
LEMMA RestoreReached ==
  ASSUME NEW mem \in [Cells -> Byte], NEW w, w = write_global_settings(Defaults) \o EraseLines
  PROVE  \E M : /\ Reaches(mem, w, M) /\ Placed(w, Kept) /\ w \in Seq(WriteType)
                /\ GlobalIn(M, Defaults) /\ \A r \in Lines : M[LineAddr(r)] = 0
<1>1. Lines = {0, 1, BuildInfo} /\ Kept = {0, 1, BuildInfo, Global}
      /\ BuildInfo = -1 /\ Global = -2
  BY DEF Lines, Kept, N_STARTUP_LINE, BuildInfo, Global
<1>2. Defaults \in [1..SettingsSize -> Byte]
  BY DEF Defaults, SettingsSize, Byte
<1>3. PICK g, x, y, z : /\ g = write_global_settings(Defaults)
                        /\ x = EraseLine(0) /\ y = EraseLine(1) /\ z = EraseLine(BuildInfo)
                        /\ w = g \o ((x \o y) \o z)
  BY DEF EraseLines
<1>4. PICK M : /\ Reaches(mem, g, M) /\ Placed(g, {Global}) /\ g \in Seq(WriteType)
               /\ GlobalIn(M, Defaults)
  BY <1>2, <1>3, GlobalReached
<1>5. M \in [Cells -> Byte]
  BY <1>4 DEF Reaches
<1>6. PICK X : /\ Reaches(M, x, X) /\ Placed(x, {0}) /\ x \in Seq(WriteType)
               /\ X[LineAddr(0)] = 0
  BY <1>1, <1>3, <1>5, EraseReached
<1>7. X \in [Cells -> Byte]
  BY <1>6 DEF Reaches
<1>8. PICK Y : /\ Reaches(X, y, Y) /\ Placed(y, {1}) /\ y \in Seq(WriteType)
               /\ Y[LineAddr(1)] = 0
  BY <1>1, <1>3, <1>7, EraseReached
<1>9. Y \in [Cells -> Byte]
  BY <1>8 DEF Reaches
<1>10. PICK Z : /\ Reaches(Y, z, Z) /\ Placed(z, {BuildInfo}) /\ z \in Seq(WriteType)
                /\ Z[LineAddr(BuildInfo)] = 0
  BY <1>1, <1>3, <1>9, EraseReached
<1>11. PICK xy : xy = x \o y
  OBVIOUS
<1>12. Reaches(M, xy, Y) /\ Placed(xy, {0, 1}) /\ xy \in Seq(WriteType)
  <2>1. {0} \in SUBSET Kept /\ {1} \in SUBSET Kept /\ {0} \cap {1} = {} /\ {0} \cup {1} = {0, 1}
    BY <1>1
  <2>2. /\ Reaches(M, x \o y, Y) /\ Placed(x \o y, {0} \cup {1})
        /\ x \o y \in Seq(WriteType)
    BY <1>5, <1>6, <1>8, <2>1, ReachTwice
  <2> QED
    BY <1>11, <2>1, <2>2
<1>13. PICK e : e = xy \o z
  OBVIOUS
<1>14. Reaches(M, e, Z) /\ Placed(e, Lines) /\ e \in Seq(WriteType)
  <2>1. /\ {0, 1} \in SUBSET Kept /\ {BuildInfo} \in SUBSET Kept /\ {0, 1} \cap {BuildInfo} = {}
        /\ {0, 1} \cup {BuildInfo} = Lines
    BY <1>1
  <2> QED
    BY <1>5, <1>10, <1>12, <1>13, <2>1, ReachTwice
<1>15. Reaches(mem, w, Z) /\ Placed(w, Kept) /\ w \in Seq(WriteType)
  <2>1. /\ {Global} \in SUBSET Kept /\ Lines \in SUBSET Kept /\ {Global} \cap Lines = {}
        /\ {Global} \cup Lines = Kept
    BY <1>1
  <2>2. w = g \o e
    BY <1>3, <1>11, <1>13
  <2>3. /\ Reaches(mem, g \o e, Z) /\ Placed(g \o e, {Global} \cup Lines)
        /\ g \o e \in Seq(WriteType)
    BY <1>4, <1>14, <2>1, ReachTwice
  <2> QED
    BY <2>1, <2>2, <2>3
<1>16. GlobalIn(Z, Defaults)
  <2>1. Lines \in SUBSET Kept /\ Global \in Kept \ Lines
    BY <1>1
  <2>2. \A a \in Region(Global) \cap Cells : Z[a] = M[a]
    BY <1>5, <1>14, <2>1, OthersKept
  <2> QED
    BY <1>4, <2>2, SameGlobal
<1>17. ASSUME NEW r \in Lines PROVE Z[LineAddr(r)] = 0
  <2>1. CASE r = BuildInfo
    BY <1>10, <2>1
  <2>2. CASE r = 1
    <3>1. r # BuildInfo /\ BuildInfo \in Lines
      BY <1>1, <2>2
    <3>2. Z[LineAddr(r)] = Y[LineAddr(r)]
      BY <1>9, <1>10, <3>1, StillErased
    <3> QED
      BY <1>8, <2>2, <3>2
  <2>3. CASE r = 0
    <3>1. r # BuildInfo /\ BuildInfo \in Lines /\ r # 1 /\ 1 \in Lines
      BY <1>1, <2>3
    <3>2. Z[LineAddr(r)] = Y[LineAddr(r)]
      BY <1>9, <1>10, <3>1, StillErased
    <3>3. Y[LineAddr(r)] = X[LineAddr(r)]
      BY <1>7, <1>8, <3>1, StillErased
    <3> QED
      BY <1>6, <2>3, <3>2, <3>3
  <2> QED
    BY <1>1, <2>1, <2>2, <2>3
<1> QED
  BY <1>15, <1>16, <1>17

-----------------------------------------------------------------------------
(* Types.                                                                  *)

(* What is stored is what a settings struct can hold.                      *)
LEMMA StoredTyped ==
  ASSUME TypeOK, NEW x \in 0..1, NEW p \in {20, 22, 2, 3}
  PROVE  StoredSetting(p, x) \in [1..SettingsSize -> Byte]
<1> DEFINE S == [1..SettingsSize -> Byte]
<1>1. settings \in S /\ SettingsSize = 3
  BY DEF TypeOK, SettingsSize
<1>2. \A b : Bit(b) \in 0..1
  BY DEF Bit
<1>3. ASSUME NEW h \in 0..1, NEW s \in 0..1 PROVE Flags(settings, h, s) \in S
  <2>1. settings[1] \in Byte
    BY <1>1
  <2>2. 4 * (settings[1] \div 4) + 2 * s + h \in Byte
    BY <2>1 DEF Byte
  <2> QED
    BY <1>1, <2>2 DEF Flags
<1>4. ASSUME NEW h \in 0..1 PROVE Flags(settings, h, x) \in S /\ Flags(settings, x, h) \in S
  BY <1>3
<1>5. Flags(settings, Bit(Homing(settings)), x) \in S
  BY <1>2, <1>4
<1>6. Flags(settings, x, IF x = 0 THEN 0 ELSE Bit(SoftLimits(settings))) \in S
  <2>1. (IF x = 0 THEN 0 ELSE Bit(SoftLimits(settings))) \in 0..1
    BY <1>2
  <2> QED
    BY <1>4, <2>1
<1>7. [settings EXCEPT ![p] = x] \in S
  <2>1. x \in Byte
    BY DEF Byte
  <2> QED
    BY <1>1, <2>1
<1> HIDE DEF S
<1>8. StoredSetting(p, x) \in S
  BY <1>1, <1>5, <1>6, <1>7 DEF StoredSetting
<1> QED
  BY <1>8 DEF S

(* A record of any number is made of writes.                               *)
LEMMA TextTyped ==
  ASSUME NEW r \in Records, NEW text \in Text
  PROVE  memcpy_to_eeprom_with_checksum(r, LineAddr(r), text) \in Seq(WriteType)
<1>1. LineAddr(r) \in Int
  <2>1. CASE r \in Lines
    BY <2>1, LineInMemory
  <2>2. CASE r \in StartupNumbers
    <3>1. r \in Nat /\ LINE_BUFFER_SIZE \in Nat
      BY <2>2, SettingsAssumption DEF Byte
    <3>2. r * (LINE_BUFFER_SIZE + 1) \in Int
      BY <3>1
    <3> QED
      BY <3>1, <3>2 DEF LineAddr, StartupAddr, EEPROM_ADDR_BUILD_INFO, BuildInfo,
                        EEPROM_ADDR_STARTUP_BLOCK, EEPROM_ADDR_GLOBAL, SettingsSize
  <2> QED
    BY <2>1, <2>2 DEF Records
<1>2. PICK w : w = memcpy_to_eeprom_with_checksum(r, LineAddr(r), text)
  OBVIOUS
<1>3. text \in [1..LINE_BUFFER_SIZE -> Byte] /\ LINE_BUFFER_SIZE \in Nat
  BY Layout DEF Text, Sizes
<1>4. RecordOf(w, r, LineAddr(r), LINE_BUFFER_SIZE, text)
  BY <1>1, <1>2, <1>3, RecordTyped
<1> QED
  BY <1>2, <1>4 DEF RecordOf, WritesOf

(* What is read is made of bytes.                                          *)
LEMMA BytesTyped ==
  ASSUME TypeOK, NEW addr \in Int, NEW n \in Nat
  PROVE  Bytes(addr, n) \in [1..n -> Byte]
<1>1. ASSUME NEW i \in 1..n PROVE eeprom[(addr + i - 1) % EepromSize] \in Byte
  <2>1. addr + i - 1 \in Int
    OBVIOUS
  <2> QED
    BY <2>1, CellOf DEF TypeOK
<1> QED
  BY <1>1 DEF Bytes

(* An empty line is a text.                                                *)
LEMMA EmptyIsText == Empty \in Text /\ Empty[1] = 0
BY Layout DEF Empty, Text, Byte, Sizes

(* Every step keeps the types.                                             *)
LEMMA TypesKept ==
  ASSUME TypeOK, [Next]_vars
  PROVE  TypeOK'
<1>0. TypeOK /\ pending \in Seq(WriteType) /\ Defaults \in [1..SettingsSize -> Byte]
      /\ LINE_BUFFER_SIZE \in Nat /\ SettingsSize = 3 /\ EEPROM_ADDR_GLOBAL = 1
  BY Layout DEF TypeOK, Defaults, SettingsSize, Byte, EEPROM_ADDR_GLOBAL, Sizes
<1>1. << >> \in Seq(WriteType)
  OBVIOUS
<1>2. \A s \in [1..SettingsSize -> Byte] : write_global_settings(s) \in Seq(WriteType)
  <2> TAKE s \in [1..SettingsSize -> Byte]
  <2>1. PICK w : w = write_global_settings(s)
    OBVIOUS
  <2>2. eeprom \in [Cells -> Byte]
    BY <1>0 DEF TypeOK
  <2>3. w \in Seq(WriteType)
    BY <2>1, <2>2, GlobalReached
  <2> QED
    BY <2>1, <2>3
<1>3. CASE \E v \in 0..1, p \in {20, 22, 2, 3} : settings_store_global_setting(p, v)
  <2>1. PICK v \in 0..1, p \in {20, 22, 2, 3} : settings_store_global_setting(p, v)
    BY <1>3
  <2>2. settings' \in [1..SettingsSize -> Byte] /\ UNCHANGED <<eeprom, pc, stored, torn>>
        /\ pc = "idle"
    BY <1>0, <2>1, StoredTyped DEF settings_store_global_setting, Command, Ready
  <2>3. pending' \in Seq(WriteType)
    BY <1>0, <1>1, <1>2, <2>1, StoredTyped DEF settings_store_global_setting
  <2> QED
    BY <1>0, <2>2, <2>3 DEF TypeOK
<1>4. ASSUME NEW r \in Records, NEW text \in Text, StoreText(r, text), pc = "idle",
             UNCHANGED <<eeprom, settings, pc>>
      PROVE  TypeOK'
  <2>1. pending' \in Seq(WriteType)
    BY <1>4, TextTyped DEF StoreText
  <2> QED
    BY <1>0, <1>4, <2>1 DEF StoreText, TypeOK
<1>5. CASE \E n \in StartupNumbers, t \in Texts : settings_store_startup_line(n, t)
  <2>1. PICK n \in StartupNumbers, t \in Texts : settings_store_startup_line(n, t)
    BY <1>5
  <2>2. n \in Records /\ t \in Text /\ pc = "idle" /\ UNCHANGED <<eeprom, settings, pc>>
    BY <2>1, SettingsAssumption DEF settings_store_startup_line, Records, Command, Ready
  <2> QED
    BY <1>4, <2>1, <2>2 DEF settings_store_startup_line
<1>6. CASE \E t \in Texts : settings_store_build_info(t)
  <2>1. PICK t \in Texts : settings_store_build_info(t)
    BY <1>6
  <2>2. /\ BuildInfo \in Records /\ t \in Text /\ pc = "idle"
        /\ UNCHANGED <<eeprom, settings, pc>>
    BY <2>1, SettingsAssumption DEF settings_store_build_info, Records, Lines, Command, Ready
  <2> QED
    BY <1>4, <2>1, <2>2 DEF settings_store_build_info
<1>7. ASSUME RestoreAll, UNCHANGED eeprom, pc' = "idle" PROVE TypeOK'
  <2>1. pending' \in Seq(WriteType)
    <3>1. PICK w : w = write_global_settings(Defaults) \o EraseLines
      OBVIOUS
    <3>2. w \in Seq(WriteType)
      BY <1>0, <3>1, RestoreReached DEF TypeOK
    <3> QED
      BY <1>7, <3>1, <3>2 DEF RestoreAll
  <2>2. stored' \in [Records -> Text]
    BY <1>0, <1>7, EmptyIsText DEF RestoreAll, TypeOK
  <2> QED
    BY <1>0, <1>7, <2>1, <2>2 DEF RestoreAll, TypeOK
<1>8. CASE RestoreCommand
  <2>1. UNCHANGED eeprom /\ pc = "idle" /\ pc' = "idle"
    BY <1>8 DEF RestoreCommand, Command, Ready
  <2>2. CASE RestoreAll
    BY <1>7, <2>1, <2>2
  <2>3. CASE /\ settings' = Defaults /\ pending' = write_global_settings(Defaults)
             /\ UNCHANGED <<stored, torn>>
    BY <1>0, <1>2, <2>1, <2>3 DEF TypeOK
  <2> QED
    BY <1>8, <2>2, <2>3 DEF RestoreCommand
<1>9. CASE \E r \in Lines : settings_read_line(r)
  <2>1. PICK r \in Lines : settings_read_line(r)
    BY <1>9
  <2>2. PICK text : text = [Bytes(LineAddr(r), LINE_BUFFER_SIZE) EXCEPT ![1] = 0]
    OBVIOUS
  <2>3. text \in Text /\ r \in Records
    <3>1. PICK A \in Int : A = LineAddr(r)
      BY LineInMemory
    <3>2. PICK b : b = Bytes(A, LINE_BUFFER_SIZE)
      OBVIOUS
    <3>3. b \in [1..LINE_BUFFER_SIZE -> Byte]
      BY <1>0, <3>2, BytesTyped
    <3>4. text = [b EXCEPT ![1] = 0] /\ 0 \in Byte
      BY <2>2, <3>1, <3>2 DEF Byte
    <3> QED
      BY <3>3, <3>4 DEF Text, Records
  <2>4. /\ pending' = memcpy_to_eeprom_with_checksum(r, LineAddr(r), text)
        /\ stored' = IF r \in torn THEN [stored EXCEPT ![r] = text] ELSE stored
        /\ torn' = torn \ {r} /\ pc = "idle" /\ UNCHANGED <<eeprom, settings, pc>>
    BY <2>1, <2>2 DEF settings_read_line, Ready
  <2>5. pending' \in Seq(WriteType)
    BY <2>3, <2>4, TextTyped
  <2>6. stored' \in [Records -> Text]
    BY <1>0, <2>3, <2>4 DEF TypeOK
  <2> QED
    BY <1>0, <2>4, <2>5, <2>6 DEF TypeOK
<1>10. ASSUME pending # << >>
       PROVE  Head(pending) \in WriteType /\ Tail(pending) \in Seq(WriteType) /\ pc = "idle"
  BY <1>0, <1>10 DEF TypeOK
<1>11. CASE eeprom_put_char
  <2>1. PICK w \in WriteType : w = Head(pending)
    BY <1>10, <1>11 DEF eeprom_put_char
  <2>2. w.addr \in Cells /\ w.byte \in Byte /\ eeprom[w.addr] \in Byte
    BY <1>0 DEF WriteType, TypeOK
  <2>3. eeprom' = [eeprom EXCEPT ![w.addr] = w.byte]
    BY <1>11, <2>1, <2>2, ProgramsNew DEF eeprom_put_char
  <2>4. eeprom' \in [Cells -> Byte]
    BY <1>0, <2>2, <2>3 DEF TypeOK
  <2> QED
    BY <1>0, <1>10, <1>11, <2>4 DEF eeprom_put_char, TypeOK
<1>12. CASE PowerLoss
  <2>1. eeprom' \in [Cells -> Byte]
    <3>1. CASE UNCHANGED eeprom
      BY <1>0, <3>1 DEF TypeOK
    <3>2. CASE pending # << >> /\ eeprom' = [eeprom EXCEPT ![Head(pending).addr] = 255]
      <4>1. Head(pending).addr \in Cells /\ 255 \in Byte
        BY <1>10, <3>2 DEF WriteType, Byte
      <4> QED
        BY <1>0, <3>2, <4>1 DEF TypeOK
    <3> QED
      BY <1>12, <3>1, <3>2 DEF PowerLoss
  <2>2. settings' \in [1..SettingsSize -> Byte]
    <3>1. <<0, 0, 0>> \in [1..3 -> Byte]
      BY DEF Byte
    <3> QED
      BY <1>0, <1>12, <3>1 DEF PowerLoss
  <2>3. torn' \subseteq Records \cup {Global}
    <3>1. ASSUME NEW i \in DOMAIN pending PROVE pending[i].record \in Records \cup {Global}
      <4>1. PICK w \in WriteType : w = pending[i]
        <5> HIDE DEF WriteType
        <5> QED
          BY <1>0
      <4> QED
        BY <4>1 DEF WriteType
    <3>2. torn' = torn \cup {pending[i].record : i \in DOMAIN pending}
      BY <1>12 DEF PowerLoss
    <3> QED
      BY <1>0, <3>1, <3>2 DEF TypeOK
  <2> QED
    BY <1>0, <1>1, <1>12, <2>1, <2>2, <2>3 DEF PowerLoss, TypeOK
<1>13. CASE settings_init
  <2>1. UNCHANGED eeprom /\ pc' = "idle"
    BY <1>13 DEF settings_init
  <2>2. CASE Readable
    <3>1. settings' = Bytes(1, 3) /\ UNCHANGED <<pending, stored, torn>>
      BY <1>0, <1>13, <2>2 DEF settings_init
    <3>2. Bytes(1, 3) \in [1..3 -> Byte]
      <4>1. 1 \in Int /\ 3 \in Nat
        OBVIOUS
      <4>2. PICK b : b = Bytes(1, 3)
        OBVIOUS
      <4>3. b \in [1..3 -> Byte]
        BY <1>0, <4>1, <4>2, BytesTyped
      <4> QED
        BY <4>2, <4>3
    <3> QED
      BY <1>0, <2>1, <3>1, <3>2 DEF TypeOK
  <2>3. CASE ~Readable
    <3>1. RestoreAll
      BY <1>13, <2>3 DEF settings_init
    <3> QED
      BY <1>7, <2>1, <3>1
  <2> QED
    BY <2>2, <2>3
<1>14. CASE UNCHANGED vars
  BY <1>0, <1>14 DEF TypeOK, vars
<1> QED
  BY <1>3, <1>5, <1>6, <1>8, <1>9, <1>11, <1>12, <1>13, <1>14 DEF Next

(* The initial states.                                                     *)
LEMMA TypesInit == Init => TypeOK
<1> SUFFICES ASSUME Init PROVE TypeOK
  OBVIOUS
<1>1. eeprom \in [Cells -> Byte]
  <2>1. [a \in Cells |-> 255] \in [Cells -> Byte]
    BY DEF Byte
  <2>2. InUse \in [Cells -> Byte]
    <3>1. Defaults \in Seq(Byte) /\ \A i \in 1..3 : Defaults[i] \in Byte
      BY DEF Defaults, Byte
    <3>2. Checksum(Defaults) \in Byte
      BY <3>1, ChecksumIsByte
    <3>3. SETTINGS_VERSION \in Byte /\ 0 \in Byte /\ SettingsSize = 3
      BY DEF SETTINGS_VERSION, SettingsSize, Byte
    <3> QED
      BY <3>1, <3>2, <3>3 DEF InUse
  <2> QED
    BY <2>1, <2>2 DEF Init
<1>2. <<0, 0, 0>> \in [1..SettingsSize -> Byte]
  BY DEF SettingsSize, Byte
<1> QED
  BY <1>1, <1>2, EmptyIsText DEF Init, TypeOK

(* Every cell and every byte of the settings is a byte, in particular the  *)
(* checksum, and what is remembered of a line is a line, whatever numbers  *)
(* of startup lines are named.                                             *)
THEOREM TypeCorrect == Spec => []TypeOK
<1>1. TypeOK /\ [Next]_vars => TypeOK'
  BY TypesKept
<1> QED
  BY <1>1, TypesInit, PTL DEF Spec

-----------------------------------------------------------------------------
(* Records kept.                                                           *)

(* A line that is not written is found as it was, before and after.        *)
LEMMA LineKept ==
  ASSUME NEW mem \in [Cells -> Byte], NEW w, NEW M, Reaches(mem, w, M),
         NEW R \in SUBSET Kept, Placed(w, R), NEW r \in Lines, r \notin R, NEW text
  PROVE  LineIn(mem, r, text) <=> LineIn(M, r, text)
<1>1. r \in Kept \ R
  BY DEF Kept
<1>2. \A a \in Region(r) \cap Cells : M[a] = mem[a]
  BY <1>1, OthersKept
<1>3. \A a \in Region(r) \cap Cells : mem[a] = M[a]
  BY <1>2
<1>4. ASSUME LineIn(mem, r, text) PROVE LineIn(M, r, text)
  BY <1>2, <1>4, SameLine
<1>5. ASSUME LineIn(M, r, text) PROVE LineIn(mem, r, text)
  BY <1>3, <1>5, SameLine
<1> QED
  BY <1>4, <1>5

(* So are the settings.                                                    *)
LEMMA GlobalKept ==
  ASSUME NEW mem \in [Cells -> Byte], NEW w, NEW M, Reaches(mem, w, M),
         NEW R \in SUBSET Kept, Placed(w, R), Global \notin R, NEW s, GlobalIn(mem, s)
  PROVE  GlobalIn(M, s)
<1>1. Global \in Kept \ R
  BY DEF Kept
<1>2. \A a \in Region(Global) \cap Cells : M[a] = mem[a]
  BY <1>1, OthersKept
<1> QED
  BY <1>2, SameGlobal

(* The settings are read back from where they are, and nothing else is     *)
(* read as settings.                                                       *)
LEMMA GlobalRead ==
  ASSUME TypeOK, NEW s \in [1..SettingsSize -> Byte]
  PROVE  GlobalIn(eeprom, s) <=> Readable /\ Bytes(EEPROM_ADDR_GLOBAL, SettingsSize) = s
<1>1. SettingsSize = 3 /\ EEPROM_ADDR_GLOBAL = 1 /\ EepromSize > 4 /\ EepromSize \in Nat
  BY Layout DEF SettingsSize, EEPROM_ADDR_GLOBAL, Sizes
<1>2. \A a \in 0..4 : a % EepromSize = a
  BY <1>1, CellOf DEF Cells
<1>3. /\ \A i \in 1..3 : (1 + i - 1) % EepromSize = i
      /\ (1 + 3) % EepromSize = 4
  <2>1. \A i \in 1..3 : 1 + i - 1 = i /\ i \in 0..4
    OBVIOUS
  <2>2. 1 + 3 = 4 /\ 4 \in 0..4
    OBVIOUS
  <2> QED
    BY <1>2, <2>1, <2>2
<1>4. PICK b : b = [i \in 1..3 |-> eeprom[i]]
  OBVIOUS
<1>5. Bytes(1, 3) = b
  BY <1>3, <1>4 DEF Bytes
<1>6. (\A i \in 1..3 : eeprom[i] = s[i]) <=> b = s
  BY <1>1, <1>4
<1>7. Readable <=> eeprom[0] = SETTINGS_VERSION /\ Checksum(b) = eeprom[4]
  BY <1>1, <1>3, <1>5 DEF Readable, Matches
<1>8. GlobalIn(eeprom, s) <=> /\ eeprom[0] = SETTINGS_VERSION
                              /\ \A i \in 1..3 : eeprom[i] = s[i]
                              /\ eeprom[4] = Checksum(s)
  <2>1. 1 + 3 = 4
    OBVIOUS
  <2> QED
    BY <1>1, <2>1 DEF GlobalIn
<1> QED
  BY <1>1, <1>5, <1>6, <1>7, <1>8

(* A line is read back too.                                                *)
LEMMA LineRead ==
  ASSUME TypeOK, NEW r \in Lines, NEW text \in Text, LineIn(eeprom, r, text)
  PROVE  LET read == Bytes(LineAddr(r), LINE_BUFFER_SIZE)
         IN  /\ text[1] = 0 => read[1] = 0
             /\ text[1] # 0 => read = text /\ Matches(LineAddr(r), LINE_BUFFER_SIZE)
<1>1. PICK A \in Nat, N \in Nat : /\ A = LineAddr(r) /\ N = LINE_BUFFER_SIZE
                                  /\ N > 1 /\ A + N < EepromSize
  BY LineInMemory, Layout DEF Sizes
<1>2. \A a \in A..A + N : a % EepromSize = a
  BY <1>1, Layout, CellOf DEF Cells, Sizes
<1>3. /\ \A i \in 1..N : (A + i - 1) % EepromSize = A + i - 1
      /\ (A + N) % EepromSize = A + N
  <2>1. \A i \in 1..N : A + i - 1 \in A..A + N
    OBVIOUS
  <2>2. A + N \in A..A + N
    OBVIOUS
  <2> QED
    BY <1>2, <2>1, <2>2
<1>4. PICK b : b = [i \in 1..N |-> eeprom[A + i - 1]]
  OBVIOUS
<1>5. Bytes(A, N) = b
  BY <1>3, <1>4 DEF Bytes
<1>6. CASE text[1] = 0
  <2>1. 1 \in 1..N /\ A + 1 - 1 = A
    BY <1>1
  <2>2. eeprom[A] = 0
    BY <1>1, <1>6 DEF LineIn
  <2>3. b[1] = 0
    BY <1>4, <2>1, <2>2
  <2> QED
    BY <1>1, <1>5, <1>6, <2>3
<1>7. CASE text[1] # 0
  <2>1. (\A i \in 1..N : eeprom[A + i - 1] = text[i]) /\ eeprom[A + N] = Checksum(text)
    BY <1>1, <1>7 DEF LineIn
  <2>2. text \in [1..N -> Byte]
    BY <1>1 DEF Text
  <2>3. b = text
    BY <1>4, <2>1, <2>2
  <2>4. Matches(A, N)
    BY <1>3, <1>5, <2>1, <2>3 DEF Matches
  <2> QED
    BY <1>1, <1>5, <1>7, <2>3, <2>4
<1> QED
  BY <1>6, <1>7

-----------------------------------------------------------------------------
(* The memory is what is remembered of it.                                 *)

(* What the code takes for granted of the number in $N<n>= and does not    *)
(* check.                                                                  *)
StartupInRange == StartupNumbers \subseteq 0..N_STARTUP_LINE - 1

(* Every line is as stored, or lost its power.                             *)
LinesIn(M) == \A r \in Lines \ torn : LineIn(M, r, stored[r])

(* The memory that the pending writes lead to holds the settings and the   *)
(* lines. From power on to settings_init, the lines are in the memory      *)
(* itself, unless it will not be used.                                     *)
MemoryInv ==
  /\ Placed(pending, Kept)
  /\ pc = "idle" => \E M : Reaches(eeprom, pending, M) /\ GlobalIn(M, settings) /\ LinesIn(M)
  /\ pc = "boot" => pending = << >> /\ (Readable => LinesIn(eeprom))

(* With nothing to write, the memory itself holds them.                    *)
LEMMA WhenReady ==
  ASSUME TypeOK, MemoryInv, Ready
  PROVE  /\ GlobalIn(eeprom, settings) /\ LinesIn(eeprom)
         /\ eeprom \in [Cells -> Byte] /\ settings \in [1..SettingsSize -> Byte]
<1>1. eeprom \in [Cells -> Byte] /\ settings \in [1..SettingsSize -> Byte]
  BY DEF TypeOK
<1>2. PICK M : Reaches(eeprom, << >>, M) /\ GlobalIn(M, settings) /\ LinesIn(M)
  BY DEF MemoryInv, Ready
<1>3. M = eeprom
  BY <1>1, <1>2, NothingToWrite
<1> QED
  BY <1>1, <1>2, <1>3

(* What must be shown of a step that ends in the main loop.                *)
LEMMA MemoryNext ==
  ASSUME NEW M, Reaches(eeprom', pending', M), Placed(pending', Kept), GlobalIn(M, settings'),
         LinesIn(M)', pc' = "idle"
  PROVE  MemoryInv'
BY DEF MemoryInv

(* Settings are written.                                                   *)
LEMMA SettingsWritten ==
  ASSUME TypeOK, MemoryInv, Ready, settings' \in [1..SettingsSize -> Byte],
         pending' = write_global_settings(settings'), UNCHANGED <<eeprom, pc, stored, torn>>
  PROVE  MemoryInv'
<1>1. LinesIn(eeprom) /\ eeprom \in [Cells -> Byte]
  BY WhenReady
<1>2. PICK s \in [1..SettingsSize -> Byte] : s = settings'
  OBVIOUS
<1>3. PICK w : w = write_global_settings(s)
  OBVIOUS
<1>4. PICK M : Reaches(eeprom, w, M) /\ Placed(w, {Global}) /\ GlobalIn(M, s)
  BY <1>1, <1>3, GlobalReached
<1>5. {Global} \in SUBSET Kept /\ \A r \in Lines : r \notin {Global}
  BY LineAddrs DEF Kept
<1>6. ASSUME NEW r \in Lines \ torn PROVE LineIn(M, r, stored[r])
  BY <1>1, <1>4, <1>5, LineKept DEF LinesIn
<1>7. Placed(w, Kept)
  BY <1>4, <1>5 DEF Placed
<1>8. LinesIn(M)'
  BY <1>6 DEF LinesIn
<1> QED
  BY <1>2, <1>3, <1>4, <1>7, <1>8, MemoryNext DEF Ready

(* A line is written: the text that it should hold, or an empty one.       *)
LEMMA LineWritten ==
  ASSUME TypeOK, MemoryInv, Ready, NEW r \in Lines, NEW text \in Text,
         pending' = memcpy_to_eeprom_with_checksum(r, LineAddr(r), text),
         torn' = torn \ {r}, UNCHANGED <<eeprom, settings, pc>>,
         \A q \in Lines \ {r} : stored'[q] = stored[q],
         \/ stored'[r] = text
         \/ stored'[r][1] = 0 /\ text[1] = 0
  PROVE  MemoryInv'
<1>1. GlobalIn(eeprom, settings) /\ LinesIn(eeprom) /\ eeprom \in [Cells -> Byte]
  BY WhenReady
<1>2. PICK w : w = memcpy_to_eeprom_with_checksum(r, LineAddr(r), text)
  OBVIOUS
<1>3. PICK M : Reaches(eeprom, w, M) /\ Placed(w, {r}) /\ LineIn(M, r, text)
  BY <1>1, <1>2, LineReached
<1>4. {r} \in SUBSET Kept /\ Global \notin {r}
  BY LineAddrs DEF Kept
<1>5. GlobalIn(M, settings)
  BY <1>1, <1>3, <1>4, GlobalKept
<1>6. ASSUME NEW q \in Lines \ torn' PROVE LineIn(M, q, stored'[q])
  <2>1. CASE q = r
    BY <1>3, <2>1 DEF LineIn
  <2>2. CASE q # r
    <3>1. LineIn(eeprom, q, stored[q]) /\ stored'[q] = stored[q]
      BY <1>1, <1>6, <2>2 DEF LinesIn
    <3>2. LineIn(M, q, stored[q])
      BY <1>1, <1>3, <1>4, <2>2, <3>1, LineKept
    <3> QED
      BY <3>1, <3>2
  <2> QED
    BY <2>1, <2>2
<1>7. Placed(w, Kept)
  BY <1>3, <1>4 DEF Placed
<1>8. LinesIn(M)'
  BY <1>6 DEF LinesIn
<1> QED
  BY <1>2, <1>3, <1>5, <1>7, <1>8, MemoryNext DEF Ready

(* Everything is restored, whatever the memory was.                        *)
LEMMA Restored ==
  ASSUME TypeOK, RestoreAll, UNCHANGED eeprom, pc' = "idle"
  PROVE  MemoryInv'
<1>1. eeprom \in [Cells -> Byte]
  BY DEF TypeOK
<1>2. PICK w : w = write_global_settings(Defaults) \o EraseLines
  OBVIOUS
<1>3. PICK M : /\ Reaches(eeprom, w, M) /\ Placed(w, Kept)
               /\ GlobalIn(M, Defaults) /\ \A r \in Lines : M[LineAddr(r)] = 0
  BY <1>1, <1>2, RestoreReached
<1>4. ASSUME NEW r \in Lines PROVE LineIn(M, r, stored'[r])
  <2>1. stored'[r] = Empty
    BY DEF RestoreAll, Records
  <2> QED
    BY <1>3, <2>1, EmptyIsText DEF LineIn
<1>5. LinesIn(M)'
  BY <1>4 DEF LinesIn
<1> QED
  BY <1>2, <1>3, <1>5, MemoryNext DEF RestoreAll

(* Every step keeps the memory what it should be, if no startup line but   *)
(* those there are is named.                                               *)
LEMMA MemoryKept ==
  ASSUME StartupInRange, TypeOK, MemoryInv, [Next]_vars
  PROVE  MemoryInv'
<1>0. TypeOK /\ TypeOK' /\ Records = Lines
  BY TypesKept DEF TypeOK, StartupInRange, Records, Lines
<1>1. CASE \E v \in 0..1, p \in {20, 22, 2, 3} : settings_store_global_setting(p, v)
  <2>1. PICK v \in 0..1, p \in {20, 22, 2, 3} : settings_store_global_setting(p, v)
    BY <1>1
  <2>2. /\ Ready /\ UNCHANGED <<eeprom, pc, stored, torn>> /\ settings' = StoredSetting(p, v)
        /\ settings' \in [1..SettingsSize -> Byte]
    BY <1>0, <2>1, StoredTyped DEF settings_store_global_setting, Command
  <2>3. CASE RefusedSetting(p, v)
    <3>1. StoredSetting(p, v) = settings
      BY <2>3 DEF StoredSetting, RefusedSetting
    <3>2. UNCHANGED pending
      BY <2>1, <2>2, <2>3 DEF settings_store_global_setting, Ready
    <3> QED
      BY <2>2, <3>1, <3>2 DEF MemoryInv, LinesIn, Ready
  <2>4. CASE ~RefusedSetting(p, v)
    <3>1. pending' = write_global_settings(settings')
      BY <2>1, <2>2, <2>4 DEF settings_store_global_setting
    <3> QED
      BY <2>2, <3>1, SettingsWritten
  <2> QED
    BY <2>3, <2>4
<1>2. ASSUME NEW r \in Lines, NEW text \in Text, StoreText(r, text), Ready,
             UNCHANGED <<eeprom, settings, pc>>
      PROVE  MemoryInv'
  <2>1. stored'[r] = text /\ \A q \in Lines \ {r} : stored'[q] = stored[q]
    BY <1>0, <1>2 DEF StoreText, TypeOK
  <2> QED
    BY <1>2, <2>1, LineWritten DEF StoreText
<1>3. CASE \E n \in StartupNumbers, t \in Texts : settings_store_startup_line(n, t)
  <2>1. PICK n \in StartupNumbers, t \in Texts : settings_store_startup_line(n, t)
    BY <1>3
  <2>2. n \in Lines /\ t \in Text /\ Ready /\ UNCHANGED <<eeprom, settings, pc>>
    BY <2>1, SettingsAssumption DEF settings_store_startup_line, StartupInRange, Lines, Command
  <2> QED
    BY <1>2, <2>1, <2>2 DEF settings_store_startup_line
<1>4. CASE \E t \in Texts : settings_store_build_info(t)
  <2>1. PICK t \in Texts : settings_store_build_info(t)
    BY <1>4
  <2>2. BuildInfo \in Lines /\ t \in Text /\ Ready /\ UNCHANGED <<eeprom, settings, pc>>
    BY <2>1, SettingsAssumption DEF settings_store_build_info, Lines, Command
  <2> QED
    BY <1>2, <2>1, <2>2 DEF settings_store_build_info
<1>5. CASE RestoreCommand
  <2>1. Ready /\ UNCHANGED <<eeprom, pc>> /\ pc' = "idle"
    BY <1>5 DEF RestoreCommand, Command, Ready
  <2>2. CASE RestoreAll
    BY <2>1, <2>2, Restored
  <2>3. CASE /\ settings' = Defaults /\ pending' = write_global_settings(Defaults)
             /\ UNCHANGED <<stored, torn>>
    <3>1. settings' \in [1..SettingsSize -> Byte]
      BY <1>0 DEF TypeOK
    <3> QED
      BY <2>1, <2>3, <3>1, SettingsWritten
  <2> QED
    BY <1>5, <2>2, <2>3 DEF RestoreCommand
<1>6. CASE \E r \in Lines : settings_read_line(r)
  <2>1. PICK r \in Lines : settings_read_line(r)
    BY <1>6
  <2>2. PICK A \in Int : A = LineAddr(r)
    BY LineInMemory
  <2>3. PICK b : b = Bytes(A, LINE_BUFFER_SIZE)
    OBVIOUS
  <2>4. PICK text : text = [b EXCEPT ![1] = 0]
    OBVIOUS
  <2>5. text \in Text /\ text[1] = 0
    <3>1. LINE_BUFFER_SIZE \in Nat /\ 1 \in 1..LINE_BUFFER_SIZE /\ 0 \in Byte
      BY Layout DEF Sizes, Byte
    <3>2. b \in [1..LINE_BUFFER_SIZE -> Byte]
      BY <1>0, <2>3, <3>1, BytesTyped
    <3> QED
      BY <2>4, <3>1, <3>2 DEF Text
  <2>6. /\ pending' = memcpy_to_eeprom_with_checksum(r, LineAddr(r), text)
        /\ stored' = IF r \in torn THEN [stored EXCEPT ![r] = text] ELSE stored
        /\ torn' = torn \ {r} /\ Ready /\ UNCHANGED <<eeprom, settings, pc>>
        /\ ~Matches(LineAddr(r), LINE_BUFFER_SIZE)
    BY <2>1, <2>2, <2>3, <2>4 DEF settings_read_line
  <2>7. \A q \in Lines \ {r} : stored'[q] = stored[q]
    BY <1>0, <2>6 DEF TypeOK
  <2>8. CASE r \in torn
    <3>1. stored'[r] = text
      BY <1>0, <2>6, <2>8 DEF TypeOK
    <3> QED
      BY <2>5, <2>6, <2>7, <3>1, LineWritten
  <2>9. CASE r \notin torn
    <3>1. PICK t \in Text : t = stored[r]
      BY <1>0 DEF TypeOK
    <3>2. LineIn(eeprom, r, t)
      BY <2>6, <2>9, <3>1, WhenReady DEF LinesIn
    <3>3. t[1] = 0
      BY <1>0, <2>6, <3>2, LineRead
    <3>4. stored'[r][1] = 0
      BY <2>6, <2>9, <3>1, <3>3
    <3> QED
      BY <2>5, <2>6, <2>7, <3>4, LineWritten
  <2> QED
    BY <2>8, <2>9
<1>7. CASE eeprom_put_char
  <2>1. PICK N \in Nat : N = Len(pending) /\ pending \in Seq(WriteType)
    BY DEF TypeOK
  <2>2. N > 0 /\ pc = "idle" /\ pending # << >>
    BY <1>0, <1>7, <2>1 DEF eeprom_put_char, TypeOK
  <2>3. PICK w \in WriteType : w = pending[1] /\ w = Head(pending)
    <3> HIDE DEF WriteType
    <3> QED
      BY <2>1, <2>2
  <2>4. w.addr \in Cells /\ w.byte \in Byte /\ eeprom[w.addr] \in Byte /\ eeprom \in [Cells -> Byte]
    BY <1>0 DEF WriteType, TypeOK
  <2>5. eeprom' = [eeprom EXCEPT ![w.addr] = w.byte]
    BY <1>7, <2>3, <2>4, ProgramsNew DEF eeprom_put_char
  <2>6. PICK tail : tail = Tail(pending) /\ pending' = tail
    BY <1>7 DEF eeprom_put_char
  <2>7. tail \in Seq(WriteType) /\ Len(tail) = N - 1 /\ \A i \in 1..N - 1 : tail[i] = pending[i + 1]
    <3> HIDE DEF WriteType
    <3> QED
      BY <2>1, <2>2, <2>6
  <2>8. \A i \in 1..N - 1 : i + 1 \in 1..N
    BY <2>1
  <2>9. Placed(tail, Kept)
    BY <2>1, <2>7, <2>8 DEF MemoryInv, Placed
  <2>10. PICK M : Reaches(eeprom, pending, M) /\ GlobalIn(M, settings) /\ LinesIn(M)
    BY <2>2 DEF MemoryInv
  <2>11. Reaches(eeprom', tail, M)
    <3>1. M \in [Cells -> Byte] /\ M[w.addr] = w.byte
      BY <2>1, <2>2, <2>3, <2>10 DEF Reaches
    <3>2. \A i \in 1..N - 1 : M[tail[i].addr] = tail[i].byte
      BY <2>1, <2>7, <2>8, <2>10 DEF Reaches
    <3>3. ASSUME NEW a \in Cells, \A i \in 1..N - 1 : tail[i].addr # a PROVE M[a] = eeprom'[a]
      <4>1. CASE a = w.addr
        BY <2>4, <2>5, <3>1, <4>1
      <4>2. CASE a # w.addr
        <5>1. ASSUME NEW i \in 1..N PROVE pending[i].addr # a
          <6>1. CASE i = 1
            BY <2>3, <4>2, <6>1
          <6>2. CASE i # 1
            <7>1. i - 1 \in 1..N - 1 /\ (i - 1) + 1 = i
              BY <6>2
            <7> QED
              BY <2>7, <3>3, <7>1
          <6> QED
            BY <6>1, <6>2
        <5>2. M[a] = eeprom[a]
          BY <2>1, <2>10, <5>1 DEF Reaches
        <5> QED
          BY <2>4, <2>5, <4>2, <5>2
      <4> QED
        BY <4>1, <4>2
    <3> QED
      BY <2>7, <3>1, <3>2, <3>3 DEF Reaches
  <2>12. UNCHANGED <<settings, pc, stored, torn>>
    BY <1>7 DEF eeprom_put_char
  <2>13. LinesIn(M)'
    BY <2>10, <2>12 DEF LinesIn
  <2> QED
    BY <2>2, <2>6, <2>9, <2>10, <2>11, <2>12, <2>13, MemoryNext
<1>8. CASE PowerLoss
  <2>1. PICK N \in Nat : N = Len(pending) /\ pending \in Seq(WriteType) /\ DOMAIN pending = 1..N
    BY DEF TypeOK
  <2>2. pc' = "boot" /\ pending' = << >> /\ UNCHANGED stored
    BY <1>8 DEF PowerLoss
  <2>3. Placed(<< >>, Kept)
    BY DEF Placed
  <2>4. PICK R : R = {pending[i].record : i \in 1..N} /\ torn' = torn \cup R
    BY <1>8, <2>1 DEF PowerLoss
  <2>5. R \in SUBSET Kept /\ Placed(pending, R)
    BY <2>1, <2>4 DEF MemoryInv, Placed
  <2>6. CASE pc = "idle"
    <3>1. PICK M : Reaches(eeprom, pending, M) /\ LinesIn(M)
      BY <2>6 DEF MemoryInv
    <3>2. eeprom \in [Cells -> Byte]
      BY <1>0 DEF TypeOK
    <3>3. ASSUME NEW r \in Lines \ torn' PROVE LineIn(eeprom', r, stored'[r])
      <4>1. r \notin R /\ r \in Lines \ torn /\ r \in Kept
        BY <2>4 DEF Kept
      <4>2. PICK text : text = stored[r] /\ text = stored'[r]
        BY <2>2
      <4>3. LineIn(M, r, text)
        BY <3>1, <4>1, <4>2 DEF LinesIn
      <4>4. LineIn(eeprom, r, text)
        BY <2>5, <3>1, <3>2, <4>1, <4>3, LineKept
      <4>5. CASE UNCHANGED eeprom
        BY <4>2, <4>4, <4>5
      <4>6. CASE pending # << >> /\ eeprom' = [eeprom EXCEPT ![Head(pending).addr] = 255]
        <5>1. PICK w \in WriteType : w = pending[1] /\ w = Head(pending)
          <6> HIDE DEF WriteType
          <6> QED
            BY <2>1, <4>6
        <5>2. 1 \in 1..N
          BY <2>1, <4>6
        <5>3. w.record \in R /\ w.addr \in Region(w.record) /\ w.addr \in Cells
          BY <2>1, <2>5, <5>1, <5>2 DEF Placed, WriteType
        <5>4. w.addr \notin Region(r)
          BY <2>5, <4>1, <5>3, RegionsApart DEF Kept
        <5>5. \A a \in Region(r) \cap Cells : eeprom'[a] = eeprom[a]
          BY <3>2, <4>6, <5>1, <5>3, <5>4
        <5>6. PICK E : E = eeprom'
          OBVIOUS
        <5>7. LineIn(E, r, text)
          BY <4>4, <5>5, <5>6, SameLine
        <5> QED
          BY <4>2, <5>6, <5>7
      <4> QED
        BY <1>8, <4>5, <4>6 DEF PowerLoss
    <3>4. LinesIn(eeprom)'
      BY <3>3 DEF LinesIn
    <3> QED
      BY <2>2, <2>3, <3>4 DEF MemoryInv
  <2>7. CASE pc = "boot"
    <3>1. pending = << >> /\ (Readable => LinesIn(eeprom)) /\ N = 0
      BY <2>1, <2>7 DEF MemoryInv
    <3>2. UNCHANGED eeprom /\ R = {}
      BY <1>8, <2>4, <3>1 DEF PowerLoss
    <3>3. Readable' <=> Readable
      BY <3>2 DEF Readable, Matches, Bytes
    <3>4. LinesIn(eeprom)' <=> LinesIn(eeprom)
      BY <2>2, <2>4, <3>2 DEF LinesIn
    <3> QED
      BY <2>2, <2>3, <3>1, <3>3, <3>4 DEF MemoryInv
  <2> QED
    BY <1>0, <2>6, <2>7 DEF TypeOK
<1>9. CASE settings_init
  <2>1. UNCHANGED eeprom /\ pc = "boot" /\ pc' = "idle"
    BY <1>9 DEF settings_init
  <2>2. CASE Readable
    <3>1. /\ UNCHANGED <<pending, stored, torn>> /\ pending = << >> /\ LinesIn(eeprom)
          /\ settings' = Bytes(EEPROM_ADDR_GLOBAL, SettingsSize)
      BY <1>9, <2>1, <2>2 DEF settings_init, MemoryInv
    <3>2. PICK s \in [1..SettingsSize -> Byte] : s = settings'
      BY <1>0 DEF TypeOK
    <3>3. GlobalIn(eeprom, s)
      BY <1>0, <2>2, <3>1, <3>2, GlobalRead
    <3>4. PICK M : M = eeprom
      OBVIOUS
    <3>5. Reaches(M, << >>, M) /\ Placed(<< >>, Kept)
      BY <1>0, <3>4, NothingReached DEF TypeOK, Placed
    <3>6. LinesIn(M)'
      BY <3>1, <3>4 DEF LinesIn
    <3> QED
      BY <2>1, <3>1, <3>2, <3>3, <3>4, <3>5, <3>6, MemoryNext
  <2>3. CASE ~Readable
    <3>1. RestoreAll
      BY <1>9, <2>3 DEF settings_init
    <3> QED
      BY <2>1, <3>1, Restored
  <2> QED
    BY <2>2, <2>3
<1>10. CASE UNCHANGED vars
  <2>1. UNCHANGED <<eeprom, settings, pending, pc, stored, torn>>
    BY <1>10 DEF vars
  <2> QED
    BY <2>1 DEF MemoryInv, LinesIn, Readable, Matches, Bytes
<1> QED
  BY <1>1, <1>3, <1>4, <1>5, <1>6, <1>7, <1>8, <1>9, <1>10 DEF Next

(* So it begins: a chip never written will not be used, one in use has     *)
(* empty lines.                                                            *)
LEMMA MemoryInit == StartupInRange /\ Init => MemoryInv
<1> SUFFICES ASSUME StartupInRange, Init PROVE MemoryInv
  OBVIOUS
<1>1. pc = "boot" /\ pending = << >> /\ torn = {} /\ stored = [r \in Records |-> Empty]
      /\ (eeprom = [a \in Cells |-> 255] \/ eeprom = InUse)
  BY DEF Init
<1>2. Placed(<< >>, Kept)
  BY DEF Placed
<1>3. CASE eeprom = [a \in Cells |-> 255]
  <2>1. 0 \in Cells
    BY Layout DEF Cells, Sizes
  <2>2. ~Readable
    BY <1>3, <2>1 DEF Readable, SETTINGS_VERSION
  <2> QED
    BY <1>1, <1>2, <2>2 DEF MemoryInv
<1>4. CASE eeprom = InUse
  <2>1. ASSUME NEW r \in Lines PROVE LineIn(eeprom, r, stored[r])
    <3>1. PICK A \in Cells : A = LineAddr(r) /\ A > 4 /\ A \in Nat
      BY LineInMemory, Layout DEF Cells, Sizes
    <3>2. eeprom[A] = 0
      <4>1. A # 0 /\ A \notin 1..SettingsSize /\ A # EEPROM_ADDR_GLOBAL + SettingsSize
        BY <3>1 DEF SettingsSize, EEPROM_ADDR_GLOBAL
      <4> QED
        BY <1>4, <3>1, <4>1 DEF InUse
    <3>3. stored[r] = Empty
      BY <1>1 DEF Records
    <3> QED
      BY <3>1, <3>2, <3>3, EmptyIsText DEF LineIn
  <2> QED
    BY <1>1, <1>2, <2>1 DEF MemoryInv, LinesIn
<1> QED
  BY <1>1, <1>3, <1>4

(* The settings in force are those a start would find, whatever was        *)
(* stored, refused, restored, or lost with the power at any byte before:   *)
(* provided that $N names a line there is, which the code does not check.  *)
THEOREM SettingsAlwaysMatch ==
  ASSUME StartupInRange PROVE Spec => []SettingsMatchEeprom
<1>1. Init => TypeOK /\ MemoryInv
  BY TypesInit, MemoryInit
<1>2. TypeOK /\ MemoryInv /\ [Next]_vars => (TypeOK /\ MemoryInv)'
  BY TypesKept, MemoryKept
<1>3. TypeOK /\ MemoryInv => SettingsMatchEeprom
  <2> SUFFICES ASSUME TypeOK, MemoryInv, Ready
               PROVE  Readable /\ Bytes(EEPROM_ADDR_GLOBAL, SettingsSize) = settings
    BY DEF SettingsMatchEeprom
  <2>1. GlobalIn(eeprom, settings) /\ settings \in [1..SettingsSize -> Byte] /\ TypeOK
    BY WhenReady DEF TypeOK
  <2> QED
    BY <2>1, GlobalRead
<1> QED
  BY <1>1, <1>2, <1>3, PTL DEF Spec

(* A line reads as it was last stored or erased, unless power failed while *)
(* that line was being written: provided as before.                        *)
THEOREM LinesAlwaysAsStored ==
  ASSUME StartupInRange PROVE Spec => []LinesAsStored
<1>1. Init => TypeOK /\ MemoryInv
  BY TypesInit, MemoryInit
<1>2. TypeOK /\ MemoryInv /\ [Next]_vars => (TypeOK /\ MemoryInv)'
  BY TypesKept, MemoryKept
<1>3. TypeOK /\ MemoryInv => LinesAsStored
  <2> SUFFICES ASSUME TypeOK, MemoryInv, Ready, NEW r \in Lines \ torn
               PROVE  ReadText(r) = IF stored[r][1] = 0 THEN Empty ELSE stored[r]
    BY DEF LinesAsStored
  <2>1. PICK text \in Text : text = stored[r]
    BY DEF TypeOK, Records
  <2>2. LineIn(eeprom, r, text) /\ TypeOK /\ r \in Lines
    BY <2>1, WhenReady DEF LinesIn, TypeOK
  <2>3. CASE text[1] = 0
    BY <2>1, <2>2, <2>3, LineRead DEF ReadText
  <2>4. CASE text[1] # 0
    BY <2>1, <2>2, <2>4, LineRead DEF ReadText
  <2> QED
    BY <2>3, <2>4
<1> QED
  BY <1>1, <1>2, <1>3, PTL DEF Spec
=============================================================================
