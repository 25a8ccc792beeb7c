-------------------------- MODULE DeploymentProofs --------------------------
(***************************************************************************)
(* Types and safety of Deployment, for every plan, configuration and       *)
(* image.  An operation changes the state through an effect record: that   *)
(* the effect of each operation is well typed, and that performing a well  *)
(* typed effect preserves the types, are proved apart.  On the types rest  *)
(* the order and the content of checkpoints, the meaning of                *)
(* rollback_ready, the accounting of storage and RAM, what the active slot *)
(* runs, and activation as one step.                                       *)
(*                                                                         *)
(* The module begins with lemmas about the operators Replay and Deployment *)
(* are built from: they return images, bytes, natural numbers and backup   *)
(* areas.  It ends with the operations as functions of the device.         *)
(***************************************************************************)
EXTENDS Deployment, SequenceFacts

-----------------------------------------------------------------------------
(* Max and Min of small sets of naturals.                                  *)
LEMMA MinOfTwo ==
  ASSUME NEW a \in Int, NEW b \in Int
  PROVE  Min({a, b}) = IF a <= b THEN a ELSE b
<1> DEFINE m == IF a <= b THEN a ELSE b
<1>1. m \in {a, b} /\ \A y \in {a, b} : m <= y  OBVIOUS
<1>2. \A x \in {a, b} : (\A y \in {a, b} : x <= y) => x = m  OBVIOUS
<1> HIDE DEF m
<1>3. Min({a, b}) = m  BY <1>1, <1>2 DEF Min
<1> QED BY <1>3 DEF m

(* The least upper bound of a bounded set of naturals is its maximum.      *)
LEMMA MaxOfBounded ==
  ASSUME NEW S, S \subseteq Nat, S # {}, NEW bound \in Nat, \A y \in S : y <= bound
  PROVE  Max(S) \in S /\ Max(S) \in Nat /\ \A y \in S : Max(S) >= y
<1> DEFINE Bounds == {b \in Nat : \A y \in S : y <= b}
<1>1. PICK m \in Bounds : \A b \in Bounds : m <= b
  <2>1. Bounds \subseteq Nat /\ Bounds # {}  OBVIOUS
  <2> HIDE DEF Bounds
  <2> QED BY <2>1, NatMin
<1>2. m \in Nat /\ \A y \in S : y <= m  OBVIOUS
<1>3. m \in S
  <2> SUFFICES ASSUME m \notin S PROVE FALSE  OBVIOUS
  <2>1. \A y \in S : y \in Nat /\ y < m  BY <1>2
  <2>2. m - 1 \in Nat /\ ~ (m <= m - 1)
    <3>1. PICK y \in S : y \in Nat /\ y < m  BY <2>1
    <3>2. m \in Nat  BY <1>2
    <3> QED BY <3>1, <3>2
  <2>3. \A y \in S : y <= m - 1  BY <2>1, <1>2
  <2>4. m - 1 \in Bounds  BY <2>2, <2>3
  <2> QED BY <1>1, <2>2, <2>4
<1>4. \E x \in S : \A y \in S : x >= y
  <2>1. \A y \in S : m >= y  BY <1>2
  <2> QED BY <1>3, <2>1
<1>5. Max(S) \in S /\ \A y \in S : Max(S) >= y  BY <1>4 DEF Max
<1> QED BY <1>5

LEMMA MaxOfTwo ==
  ASSUME NEW a \in Nat, NEW b \in Nat
  PROVE  Max({a, b}) \in Nat /\ Max({a, b}) >= a /\ Max({a, b}) >= b
<1>1. {a, b} \subseteq Nat /\ {a, b} # {} /\ a + b \in Nat /\ \A y \in {a, b} : y <= a + b
  OBVIOUS
<1> QED BY <1>1, MaxOfBounded

-----------------------------------------------------------------------------
(* Images.                                                                 *)
LEMMA BytesType ==
  ASSUME NEW blocks \in Image
  PROVE  BlocksToBytes(blocks) \in Block /\ ImageBytes(blocks) \in Nat
<1>1. BlocksToBytes(blocks) \in Block
  BY FlattenSeqType DEF BlocksToBytes, Image, Block
<1>2. ImageBytes(blocks) \in Nat  BY <1>1, LenProperties DEF ImageBytes, Block
<1> QED BY <1>1, <1>2

LEMMA TakeType ==
  ASSUME NEW S, NEW seq \in Seq(S), NEW size \in Nat
  PROVE  Take(seq, size) \in Seq(S)
<1>1. Len(seq) \in Nat  OBVIOUS
<1> DEFINE n == Min({size, Len(seq)})
<1>2. n \in Int /\ n <= Len(seq)  BY <1>1, MinOfTwo
<1> HIDE DEF n
<1>3. \A i \in 1 .. n : seq[i] \in S  BY <1>1, <1>2
<1>4. SubSeq(seq, 1, n) \in Seq(S)  BY <1>2, <1>3, SubSeqProperties
<1> QED BY <1>4 DEF Take, n

LEMMA BytesToBlocksType ==
  ASSUME NEW data \in Block
  PROVE  BytesToBlocks(data) \in Image
<1> DEFINE count == (Len(data) + BlockSize - 1) \div BlockSize
           cut(i) == SubSeq(data, (i - 1) * BlockSize + 1, Min({i * BlockSize, Len(data)}))
<1>1. Len(data) \in Nat /\ BlockSize \in Nat /\ BlockSize > 0
  BY BlockSizeAssumption DEF Block
<1>2. count \in Nat  BY <1>1
<1>3. ASSUME NEW i \in 1 .. count  PROVE cut(i) \in Block
  <2>1. i * BlockSize \in Nat /\ (i - 1) * BlockSize \in Nat  BY <1>1, <1>2
  <2> DEFINE lo == (i - 1) * BlockSize + 1
             hi == Min({i * BlockSize, Len(data)})
  <2>2. lo \in Int /\ lo >= 1 /\ hi \in Int /\ hi <= Len(data)
    BY <1>1, <2>1, MinOfTwo
  <2> HIDE DEF lo, hi
  <2>3. \A j \in lo .. hi : data[j] \in Byte  BY <1>1, <2>2 DEF Block
  <2>4. SubSeq(data, lo, hi) \in Seq(Byte)  BY <2>2, <2>3, SubSeqProperties
  <2> QED BY <2>4 DEF Block, lo, hi
<1>4. BytesToBlocks(data) = [i \in 1 .. count |-> cut(i)]  BY DEF BytesToBlocks
<1> HIDE DEF count, cut
<1>5. BytesToBlocks(data) \in [1 .. count -> Block]  BY <1>3, <1>4
<1> QED BY <1>2, <1>5 DEF Image

LEMMA TruncateBytesType ==
  ASSUME NEW blocks \in Image, NEW size \in Nat
  PROVE  TruncateBytes(blocks, size) \in Image
BY BytesType, TakeType, BytesToBlocksType DEF TruncateBytes, Block

LEMMA WriteBlockType ==
  ASSUME NEW blocks \in Image, NEW target \in Nat, NEW block \in Block
  PROVE  WriteBlock(blocks, target, block) \in Image
<1>1. Len(blocks) \in Nat  BY DEF Image
<1> DEFINE n == Max({Len(blocks), target + 1})
           new(i) == IF i = target + 1 THEN block
                     ELSE IF i <= Len(blocks) THEN blocks[i] ELSE << >>
<1>2. n \in Nat  BY <1>1, MaxOfTwo
<1>3. << >> \in Block  BY DEF Block
<1>4. WriteBlock(blocks, target, block) = [i \in 1 .. n |-> new(i)]  BY DEF WriteBlock
<1> HIDE DEF n
<1>5. \A i \in 1 .. n : new(i) \in Block  BY <1>1, <1>2, <1>3 DEF Image
<1> HIDE DEF new
<1>6. WriteBlock(blocks, target, block) \in [1 .. n -> Block]  BY <1>4, <1>5
<1> QED BY <1>2, <1>6 DEF Image

LEMMA HolesType ==
  ASSUME NEW blocks \in Image, NEW target \in Nat
  PROVE  Holes(blocks, target) \in Nat
<1>1. Len(blocks) \in Nat  BY DEF Image
<1> DEFINE gap == target - Len(blocks)
           m == IF gap > 0 THEN gap ELSE 0
<1>2. m \in {0, gap} /\ \A y \in {0, gap} : m >= y  BY <1>1
<1>3. \A x \in {0, gap} : (\A y \in {0, gap} : x >= y) => x = m  BY <1>1
<1>4. m \in Nat  BY <1>1
<1> HIDE DEF m
<1>5. Max({0, gap}) = m  BY <1>2, <1>3 DEF Max
<1> QED BY <1>4, <1>5 DEF Holes

LEMMA DeleteBlocksType ==
  ASSUME NEW blocks \in Image, NEW target \in Nat, NEW count \in Nat,
         target + count <= Len(blocks)
  PROVE  DeleteBlocks(blocks, target, count) \in Image
<1>1. Len(blocks) \in Nat  BY DEF Image
<1>2. SubSeq(blocks, 1, target) \in Image
  <2>1. \A i \in 1 .. target : blocks[i] \in Block  BY <1>1 DEF Image
  <2> QED BY <2>1, SubSeqProperties DEF Image
<1>3. SubSeq(blocks, target + count + 1, Len(blocks)) \in Image
  <2>1. \A i \in target + count + 1 .. Len(blocks) : blocks[i] \in Block
    BY <1>1 DEF Image
  <2>2. target + count + 1 \in Int /\ Len(blocks) \in Int  BY <1>1
  <2> QED BY <2>1, <2>2, SubSeqProperties DEF Image
<1> QED BY <1>2, <1>3, ConcatProperties DEF DeleteBlocks, Image

-----------------------------------------------------------------------------
(* Saving a backup keeps the area a function from finitely many names.     *)
LEMMA SaveBackupType ==
  ASSUME NEW area, IsBackupArea(area), NEW id \in BackupId, NEW record \in BackupRecord
  PROVE  IsBackupArea(SaveBackup(area, id, record))
<1> DEFINE saved == SaveBackup(area, id, record)
<1>1. DOMAIN saved = DOMAIN area \cup {id}  BY DEF SaveBackup
<1>2. IsFiniteSet(DOMAIN saved)
  <2>1. IsFiniteSet(DOMAIN area)  BY DEF IsBackupArea
  <2> QED BY <1>1, <2>1, FS_AddElement
<1>3. saved \in [DOMAIN saved -> BackupRecord]
  <2>1. \A name \in DOMAIN area \cup {id} :
          (IF name = id THEN record ELSE area[name]) \in BackupRecord
    BY DEF IsBackupArea
  <2> QED BY <1>1, <2>1 DEF SaveBackup
<1> QED BY <1>1, <1>2, <1>3 DEF IsBackupArea

-----------------------------------------------------------------------------
(* Cutting bytes into blocks: the arithmetic of the block boundaries, and  *)
(* what blocks_to_bytes and bytes_to_blocks are to each other.             *)
LEMMA DivBounds ==
  ASSUME NEW a \in Nat, NEW b \in Nat \ {0}
  PROVE  /\ a \div b \in Nat
         /\ (a \div b) * b <= a /\ a < (a \div b) * b + b
OBVIOUS

LEMMA MulMonotone ==
  ASSUME NEW i \in Nat, NEW j \in Nat, i <= j, NEW b \in Nat
  PROVE  i * b \in Nat /\ i * b <= j * b
OBVIOUS

LEMMA SubSeqJoin ==
  ASSUME NEW S, NEW s \in Seq(S), NEW a \in Nat, NEW b \in Nat, a <= b, b <= Len(s)
  PROVE  SubSeq(s, 1, a) \o SubSeq(s, a + 1, b) = SubSeq(s, 1, b)
<1> DEFINE left == SubSeq(s, 1, a)  right == SubSeq(s, a + 1, b)  all == SubSeq(s, 1, b)
<1>0. \A i \in 1 .. Len(s) : s[i] \in S  OBVIOUS
<1>1. /\ left \in Seq(S) /\ Len(left) = a /\ \A i \in 1 .. a : left[i] = s[i]
  <2>1. \A i \in 1 .. a : s[i] \in S  BY <1>0
  <2> QED BY <2>1, SubSeqProperties
<1>2. /\ right \in Seq(S) /\ Len(right) = b - a
      /\ \A i \in 1 .. b - a : right[i] = s[a + i]
  <2>1. \A i \in a + 1 .. b : s[i] \in S  BY <1>0
  <2> QED BY <2>1, SubSeqProperties
<1>3. /\ all \in Seq(S) /\ Len(all) = b /\ \A i \in 1 .. b : all[i] = s[i]
  <2>1. \A i \in 1 .. b : s[i] \in S  BY <1>0
  <2> QED BY <2>1, SubSeqProperties
<1> HIDE DEF left, right, all
<1>4. /\ left \o right \in Seq(S) /\ Len(left \o right) = b
      /\ \A i \in 1 .. b : (left \o right)[i] = IF i <= a THEN left[i] ELSE right[i - a]
  <2>1. /\ left \o right \in Seq(S) /\ Len(left \o right) = Len(left) + Len(right)
        /\ \A i \in 1 .. Len(left) + Len(right) :
              (left \o right)[i] = IF i <= Len(left) THEN left[i] ELSE right[i - Len(left)]
    <3>1. left \in Seq(S) /\ right \in Seq(S)  BY <1>1, <1>2
    <3> QED BY <3>1, ConcatProperties, Zenon
  <2>2. Len(left) + Len(right) = b /\ Len(left) = a  BY <1>1, <1>2
  <2> QED BY <2>1, <2>2, Zenon
<1>5. ASSUME NEW i \in 1 .. b PROVE (left \o right)[i] = all[i]
  <2>1. CASE i <= a  BY <1>1, <1>3, <1>4, <2>1
  <2>2. CASE ~(i <= a)
    <3>1. i - a \in 1 .. b - a /\ a + (i - a) = i  BY <2>2
    <3> QED BY <1>2, <1>3, <1>4, <2>2, <3>1
  <2> QED BY <2>1, <2>2
<1>6. left \o right = all
  <2> DEFINE lr == left \o right
  <2>1. lr \in Seq(S) /\ Len(lr) = b /\ \A i \in 1 .. Len(lr) : lr[i] = all[i]  BY <1>4, <1>5
  <2> HIDE DEF lr
  <2>2. lr = all  BY <1>3, <2>1, SeqEqual
  <2> QED BY <2>2 DEF lr
<1> QED BY <1>6 DEF left, right, all

(* How bytes_to_blocks cuts: the number of blocks, their ends, and that    *)
(* all but the last are full.                                              *)
LEMMA CutEnds ==
  ASSUME NEW data \in Block
  PROVE  LET n == Len(BytesToBlocks(data))
             last(i) == Min({i * BlockSize, Len(data)})
         IN  /\ n \in Nat /\ n * BlockSize < Len(data) + BlockSize
             /\ n = 0 => Len(data) = 0
             /\ last(n) = Len(data)
             /\ \A i \in 1 .. n :
                  /\ BytesToBlocks(data)[i] = SubSeq(data, (i - 1) * BlockSize + 1, last(i))
                  /\ (i - 1) * BlockSize \in Nat /\ last(i) \in Nat
                  /\ (i - 1) * BlockSize < last(i) /\ last(i) <= Len(data)
                  /\ last(i) <= (i - 1) * BlockSize + BlockSize
                  /\ i < n => last(i) = i * BlockSize
<1> DEFINE L == Len(data)
           count == (L + BlockSize - 1) \div BlockSize
           last(i) == Min({i * BlockSize, L})
<1>1. L \in Nat /\ BlockSize \in Nat \ {0}  BY BlockSizeAssumption DEF Block
<1>2. L + BlockSize - 1 \in Nat  BY <1>1
<1>3. /\ count \in Nat /\ count * BlockSize <= L + BlockSize - 1
      /\ L + BlockSize - 1 < count * BlockSize + BlockSize
  BY <1>1, <1>2, DivBounds
<1>4. BytesToBlocks(data) =
        [i \in 1 .. count |-> SubSeq(data, (i - 1) * BlockSize + 1, last(i))]
  BY DEF BytesToBlocks
<1> HIDE DEF L, count, last
<1>5. Len(BytesToBlocks(data)) = count  BY <1>3, <1>4
<1>6. \A i \in 0 .. count : last(i) = IF i * BlockSize <= L THEN i * BlockSize ELSE L
  <2> TAKE i \in 0 .. count
  <2>1. i * BlockSize \in Int  BY <1>1, <1>3
  <2> QED BY <1>1, <2>1, MinOfTwo DEF last
<1>7. L <= count * BlockSize /\ count * BlockSize \in Nat /\ count * BlockSize < L + BlockSize
  BY <1>1, <1>3
<1>8. last(count) = L
  <2>1. count \in 0 .. count  BY <1>3
  <2> QED BY <1>1, <1>6, <1>7, <2>1
<1>9. count = 0 => L = 0  BY <1>1, <1>7
<1>10. ASSUME NEW i \in 1 .. count
       PROVE  /\ BytesToBlocks(data)[i] = SubSeq(data, (i - 1) * BlockSize + 1, last(i))
              /\ (i - 1) * BlockSize \in Nat /\ last(i) \in Nat
              /\ (i - 1) * BlockSize < last(i) /\ last(i) <= L
              /\ last(i) <= (i - 1) * BlockSize + BlockSize
              /\ i < count => last(i) = i * BlockSize
  <2>1. i \in Nat /\ i - 1 \in Nat /\ i <= count /\ i \in 0 .. count  BY <1>3
  <2> DEFINE low == (i - 1) * BlockSize
             high == i * BlockSize
  <2>2. low \in Nat /\ high = low + BlockSize  BY <1>1, <2>1
  <2>3. high <= count * BlockSize  BY <1>1, <1>3, <2>1, MulMonotone
  <2>4. low < L  BY <1>1, <1>7, <2>2, <2>3
  <2>5. i < count => high <= (count - 1) * BlockSize
    <3>1. ASSUME i < count PROVE i <= count - 1 /\ count - 1 \in Nat  BY <1>3, <2>1, <3>1
    <3> QED BY <1>1, <2>1, <3>1, MulMonotone
  <2>6. (count - 1) * BlockSize = count * BlockSize - BlockSize  BY <1>1, <1>3
  <2>7. last(i) = IF high <= L THEN high ELSE L  BY <1>6, <2>1
  <2>8. BytesToBlocks(data)[i] = SubSeq(data, (i - 1) * BlockSize + 1, last(i))  BY <1>4
  <2>9. i < count => last(i) = high  BY <1>1, <1>7, <2>2, <2>5, <2>6, <2>7
  <2> HIDE DEF low, high
  <2>10. /\ last(i) \in Nat /\ low < last(i) /\ last(i) <= L /\ last(i) <= low + BlockSize
    BY <1>1, <2>2, <2>4, <2>7
  <2> QED BY <2>2, <2>8, <2>9, <2>10 DEF low, high
<1> QED BY <1>3, <1>5, <1>7, <1>8, <1>9, <1>10 DEF L, last

(* Cutting bytes into blocks loses none of them.                           *)
LEMMA CutIsExact ==
  ASSUME NEW data \in Block
  PROVE  BlocksToBytes(BytesToBlocks(data)) = data
<1> DEFINE s == BytesToBlocks(data)
           n == Len(s)
           L == Len(data)
           low(i) == (i - 1) * BlockSize
           last(i) == Min({i * BlockSize, L})
<1>1. /\ n \in Nat /\ (n = 0 => L = 0) /\ last(n) = L
      /\ \A i \in 1 .. n :
           /\ s[i] = SubSeq(data, low(i) + 1, last(i))
           /\ low(i) \in Nat /\ last(i) \in Nat /\ low(i) < last(i) /\ last(i) <= L
           /\ i < n => last(i) = low(i + 1)
  <2>1. \A i \in 1 .. n : low(i + 1) = i * BlockSize  BY CutEnds
  <2> QED BY <2>1, CutEnds
<1>2. s \in Seq(Seq(Byte)) /\ data \in Seq(Byte) /\ L \in Nat
  BY BytesToBlocksType DEF Image, Block
<1>3. low(1) = 0  BY BlockSizeAssumption
<1> HIDE DEF s, low, last
<1>4. CASE n = 0
  <2>1. s = << >> /\ data = << >>  BY <1>1, <1>2, <1>4
  <2>2. FlattenSeq(s) = s  BY <1>4 DEF FlattenSeq
  <2> QED BY <2>1, <2>2 DEF BlocksToBytes, s
<1>5. CASE n # 0
  <2>1. s # << >> /\ n \in 1 .. n  BY <1>1, <1>2, <1>5
  <2>2. PICK f : Joined(Byte, s, n, f) /\ FlattenSeq(s) = f[n]
    BY <1>2, <2>1, FlattenSeqJoined
  <2> DEFINE Bad == {i \in 1 .. n : f[i] # SubSeq(data, 1, last(i))}
  <2>3. Bad = {}
    <3> SUFFICES ASSUME Bad # {} PROVE FALSE  OBVIOUS
    <3>1. Bad \subseteq Nat
      <4>1. 1 .. n \subseteq Nat  BY SMT
      <4> QED BY <4>1, Zenon
    <3>2. PICK k \in Bad : \A m \in Bad : k <= m
      <4> HIDE DEF Bad
      <4> QED BY <3>1, NatMin
    <3>3. k \in 1 .. n /\ f[k] # SubSeq(data, 1, last(k))  BY Zenon
    <3>4. f[k] = IF k = 1 THEN s[k] ELSE f[k-1] \o s[k]  BY <2>2, <3>3 DEF Joined
    <3>5. CASE k = 1
      <4>1. s[1] = SubSeq(data, low(1) + 1, last(1))  BY <1>1, <3>3, <3>5
      <4>2. low(1) + 1 = 1  BY <1>3
      <4>3. s[1] = SubSeq(data, 1, last(1))  BY <4>1, <4>2, Zenon
      <4> QED BY <3>3, <3>4, <3>5, <4>3
    <3>6. CASE k # 1
      <4>1. k - 1 \in 1 .. n /\ k - 1 < n /\ ~(k <= k - 1) /\ (k - 1) + 1 = k  BY <1>1, <3>3, <3>6, SMTT(30)
      <4>2. f[k-1] = SubSeq(data, 1, last(k - 1))  BY <3>2, <4>1, Zenon
      <4>3. last(k - 1) = low(k)  BY <1>1, <4>1
      <4>4. /\ s[k] = SubSeq(data, low(k) + 1, last(k))
            /\ low(k) \in Nat /\ last(k) \in Nat /\ low(k) <= last(k) /\ last(k) <= L
        BY <1>1, <3>3, SMTT(30)
      <4>5. SubSeq(data, 1, low(k)) \o SubSeq(data, low(k) + 1, last(k)) = SubSeq(data, 1, last(k))
        BY <1>2, <4>4, SubSeqJoin
      <4> QED BY <3>3, <3>4, <3>6, <4>2, <4>3, <4>4, <4>5
    <3> QED BY <3>5, <3>6
  <2>4. f[n] = SubSeq(data, 1, L)  BY <1>1, <2>1, <2>3
  <2>5. SubSeq(data, 1, L) = data
    <3>1. \A i \in 1 .. L : data[i] \in Byte  BY <1>2
    <3> DEFINE d == SubSeq(data, 1, L)
    <3>2. d \in Seq(Byte) /\ Len(d) = L /\ \A i \in 1 .. L : d[i] = data[i]
      BY <1>2, <3>1, SubSeqProperties
    <3> HIDE DEF d
    <3>3. d = data  BY <1>2, <3>2, SeqEqual
    <3> QED BY <3>3 DEF d
  <2> QED BY <2>2, <2>4, <2>5 DEF BlocksToBytes, s
<1> QED BY <1>4, <1>5

(* ... and leaves full blocks, the last one possibly short, none empty.    *)
LEMMA CutIsNormal ==
  ASSUME NEW data \in Block
  PROVE  LET cut == BytesToBlocks(data) IN
         \A i \in DOMAIN cut :
           /\ i < Len(cut) => Len(cut[i]) = BlockSize
           /\ i = Len(cut) => Len(cut[i]) \in 1 .. BlockSize
<1> DEFINE s == BytesToBlocks(data)
           n == Len(s)
           low(i) == (i - 1) * BlockSize
           last(i) == Min({i * BlockSize, Len(data)})
<1>1. n \in Nat /\ DOMAIN s = 1 .. n  BY BytesToBlocksType DEF Image
<1>2. ASSUME NEW i \in 1 .. n
      PROVE  /\ s[i] = SubSeq(data, low(i) + 1, last(i))
             /\ low(i) \in Nat /\ last(i) \in Nat /\ low(i) < last(i)
             /\ last(i) <= Len(data) /\ last(i) <= low(i) + BlockSize
             /\ i < n => last(i) = low(i) + BlockSize
  <2>1. i * BlockSize = low(i) + BlockSize  BY <1>1, BlockSizeAssumption
  <2> QED BY <2>1, CutEnds
<1>3. Len(data) \in Nat /\ \A j \in 1 .. Len(data) : data[j] \in Byte  BY DEF Block
<1> HIDE DEF low, last, s
<1>4. ASSUME NEW i \in 1 .. n  PROVE Len(s[i]) = last(i) - low(i)
  <2>1. \A j \in low(i) + 1 .. last(i) : data[j] \in Byte  BY <1>2, <1>3
  <2>2. low(i) + 1 \in Int /\ last(i) \in Int /\ low(i) + 1 <= last(i)  BY <1>2
  <2>3. Len(SubSeq(data, low(i) + 1, last(i))) = last(i) - (low(i) + 1) + 1
    BY <2>1, <2>2, SubSeqProperties
  <2> QED BY <1>2, <2>3
<1>5. ASSUME NEW i \in 1 .. n
      PROVE  /\ i < n => Len(s[i]) = BlockSize
             /\ i = n => Len(s[i]) \in 1 .. BlockSize
  BY <1>2, <1>4, BlockSizeAssumption
<1> QED BY <1>1, <1>5 DEF s

(* An image of blocks that are not too long has no more bytes than its     *)
(* full blocks would have, so cutting it makes no new blocks.              *)
Fits(blocks) == \A i \in DOMAIN blocks : Len(blocks[i]) <= BlockSize

LEMMA BytesFit ==
  ASSUME NEW blocks \in Image, Fits(blocks)
  PROVE  ImageBytes(blocks) <= Len(blocks) * BlockSize
<1>1. blocks \in Seq(Seq(Byte)) /\ Len(blocks) \in Nat  BY DEF Image, Block
<1>2. BlockSize \in Nat  BY BlockSizeAssumption
<1>3. CASE Len(blocks) = 0
  <2>1. FlattenSeq(blocks) = blocks  BY <1>3 DEF FlattenSeq
  <2> QED BY <1>2, <1>3, <2>1 DEF ImageBytes, BlocksToBytes
<1>4. CASE Len(blocks) # 0
  <2> DEFINE n == Len(blocks)
  <2>1. blocks # << >> /\ n \in 1 .. n  BY <1>1, <1>4
  <2>2. PICK f : Joined(Byte, blocks, n, f) /\ FlattenSeq(blocks) = f[n]
    BY <1>1, <2>1, FlattenSeqJoined
  <2> DEFINE Bad == {i \in 1 .. n : ~(Len(f[i]) <= i * BlockSize)}
  <2>3. Bad = {}
    <3> SUFFICES ASSUME Bad # {} PROVE FALSE  OBVIOUS
    <3>1. Bad \subseteq Nat
      <4>1. 1 .. n \subseteq Nat  BY SMT
      <4> QED BY <4>1, Zenon
    <3>2. PICK k \in Bad : \A m \in Bad : k <= m
      <4> HIDE DEF Bad
      <4> QED BY <3>1, NatMin
    <3>3. k \in 1 .. n /\ ~(Len(f[k]) <= k * BlockSize)  BY Zenon
    <3>4. f[k] = IF k = 1 THEN blocks[k] ELSE f[k-1] \o blocks[k]  BY <2>2, <3>3 DEF Joined
    <3>5. Len(blocks[k]) <= BlockSize /\ blocks[k] \in Seq(Byte)
      BY <1>1, <3>3 DEF Fits
    <3>6. CASE k = 1
      <4>1. f[k] = blocks[k] /\ k * BlockSize = BlockSize  BY <1>2, <3>4, <3>6
      <4> QED BY <3>3, <3>5, <4>1
    <3>7. CASE k # 1
      <4>1. k - 1 \in 1 .. n /\ ~(k <= k - 1)  BY <1>1, <3>3, <3>7
      <4>2. Len(f[k-1]) <= (k - 1) * BlockSize  BY <3>2, <4>1, Zenon
      <4>3. f[k-1] \in Seq(Byte)  BY <2>2, <4>1 DEF Joined
      <4>4. Len(f[k]) = Len(f[k-1]) + Len(blocks[k])
        BY <3>4, <3>5, <3>7, <4>3, ConcatProperties
      <4> DEFINE p == (k - 1) * BlockSize
                 q == k * BlockSize
                 a == Len(f[k-1])
                 b == Len(blocks[k])
                 c == Len(f[k])
      <4>5. p + BlockSize = q /\ p \in Int /\ q \in Int  BY <1>1, <1>2, <3>3
      <4>6. a \in Nat /\ b \in Nat /\ c = a + b /\ b <= BlockSize  BY <3>5, <4>3, <4>4
      <4>7. a <= p /\ ~(c <= q)  BY <3>3, <4>2
      <4> HIDE DEF p, q, a, b, c
      <4> QED BY <1>2, <4>5, <4>6, <4>7
    <3> QED BY <3>6, <3>7
  <2>4. Len(f[n]) <= n * BlockSize  BY <2>1, <2>3, Zenon
  <2> QED BY <2>2, <2>4 DEF ImageBytes, BlocksToBytes
<1> QED BY <1>3, <1>4

LEMMA TruncateFits ==
  ASSUME NEW blocks \in Image, Fits(blocks), NEW size \in Nat
  PROVE  LET cut == TruncateBytes(blocks, size)
         IN  cut \in Image /\ Fits(cut) /\ Len(cut) <= Len(blocks)
<1> DEFINE bytes == BlocksToBytes(blocks)
           data == Take(bytes, size)
           n == Len(BytesToBlocks(data))
<1>1. bytes \in Block  BY BytesType
<1>2. data \in Block  BY <1>1, TakeType DEF Block
<1>3. Len(data) <= Len(bytes)
  <2>1. Len(bytes) \in Nat  BY <1>1 DEF Block
  <2> DEFINE m == Min({size, Len(bytes)})
  <2>2. m \in Nat /\ m <= Len(bytes)  BY <2>1, MinOfTwo
  <2> HIDE DEF m
  <2>3. \A i \in 1 .. m : bytes[i] \in Byte  BY <1>1, <2>1, <2>2 DEF Block
  <2>4. Len(SubSeq(bytes, 1, m)) <= Len(bytes)  BY <2>1, <2>2, <2>3, SubSeqProperties
  <2> QED BY <2>4 DEF Take, m
<1>4. Len(bytes) <= Len(blocks) * BlockSize  BY BytesFit DEF ImageBytes
<1> HIDE DEF bytes, data
<1>5. n \in Nat /\ n * BlockSize < Len(data) + BlockSize  BY <1>2, CutEnds
<1>6. Len(blocks) \in Nat /\ Len(data) \in Nat /\ Len(bytes) \in Nat
  BY <1>1, <1>2 DEF Image, Block
<1> HIDE DEF n
<1>7. n <= Len(blocks)
  <2> SUFFICES ASSUME Len(blocks) + 1 <= n PROVE FALSE  BY <1>5, <1>6
  <2>1. (Len(blocks) + 1) * BlockSize <= n * BlockSize
    BY <1>5, <1>6, MulMonotone, BlockSizeAssumption
  <2>2. (Len(blocks) + 1) * BlockSize = Len(blocks) * BlockSize + BlockSize
    BY <1>6, BlockSizeAssumption
  <2>3. Len(blocks) * BlockSize \in Nat /\ n * BlockSize \in Nat
    BY <1>5, <1>6, BlockSizeAssumption
  <2> QED BY <1>3, <1>4, <1>5, <1>6, <2>1, <2>2, <2>3, BlockSizeAssumption
<1>8. TruncateBytes(blocks, size) = BytesToBlocks(data)  BY DEF TruncateBytes, data, bytes
<1>9. BytesToBlocks(data) \in Image  BY <1>2, BytesToBlocksType
<1>10. Fits(BytesToBlocks(data))
  <2> DEFINE cut == BytesToBlocks(data)
  <2>1. \A i \in DOMAIN cut : /\ i < Len(cut) => Len(cut[i]) = BlockSize
                              /\ i = Len(cut) => Len(cut[i]) \in 1 .. BlockSize
    BY <1>2, CutIsNormal
  <2>2. Len(cut) \in Nat /\ DOMAIN cut = 1 .. Len(cut)  BY <1>9 DEF Image
  <2> HIDE DEF cut
  <2>3. \A i \in DOMAIN cut : Len(cut[i]) <= BlockSize  BY <2>1, <2>2, BlockSizeAssumption
  <2> QED BY <2>3 DEF Fits, cut
<1> QED BY <1>7, <1>8, <1>9, <1>10 DEF n
-----------------------------------------------------------------------------
(* The elements of an image after a write: the block written, the others   *)
(* as they were.                                                           *)
LEMMA WriteBlockElements ==
  ASSUME NEW blocks \in Image, NEW target \in Nat, NEW block
  PROVE  LET w == WriteBlock(blocks, target, block) IN
         /\ target + 1 \in DOMAIN w /\ w[target + 1] = block
         /\ \A i \in DOMAIN blocks : i \in DOMAIN w /\ (i # target + 1 => w[i] = blocks[i])
<1>1. Len(blocks) \in Nat /\ DOMAIN blocks = 1 .. Len(blocks)  BY DEF Image
<1> DEFINE n == Max({Len(blocks), target + 1})
<1>2. n \in Nat /\ n >= Len(blocks) /\ n >= target + 1  BY <1>1, MaxOfTwo
<1> HIDE DEF n
<1>3. WriteBlock(blocks, target, block) =
        [i \in 1 .. n |-> IF i = target + 1 THEN block
                          ELSE IF i <= Len(blocks) THEN blocks[i] ELSE << >>]
  BY DEF WriteBlock, n
<1> DEFINE w == WriteBlock(blocks, target, block)
<1>4. DOMAIN w = 1 .. n  BY <1>3
<1>5. target + 1 \in 1 .. n  BY <1>2
<1>6. w[target + 1] = block  BY <1>3, <1>5
<1>7. \A i \in 1 .. Len(blocks) : i \in 1 .. n /\ (i # target + 1 => w[i] = blocks[i])
  BY <1>1, <1>2, <1>3
<1> QED BY <1>1, <1>4, <1>5, <1>6, <1>7

(* What an image is made of after a write, a part of it, and what a delete *)
(* leaves of it, fits when it did.                                         *)
SavedFit(area) == \A id \in DOMAIN area : Len(area[id].block) <= BlockSize

LEMMA WriteFits ==
  ASSUME NEW blocks \in Image, Fits(blocks), NEW target \in Nat, NEW block \in Block,
         Len(block) <= BlockSize
  PROVE  Fits(WriteBlock(blocks, target, block))
<1>1. Len(blocks) \in Nat /\ DOMAIN blocks = 1 .. Len(blocks)  BY DEF Image
<1> DEFINE n == Max({Len(blocks), target + 1})
<1>2. n \in Nat  BY <1>1, MaxOfTwo
<1> HIDE DEF n
<1> DEFINE w == WriteBlock(blocks, target, block)
<1>3. w = [i \in 1 .. n |-> IF i = target + 1 THEN block
                            ELSE IF i <= Len(blocks) THEN blocks[i] ELSE << >>]
  BY DEF WriteBlock, n
<1> HIDE DEF w
<1>4. ASSUME NEW i \in 1 .. n  PROVE Len(w[i]) <= BlockSize
  <2>1. CASE i = target + 1
    <3>1. w[i] = block  BY <1>3, <2>1
    <3> QED BY <3>1
  <2>2. CASE i # target + 1 /\ i <= Len(blocks)
    <3>1. w[i] = blocks[i] /\ i \in DOMAIN blocks  BY <1>1, <1>2, <1>3, <2>2
    <3> QED BY <3>1 DEF Fits
  <2>3. CASE i # target + 1 /\ ~(i <= Len(blocks))
    <3>1. w[i] = << >>  BY <1>3, <2>3
    <3> QED BY <3>1, BlockSizeAssumption
  <2> QED BY <2>1, <2>2, <2>3
<1> QED BY <1>3, <1>4 DEF Fits, w

(* What is left of an image after some of its blocks are dropped.          *)
LEMMA PartFits ==
  ASSUME NEW blocks \in Image, Fits(blocks), NEW low \in Nat \ {0}, NEW high \in Nat,
         high <= Len(blocks)
  PROVE  LET part == SubSeq(blocks, low, high)
         IN  /\ part \in Image /\ Fits(part)
             /\ Len(part) = IF low <= high THEN high - low + 1 ELSE 0
<1>1. Len(blocks) \in Nat /\ DOMAIN blocks = 1 .. Len(blocks)  BY DEF Image
<1>2. \A i \in low .. high : blocks[i] \in Block  BY <1>1 DEF Image
<1> DEFINE part == SubSeq(blocks, low, high)
<1>3. /\ part \in Seq(Block) /\ Len(part) = IF low <= high THEN high - low + 1 ELSE 0
      /\ \A i \in 1 .. high - low + 1 : part[i] = blocks[low + i - 1]
  BY <1>2, SubSeqProperties
<1> HIDE DEF part
<1>4. ASSUME NEW i \in DOMAIN part  PROVE Len(part[i]) <= BlockSize
  <2>1. i \in 1 .. high - low + 1 /\ low + i - 1 \in DOMAIN blocks  BY <1>1, <1>3
  <2> QED BY <1>3, <2>1 DEF Fits
<1> QED BY <1>3, <1>4 DEF Fits, Image, part

LEMMA DeleteFits ==
  ASSUME NEW blocks \in Image, Fits(blocks), NEW target \in Nat, NEW count \in Nat,
         target + count <= Len(blocks)
  PROVE  LET rest == DeleteBlocks(blocks, target, count)
         IN  Fits(rest) /\ Len(rest) <= Len(blocks)
<1>1. Len(blocks) \in Nat  BY DEF Image
<1> DEFINE left == SubSeq(blocks, 1, target)
           right == SubSeq(blocks, target + count + 1, Len(blocks))
<1>2. left \in Seq(Block) /\ Fits(left) /\ Len(left) = target
  BY <1>1, PartFits DEF Image
<1>3. right \in Seq(Block) /\ Fits(right) /\ Len(right) = Len(blocks) - target - count
  <2>1. target + count + 1 \in Nat \ {0}  OBVIOUS
  <2>2. /\ right \in Seq(Block) /\ Fits(right)
        /\ Len(right) = IF target + count + 1 <= Len(blocks)
                           THEN Len(blocks) - (target + count + 1) + 1 ELSE 0
    BY <1>1, <2>1, PartFits DEF Image
  <2> HIDE DEF right
  <2> QED BY <1>1, <2>2
<1> HIDE DEF left, right
<1>0. /\ left \o right \in Seq(Block)
      /\ Len(left \o right) = Len(left) + Len(right)
      /\ \A i \in 1 .. Len(left) + Len(right) :
            (left \o right)[i] = IF i <= Len(left) THEN left[i] ELSE right[i - Len(left)]
  <2>1. left \in Seq(Block) /\ right \in Seq(Block)  BY <1>2, <1>3
  <2> QED BY <2>1, ConcatProperties, Zenon
<1> DEFINE rest == left \o right
<1>4. /\ rest \in Seq(Block) /\ Len(rest) = Len(left) + Len(right)
      /\ \A i \in 1 .. Len(left) + Len(right) :
            rest[i] = IF i <= Len(left) THEN left[i] ELSE right[i - Len(left)]
  BY <1>0, Zenon
<1> HIDE DEF rest
<1>5. ASSUME NEW i \in DOMAIN rest  PROVE Len(rest[i]) <= BlockSize
  <2>1. i \in 1 .. Len(left) + Len(right)  BY <1>4
  <2>2. CASE i <= Len(left)
    <3>1. i \in DOMAIN left /\ rest[i] = left[i]  BY <1>2, <1>4, <2>1, <2>2
    <3> QED BY <1>2, <3>1 DEF Fits
  <2>3. CASE ~(i <= Len(left))
    <3>1. Len(left) \in Nat /\ Len(right) \in Nat /\ DOMAIN right = 1 .. Len(right)
      BY <1>2, <1>3
    <3>2. rest[i] = right[i - Len(left)]  BY <1>4, <2>1, <2>3, Zenon
    <3>3. i - Len(left) \in DOMAIN right  BY <2>1, <2>3, <3>1
    <3> QED BY <1>3, <3>2, <3>3 DEF Fits
  <2> QED BY <2>2, <2>3
<1>6. Len(rest) <= Len(blocks)  BY <1>1, <1>2, <1>3, <1>4
<1> QED BY <1>5, <1>6 DEF Fits, DeleteBlocks, rest, left, right
-----------------------------------------------------------------------------
(* The end of a concatenation, found again in what starts with it.         *)
LEMMA PartOfConcat ==
  ASSUME NEW B, NEW a \in Seq(B), NEW b \in Seq(B), NEW w \in Seq(B), IsStart(a \o b, w)
  PROVE  /\ Len(a) + Len(b) <= Len(w)
         /\ b = SubSeq(w, Len(a) + 1, Len(a) + Len(b))
<1> DEFINE d == a \o b
           la == Len(a)
           lb == Len(b)
<1>1. /\ d \in Seq(B) /\ Len(d) = la + lb
      /\ \A l \in 1 .. la + lb : d[l] = IF l <= la THEN a[l] ELSE b[l - la]
  BY ConcatProperties
<1>2. IsStart(d, w)  OBVIOUS
<1>3. la \in Nat /\ lb \in Nat /\ Len(w) \in Nat /\ DOMAIN w = 1 .. Len(w)
      /\ \A l \in 1 .. Len(w) : w[l] \in B  OBVIOUS
<1>4. b \in Seq(B) /\ Len(b) = lb  OBVIOUS
<1> HIDE DEF d, la, lb
<1>5. la + lb <= Len(w) /\ d = SubSeq(w, 1, la + lb)  BY <1>1, <1>2 DEF IsStart
<1> DEFINE p == SubSeq(w, la + 1, la + lb)
<1>6. \A l \in la + 1 .. la + lb : w[l] \in B  BY <1>3, <1>5
<1>7. p \in Seq(B) /\ Len(p) = lb /\ \A l \in 1 .. lb : p[l] = w[la + l]
  BY <1>3, <1>5, <1>6
<1> HIDE DEF p
<1>8. ASSUME NEW l \in 1 .. lb  PROVE p[l] = b[l]
  <2>1. la + l \in 1 .. la + lb /\ ~(la + l <= la) /\ (la + l) - la = l  BY <1>3
  <2>2. d[la + l] = b[l]  BY <1>1, <2>1
  <2>3. d[la + l] = w[la + l]  BY <1>3, <1>5, <2>1
  <2> QED BY <1>7, <2>2, <2>3
<1>9. p = b  BY <1>4, <1>7, <1>8, SeqEqual
<1> QED BY <1>5, <1>9 DEF p, la, lb

(* The blocks in front of the k-th are full.                               *)
FullUntil(blocks, k) == \A i \in 1 .. k - 1 : Len(blocks[i]) = BlockSize

(* Behind full blocks a block is found in the bytes by its index.          *)
LEMMA BlockInBytes ==
  ASSUME NEW blocks \in Image, NEW k \in 1 .. Len(blocks), FullUntil(blocks, k)
  PROVE  LET low  == (k - 1) * BlockSize
             high == low + Len(blocks[k])
         IN  /\ low \in Nat /\ high <= ImageBytes(blocks)
             /\ blocks[k] = SubSeq(BlocksToBytes(blocks), low + 1, high)
             /\ k = Len(blocks) => ImageBytes(blocks) = high
<1>1. blocks \in Seq(Seq(Byte)) /\ Len(blocks) \in Nat /\ k \in Nat  BY DEF Image, Block
<1>2. BlockSize \in Nat  BY BlockSizeAssumption
<1> DEFINE n == Len(blocks)
<1>3. blocks # << >> /\ n \in Nat /\ n \in 1 .. n /\ k \in 1 .. n  BY <1>1
<1>4. PICK f : Joined(Byte, blocks, n, f) /\ FlattenSeq(blocks) = f[n]
  BY <1>1, <1>3, FlattenSeqJoined
<1> DEFINE low == (k - 1) * BlockSize
<1>5. low \in Nat  BY <1>1, <1>2
<1>6. \A i \in 1 .. n : f[i] \in Seq(Byte) /\ blocks[i] \in Seq(Byte)
  <2>1. \A i \in 1 .. n : f[i] \in Seq(Byte)  BY <1>4 DEF Joined
  <2>2. \A i \in 1 .. n : blocks[i] \in Seq(Byte)  BY <1>1
  <2> QED BY <2>1, <2>2
<1>7. \A i \in 1 .. n : f[i] = IF i = 1 THEN blocks[i] ELSE f[i-1] \o blocks[i]
  BY <1>4 DEF Joined
<1> HIDE DEF n, low
<1> DEFINE Bad == {i \in 1 .. k : Len(f[i]) # (i - 1) * BlockSize + Len(blocks[i])}
<1>8. Bad = {}
  <2> SUFFICES ASSUME Bad # {} PROVE FALSE  OBVIOUS
  <2>1. Bad \subseteq Nat
    <3>1. 1 .. k \subseteq Nat  BY SMT
    <3> QED BY <3>1, Zenon
  <2>2. PICK i \in Bad : \A m \in Bad : i <= m
    <3> HIDE DEF Bad
    <3> QED BY <2>1, NatMin
  <2>3. i \in 1 .. k /\ Len(f[i]) # (i - 1) * BlockSize + Len(blocks[i])  BY Zenon
  <2>4. i \in 1 .. n /\ i \in Nat  BY <1>3, <2>3
  <2>5. Len(blocks[i]) \in Nat  BY <1>6, <2>4
  <2>6. i # 1
    <3> SUFFICES ASSUME i = 1 PROVE FALSE  OBVIOUS
    <3>1. f[i] = blocks[i]  BY <1>7, <2>4
    <3>2. (i - 1) * BlockSize = 0  BY <1>2
    <3> QED BY <2>3, <2>5, <3>1, <3>2
  <2>7. i - 1 \in 1 .. k - 1 /\ i - 1 \in 1 .. k /\ i - 1 \in 1 .. n /\ ~(i <= i - 1)
    BY <1>1, <1>3, <2>3, <2>4, <2>6
  <2>8. Len(f[i-1]) = ((i - 1) - 1) * BlockSize + Len(blocks[i-1])  BY <2>2, <2>7, Zenon
  <2>9. Len(blocks[i-1]) = BlockSize  BY <2>7 DEF FullUntil
  <2>10. Len(f[i]) = Len(f[i-1]) + Len(blocks[i])
    <3>1. f[i] = f[i-1] \o blocks[i]  BY <1>7, <2>4, <2>6
    <3>2. f[i-1] \in Seq(Byte) /\ blocks[i] \in Seq(Byte)  BY <1>6, <2>4, <2>7
    <3> QED BY <3>1, <3>2, ConcatProperties
  <2>11. ((i - 1) - 1) * BlockSize + BlockSize = (i - 1) * BlockSize  BY <1>2, <2>4
  <2>12. ((i - 1) - 1) * BlockSize \in Int  BY <1>2, <2>4
  <2> QED BY <1>2, <2>3, <2>5, <2>8, <2>9, <2>10, <2>11, <2>12
<1>9. Len(f[k]) = low + Len(blocks[k])
  <2>1. k \in 1 .. k  BY <1>3
  <2> QED BY <1>8, <2>1 DEF low
<1>10. f[k] \in Seq(Byte) /\ blocks[k] \in Seq(Byte) /\ f[n] \in Seq(Byte)  BY <1>3, <1>6
<1>11. IsStart(f[k], f[n])
  <2>1. n \in 1 .. Len(blocks)  BY <1>3 DEF n
  <2> QED BY <1>1, <1>3, <1>4, <2>1, JoinedPrefix
<1> DEFINE w == f[n]
           b == blocks[k]
<1>12. /\ low + Len(b) <= Len(w) /\ b = SubSeq(w, low + 1, low + Len(b))
  <2>1. CASE k = 1
    <3>1. f[k] = b /\ low = 0  BY <1>2, <1>3, <1>7, <2>1 DEF low
    <3>2. Len(b) <= Len(w) /\ b = SubSeq(w, 1, Len(b))  BY <1>11, <3>1 DEF IsStart
    <3>3. Len(b) \in Nat  BY <1>10
    <3> QED BY <3>1, <3>2, <3>3
  <2>2. CASE k # 1
    <3>1. k - 1 \in 1 .. n  BY <1>3, <2>2
    <3> DEFINE a == f[k-1]
    <3>2. a \in Seq(Byte) /\ f[k] = a \o b  BY <1>3, <1>6, <1>7, <2>2, <3>1
    <3>3. Len(f[k]) = Len(a) + Len(b)  BY <1>10, <3>2, ConcatProperties
    <3>4. Len(a) \in Nat /\ Len(b) \in Nat  BY <1>10, <3>2
    <3>5. IsStart(a \o b, w)  BY <1>11, <3>2
    <3>6. b \in Seq(Byte) /\ w \in Seq(Byte)  BY <1>10
    <3> HIDE DEF a, b, w
    <3>7. Len(a) = low
      <4>1. Len(f[k]) = low + Len(b)  BY <1>9 DEF b
      <4> QED BY <1>5, <3>3, <3>4, <4>1
    <3>8. Len(a) + Len(b) <= Len(w) /\ b = SubSeq(w, Len(a) + 1, Len(a) + Len(b))
      BY <3>2, <3>5, <3>6, PartOfConcat
    <3> QED BY <3>7, <3>8
  <2> QED BY <2>1, <2>2
<1>13. k = n => Len(w) = low + Len(b)  BY <1>9
<1>14. BlocksToBytes(blocks) = w /\ ImageBytes(blocks) = Len(w)
  BY <1>4 DEF BlocksToBytes, ImageBytes
<1> HIDE DEF w, b
<1> QED BY <1>5, <1>12, <1>13, <1>14 DEF low, b, n

(* The last block decides how long an image can be.                        *)
LEMMA LastBytes ==
  ASSUME NEW blocks \in Image, Fits(blocks), Len(blocks) # 0
  PROVE  ImageBytes(blocks) <= (Len(blocks) - 1) * BlockSize + Len(blocks[Len(blocks)])
<1>1. blocks \in Seq(Seq(Byte)) /\ Len(blocks) \in Nat  BY DEF Image, Block
<1>2. BlockSize \in Nat  BY BlockSizeAssumption
<1> DEFINE n == Len(blocks)
           front == SubSeq(blocks, 1, n - 1)
<1>3. n \in 1 .. n /\ n - 1 \in Nat /\ blocks # << >>  BY <1>1
<1>4. PICK f : Joined(Byte, blocks, n, f) /\ FlattenSeq(blocks) = f[n]
  BY <1>1, <1>3, FlattenSeqJoined
<1>5. \A i \in 1 .. n : f[i] \in Seq(Byte) /\ blocks[i] \in Seq(Byte)
  <2>1. \A i \in 1 .. n : f[i] \in Seq(Byte)  BY <1>4 DEF Joined
  <2>2. \A i \in 1 .. n : blocks[i] \in Seq(Byte)  BY <1>1
  <2> QED BY <2>1, <2>2
<1>6. f[n] = IF n = 1 THEN blocks[n] ELSE f[n-1] \o blocks[n]  BY <1>3, <1>4 DEF Joined
<1>7. CASE n = 1
  <2>1. f[n] = blocks[n] /\ (n - 1) * BlockSize = 0  BY <1>2, <1>6, <1>7
  <2>2. Len(blocks[n]) \in Nat  BY <1>3, <1>5
  <2> QED BY <1>4, <2>1, <2>2 DEF ImageBytes, BlocksToBytes
<1>8. CASE n # 1
  <2>1. n - 1 \in 1 .. n /\ n - 1 # 0
    <3>1. n \in Nat /\ n # 0 /\ n # 1  BY <1>1, <1>8
    <3> HIDE DEF n
    <3> QED BY <3>1
  <2>2. front \in Image /\ Fits(front) /\ Len(front) = n - 1
    BY <1>3, <2>1, PartFits
  <2>3. \A i \in 1 .. n - 1 : front[i] = blocks[i]  BY <1>1, <1>3
  <2> HIDE DEF front
  <2>4. front \in Seq(Seq(Byte)) /\ front # << >>  BY <2>1, <2>2 DEF Image, Block
  <2>5. PICK g : Joined(Byte, front, Len(front), g) /\ FlattenSeq(front) = g[Len(front)]
    BY <2>4, FlattenSeqJoined
  <2>6. g[n-1] = f[n-1]
    <3> DEFINE m == n - 1
    <3>1. m \in 1 .. Len(front) /\ n \in 1 .. Len(blocks) /\ m <= n /\ m \in 1 .. m
      BY <1>3, <2>1, <2>2
    <3>2. Agree(front, blocks, m)  BY <2>3 DEF Agree
    <3>3. Joined(Byte, front, m, g)  BY <2>2, <2>5
    <3>4. Joined(Byte, blocks, n, f)  BY <1>4
    <3> HIDE DEF m, n
    <3>5. g[m] = f[m]  BY <1>1, <2>4, <3>1, <3>2, <3>3, <3>4, JoinedAgree
    <3> QED BY <3>5 DEF m
  <2>7. Len(f[n-1]) <= (n - 1) * BlockSize
    <3>1. ImageBytes(front) <= Len(front) * BlockSize  BY <2>2, BytesFit
    <3> QED BY <2>2, <2>5, <2>6, <3>1 DEF ImageBytes, BlocksToBytes
  <2> DEFINE a == f[n-1]
             b == blocks[n]
  <2>8. a \in Seq(Byte) /\ b \in Seq(Byte) /\ f[n] = a \o b  BY <1>3, <1>5, <1>6, <1>8, <2>1
  <2>9. Len(f[n]) = Len(a) + Len(b)  BY <2>8, ConcatProperties
  <2>10. ImageBytes(blocks) = Len(f[n])  BY <1>4 DEF ImageBytes, BlocksToBytes
  <2> DEFINE p == (n - 1) * BlockSize
  <2>11. p \in Nat /\ Len(a) \in Nat /\ Len(b) \in Nat  BY <1>2, <1>3, <2>8
  <2>12. Len(a) <= p  BY <2>7
  <2> HIDE DEF a, b, p
  <2>13. ImageBytes(blocks) <= p + Len(b)  BY <2>9, <2>10, <2>11, <2>12
  <2> QED BY <2>13 DEF b, p
<1> QED BY <1>7, <1>8

(* What is in front of a cut is not moved by it.                           *)
LEMMA SubSeqOfStart ==
  ASSUME NEW S, NEW s \in Seq(S), NEW m \in Nat, m <= Len(s),
         NEW a \in Nat \ {0}, NEW b \in Nat, b <= m
  PROVE  SubSeq(SubSeq(s, 1, m), a, b) = SubSeq(s, a, b)
<1>1. Len(s) \in Nat /\ \A i \in 1 .. Len(s) : s[i] \in S  OBVIOUS
<1> DEFINE d == SubSeq(s, 1, m)
<1>2. d \in Seq(S) /\ Len(d) = m /\ \A i \in 1 .. m : d[i] = s[i]
  <2>1. \A i \in 1 .. m : s[i] \in S  BY <1>1
  <2> QED BY <1>1, <2>1
<1> HIDE DEF d
<1>3. \A i \in a .. b : d[i] = s[i] /\ d[i] \in S /\ s[i] \in S  BY <1>1, <1>2
<1> DEFINE p == SubSeq(d, a, b)
           q == SubSeq(s, a, b)
           n == IF a <= b THEN b - a + 1 ELSE 0
<1>4. p \in Seq(S) /\ Len(p) = n /\ \A i \in 1 .. b - a + 1 : p[i] = d[a + i - 1]
  BY <1>3, SubSeqProperties
<1>5. q \in Seq(S) /\ Len(q) = n /\ \A i \in 1 .. b - a + 1 : q[i] = s[a + i - 1]
  BY <1>3, SubSeqProperties
<1> HIDE DEF p, q
<1>6. \A i \in 1 .. n : p[i] = q[i]
  <2> TAKE i \in 1 .. n
  <2>1. i \in 1 .. b - a + 1 /\ a + i - 1 \in a .. b  OBVIOUS
  <2> QED BY <1>3, <1>4, <1>5, <2>1
<1> HIDE DEF n
<1>7. p = q  BY <1>4, <1>5, <1>6, SeqEqual
<1> QED BY <1>7 DEF p, q, d

LEMMA TakeStart ==
  ASSUME NEW S, NEW s \in Seq(S), NEW size \in Nat
  PROVE  Take(s, size) = IF size <= Len(s) THEN SubSeq(s, 1, size) ELSE s
<1>1. Len(s) \in Nat  OBVIOUS
<1>2. Min({size, Len(s)}) = IF size <= Len(s) THEN size ELSE Len(s)  BY <1>1, MinOfTwo
<1>3. SubSeq(s, 1, Len(s)) = s  OBVIOUS
<1> QED BY <1>2, <1>3 DEF Take

(* The blocks after a write, and after a delete.                           *)
LEMMA WrittenBlocks ==
  ASSUME NEW blocks \in Image, NEW target \in Nat, NEW block
  PROVE  LET w == WriteBlock(blocks, target, block) IN
         /\ DOMAIN w = 1 .. Len(w)
         /\ Len(w) = IF target < Len(blocks) THEN Len(blocks) ELSE target + 1
         /\ w[target + 1] = block
         /\ \A i \in 1 .. Len(blocks) : i # target + 1 => w[i] = blocks[i]
<1>1. Len(blocks) \in Nat  BY DEF Image
<1> DEFINE n == Max({Len(blocks), target + 1})
<1>2. n \in Nat /\ n = IF target < Len(blocks) THEN Len(blocks) ELSE target + 1
  <2>1. n >= Len(blocks) /\ n >= target + 1 /\ n \in Nat  BY <1>1, MaxOfTwo
  <2>2. n \in {Len(blocks), target + 1}
    <3> DEFINE T == {Len(blocks), target + 1}
    <3>1. T \subseteq Nat /\ T # {} /\ Len(blocks) + target + 1 \in Nat
          /\ \A y \in T : y <= Len(blocks) + target + 1
      BY <1>1
    <3> HIDE DEF T
    <3>2. Max(T) \in T  BY <3>1, MaxOfBounded
    <3> QED BY <3>2 DEF T
  <2> HIDE DEF n
  <2> QED BY <1>1, <2>1, <2>2
<1>3. WriteBlock(blocks, target, block) =
        [i \in 1 .. n |-> IF i = target + 1 THEN block
                          ELSE IF i <= Len(blocks) THEN blocks[i] ELSE << >>]
  BY DEF WriteBlock
<1> HIDE DEF n
<1> DEFINE w == WriteBlock(blocks, target, block)
<1>4. DOMAIN w = 1 .. n /\ Len(w) = n  BY <1>2, <1>3
<1>5. w[target + 1] = block  BY <1>1, <1>2, <1>3
<1>6. ASSUME NEW i \in 1 .. Len(blocks), i # target + 1  PROVE w[i] = blocks[i]
  <2>1. i \in 1 .. n /\ i <= Len(blocks)  BY <1>1, <1>2
  <2> QED BY <1>3, <1>6, <2>1
<1> QED BY <1>2, <1>4, <1>5, <1>6

LEMMA DeletedBlocks ==
  ASSUME NEW blocks \in Image, NEW target \in Nat, NEW count \in Nat,
         target + count <= Len(blocks)
  PROVE  LET rest == DeleteBlocks(blocks, target, count) IN
         /\ Len(rest) = Len(blocks) - count
         /\ \A i \in 1 .. target : rest[i] = blocks[i]
<1>1. Len(blocks) \in Nat /\ blocks \in Seq(Block)
      /\ \A i \in 1 .. Len(blocks) : blocks[i] \in Block  BY DEF Image
<1> DEFINE left == SubSeq(blocks, 1, target)
           right == SubSeq(blocks, target + count + 1, Len(blocks))
<1>2. left \in Seq(Block) /\ Len(left) = target /\ \A i \in 1 .. target : left[i] = blocks[i]
  <2>1. \A i \in 1 .. target : blocks[i] \in Block  BY <1>1
  <2> QED BY <1>1, <2>1
<1>3. right \in Seq(Block) /\ Len(right) = Len(blocks) - target - count
  <2>1. \A i \in target + count + 1 .. Len(blocks) : blocks[i] \in Block  BY <1>1
  <2>2. right \in Seq(Block)
        /\ Len(right) = IF target + count + 1 <= Len(blocks)
                           THEN Len(blocks) - (target + count + 1) + 1 ELSE 0
    BY <1>1, <2>1, SubSeqProperties
  <2> HIDE DEF right
  <2> QED BY <1>1, <2>2
<1> HIDE DEF left, right
<1>4. /\ Len(left \o right) = Len(left) + Len(right)
      /\ \A i \in 1 .. Len(left) + Len(right) :
            (left \o right)[i] = IF i <= Len(left) THEN left[i] ELSE right[i - Len(left)]
  <2>1. left \in Seq(Block) /\ right \in Seq(Block)  BY <1>2, <1>3
  <2> QED BY <2>1, ConcatProperties, Zenon
<1> DEFINE rest == left \o right
<1>5. Len(rest) = Len(blocks) - count  BY <1>1, <1>2, <1>3, <1>4
<1>6. ASSUME NEW i \in 1 .. target  PROVE rest[i] = blocks[i]
  <2>1. i \in 1 .. Len(left) + Len(right) /\ i <= Len(left)  BY <1>1, <1>2, <1>3
  <2>2. rest[i] = left[i]  BY <1>4, <2>1
  <2> QED BY <1>2, <2>2
<1> QED BY <1>5, <1>6 DEF DeleteBlocks, rest, left, right

(* Images as read_blocks makes them, of full blocks and a last one that is *)
(* not empty.                                                              *)
AsRead(blocks) == blocks = BytesToBlocks(BlocksToBytes(blocks))

LEMMA ReadImage ==
  ASSUME NEW blocks \in Image, AsRead(blocks)
  PROVE  /\ Fits(blocks) /\ FullUntil(blocks, Len(blocks))
         /\ Len(blocks) # 0 => Len(blocks[Len(blocks)]) \in 1 .. BlockSize
<1>1. BlocksToBytes(blocks) \in Block  BY BytesType
<1>2. \A i \in DOMAIN blocks :
        /\ i < Len(blocks) => Len(blocks[i]) = BlockSize
        /\ i = Len(blocks) => Len(blocks[i]) \in 1 .. BlockSize
  BY <1>1, CutIsNormal DEF AsRead
<1>3. Len(blocks) \in Nat /\ DOMAIN blocks = 1 .. Len(blocks)  BY DEF Image
<1>4. BlockSize \in Nat  BY BlockSizeAssumption
<1>5. ASSUME NEW i \in DOMAIN blocks  PROVE Len(blocks[i]) <= BlockSize
  <2>1. i < Len(blocks) \/ i = Len(blocks)  BY <1>3
  <2> QED BY <1>2, <1>4, <2>1
<1>6. FullUntil(blocks, Len(blocks))  BY <1>2, <1>3 DEF FullUntil
<1>7. Len(blocks) # 0 => Len(blocks[Len(blocks)]) \in 1 .. BlockSize  BY <1>2, <1>3
<1> QED BY <1>5, <1>6, <1>7 DEF Fits

(* An image that starts with the blocks of another one starts with its     *)
(* bytes.                                                                  *)
LEMMA BytesInFront ==
  ASSUME NEW wanted \in Image, NEW blocks \in Image, Len(wanted) <= Len(blocks),
         Agree(wanted, blocks, Len(wanted))
  PROVE  /\ ImageBytes(wanted) <= ImageBytes(blocks)
         /\ Take(BlocksToBytes(blocks), ImageBytes(wanted)) = BlocksToBytes(wanted)
<1>1. wanted \in Seq(Seq(Byte)) /\ blocks \in Seq(Seq(Byte))  BY DEF Image, Block
<1> DEFINE w == BlocksToBytes(wanted)
           b == BlocksToBytes(blocks)
<1>2. IsStart(w, b)  BY <1>1, FlattenPrefix DEF BlocksToBytes
<1>3. w \in Seq(Byte) /\ b \in Seq(Byte)  BY BytesType DEF Block
<1> HIDE DEF w, b
<1>4. Len(w) <= Len(b) /\ w = SubSeq(b, 1, Len(w)) /\ Len(w) \in Nat
  BY <1>2, <1>3 DEF IsStart
<1>5. Take(b, Len(w)) = w  BY <1>3, <1>4, TakeStart
<1> QED BY <1>4, <1>5 DEF w, b, ImageBytes

(* A cut to the size of an image as it is read keeps the full blocks in    *)
(* front, and the last one when it is that of the image.                   *)
LEMMA CutKeepsFront ==
  ASSUME NEW wanted \in Image, AsRead(wanted), Len(wanted) # 0,
         NEW blocks \in Image, Len(wanted) <= Len(blocks),
         FullUntil(blocks, Len(wanted)), ImageBytes(wanted) <= ImageBytes(blocks)
  PROVE  LET n == Len(wanted)
             cut == TruncateBytes(blocks, ImageBytes(wanted))
         IN  /\ Len(cut) = n
             /\ \A i \in 1 .. n - 1 : cut[i] = blocks[i]
             /\ blocks[n] = wanted[n] => cut[n] = blocks[n]
<1> DEFINE n == Len(wanted)
           S == ImageBytes(wanted)
           bytes == BlocksToBytes(blocks)
           data == SubSeq(bytes, 1, S)
           cut == BytesToBlocks(data)
           low(i) == (i - 1) * BlockSize
           last(i) == Min({i * BlockSize, Len(data)})
<1>1. n \in Nat /\ n >= 1 /\ Len(blocks) \in Nat  BY DEF Image
<1>2. BlockSize \in Nat /\ BlockSize > 0  BY BlockSizeAssumption
<1>3. /\ FullUntil(wanted, n) /\ Len(wanted[n]) \in 1 .. BlockSize  BY ReadImage
<1>4. /\ low(n) \in Nat /\ S = low(n) + Len(wanted[n])
  <2>1. n \in 1 .. n  BY <1>1
  <2> QED BY <1>3, <2>1, BlockInBytes
<1>5. bytes \in Seq(Byte) /\ S \in Nat /\ S <= Len(bytes) /\ Len(bytes) \in Nat
  BY BytesType DEF Block, ImageBytes
<1>6. data \in Block /\ Len(data) = S
  <2>1. \A i \in 1 .. S : bytes[i] \in Byte  BY <1>5
  <2> HIDE DEF bytes, S
  <2> QED BY <1>5, <2>1 DEF Block
<1>7. TruncateBytes(blocks, S) = cut
  <2> HIDE DEF bytes, S
  <2> QED BY <1>5, TakeStart DEF TruncateBytes, bytes
<1> HIDE DEF data
<1>8. /\ Len(cut) \in Nat /\ Len(cut) * BlockSize < S + BlockSize
      /\ last(Len(cut)) = S
      /\ \A i \in 1 .. Len(cut) :
           /\ cut[i] = SubSeq(data, low(i) + 1, last(i))
           /\ i < Len(cut) => last(i) = i * BlockSize
  BY <1>6, CutEnds
<1> DEFINE c == Len(cut)
<1> HIDE DEF cut, S, bytes, n
<1>9. S <= c * BlockSize /\ c * BlockSize \in Nat
  <2>1. c * BlockSize \in Int /\ c * BlockSize >= 0  BY <1>2, <1>8
  <2>2. last(c) = IF c * BlockSize <= S THEN c * BlockSize ELSE S
    BY <1>5, <1>6, <2>1, MinOfTwo
  <2> QED BY <1>5, <1>8, <2>1, <2>2
<1>10. low(n) + BlockSize = n * BlockSize /\ n * BlockSize \in Nat  BY <1>1, <1>2
<1> HIDE DEF low, last, c
<1>11. c = n
  <2>1. c \in Nat  BY <1>8 DEF c
  <2>2. ASSUME c <= n - 1 PROVE FALSE
    <3>1. c * BlockSize <= (n - 1) * BlockSize  BY <1>1, <1>2, <2>1, <2>2, MulMonotone
    <3>2. c * BlockSize <= low(n)  BY <3>1 DEF low
    <3> QED BY <1>3, <1>4, <1>9, <3>2 DEF n
  <2>3. ASSUME n + 1 <= c PROVE FALSE
    <3>1. (n + 1) * BlockSize <= c * BlockSize  BY <1>1, <1>2, <2>1, <2>3, MulMonotone
    <3>2. (n + 1) * BlockSize = n * BlockSize + BlockSize  BY <1>1, <1>2
    <3>3. c * BlockSize < S + BlockSize  BY <1>8 DEF c
    <3>4. Len(wanted[n]) <= BlockSize /\ Len(wanted[n]) \in Nat  BY <1>3, <1>2
    <3>5. PICK e \in Nat : e = c * BlockSize  BY <1>9
    <3>6. PICK m \in Nat : m = n * BlockSize  BY <1>10
    <3>7. S <= m  BY <1>2, <1>4, <1>10, <3>4, <3>6
    <3>8. m + BlockSize <= e /\ e < S + BlockSize  BY <3>1, <3>2, <3>3, <3>5, <3>6
    <3> QED BY <1>2, <1>5, <3>7, <3>8
  <2> QED BY <1>1, <2>1, <2>2, <2>3
<1>12. ASSUME NEW i \in 1 .. n
       PROVE  LET high == low(i) + Len(blocks[i])
              IN  low(i) \in Nat /\ high <= Len(bytes)
                  /\ blocks[i] = SubSeq(bytes, low(i) + 1, high)
  <2>1. i \in 1 .. Len(blocks)  BY <1>1 DEF n
  <2>2. FullUntil(blocks, i)  BY <1>1 DEF FullUntil, n
  <2> QED BY <2>1, <2>2, BlockInBytes DEF low, bytes, ImageBytes
<1>13. ASSUME NEW i \in 1 .. n - 1  PROVE cut[i] = blocks[i]
  <2>1. i \in 1 .. n /\ i \in 1 .. c /\ i < c  BY <1>1, <1>11
  <2>2. cut[i] = SubSeq(data, low(i) + 1, i * BlockSize)  BY <1>8, <2>1 DEF c
  <2>3. Len(blocks[i]) = BlockSize  BY DEF FullUntil, n
  <2>4. low(i) + BlockSize = i * BlockSize /\ i * BlockSize \in Nat  BY <1>2 DEF low
  <2>5. blocks[i] = SubSeq(bytes, low(i) + 1, i * BlockSize) /\ low(i) \in Nat
    BY <1>12, <2>1, <2>3, <2>4
  <2>6. i * BlockSize <= S
    <3>1. i * BlockSize <= (n - 1) * BlockSize  BY <1>1, <1>2, MulMonotone
    <3>2. i * BlockSize <= low(n)  BY <3>1 DEF low
    <3>3. Len(wanted[n]) \in Nat  BY <1>2, <1>3
    <3> QED BY <1>4, <2>4, <3>2, <3>3
  <2>7. SubSeq(data, low(i) + 1, i * BlockSize) = SubSeq(bytes, low(i) + 1, i * BlockSize)
    <3>1. low(i) + 1 \in Nat \ {0}  BY <2>5
    <3> QED BY <1>5, <2>4, <2>6, <3>1, SubSeqOfStart, SMTT(30) DEF data
  <2> QED BY <2>2, <2>5, <2>7
<1>14. ASSUME blocks[n] = wanted[n]  PROVE cut[n] = blocks[n]
  <2>1. n \in 1 .. n /\ n \in 1 .. c  BY <1>1, <1>11
  <2>2. cut[n] = SubSeq(data, low(n) + 1, S)  BY <1>8, <1>11, <2>1 DEF c
  <2>3. blocks[n] = SubSeq(bytes, low(n) + 1, S) /\ low(n) \in Nat
    BY <1>4, <1>12, <1>14, <2>1
  <2>4. SubSeq(data, low(n) + 1, S) = SubSeq(bytes, low(n) + 1, S)
    <3>1. low(n) + 1 \in Nat \ {0} /\ S <= S  BY <1>5, <2>3
    <3> QED BY <1>5, <3>1, SubSeqOfStart, SMTT(30) DEF data
  <2> QED BY <2>2, <2>3, <2>4
<1> QED BY <1>7, <1>11, <1>13, <1>14 DEF c, n, S

-----------------------------------------------------------------------------

(* TypeOK with sets in the place of its predicates, which TLC could not    *)
(* evaluate.                                                               *)
BackupArea ==
  UNION {[ids -> BackupRecord] : ids \in {d \in SUBSET BackupId : IsFiniteSet(d)}}

CheckpointSet ==
  [index : Nat, installed : Image, backups : BackupArea, package : Nat, flash : Nat,
   peakRam : Nat, peakStorage : Nat, rollbackReady : BOOLEAN, unsafe : SUBSET Marker,
   violations : SUBSET Violation, errors : SUBSET Error]

TypeInv ==
  /\ installed \in Image
  /\ snapshot \in Image
  /\ backups \in BackupArea
  /\ applied \in Nat
  /\ installState \in InstallState
  /\ errors \in SUBSET Error
  /\ rollbackReady \in BOOLEAN
  /\ unsafe \in SUBSET Marker
  /\ checkpoints \in Seq(CheckpointSet)
  /\ package \in Nat /\ staging \in Nat /\ flash \in Nat
  /\ peakRam \in Nat /\ peakStorage \in Nat
  /\ violations \in SUBSET Violation
  /\ ab \in SlotState

(* The block indices of the old image.                                     *)
OldIndex == {t \in Nat : t < Len(snapshot)}

Effect ==
  [installed : Image, backups : BackupArea, state : InstallState,
   errors : SUBSET Error, ab : SlotState, violations : SUBSET Violation,
   lost : SUBSET OldIndex, written : Nat, ram : Nat, staged : Nat,
   refreshed : SUBSET Nat, checked : SUBSET Nat]

(* The storage levels of an effect are bounded, so they have a maximum.    *)
Bounded(levels) == \E bound \in Nat : \A l \in levels : l <= bound

-----------------------------------------------------------------------------
LEMMA BackupAreaPredicate ==
  ASSUME NEW area  PROVE area \in BackupArea <=> IsBackupArea(area)
BY DEF BackupArea, IsBackupArea

LEMMA BackupBytesType ==
  ASSUME NEW area \in BackupArea  PROVE BackupBytes(area) \in Nat
<1> DEFINE bytes(id) == {id} \X (1 .. Len(area[id].block))
           f == [id \in DOMAIN area |-> bytes(id)]
           T == {bytes(id) : id \in DOMAIN area}
<1>1. IsFiniteSet(DOMAIN area) /\ area \in [DOMAIN area -> BackupRecord]
  BY BackupAreaPredicate DEF IsBackupArea
<1>2. \A S \in T : IsFiniteSet(S)
  <2> SUFFICES ASSUME NEW id \in DOMAIN area PROVE IsFiniteSet(bytes(id))  OBVIOUS
  <2>1. Len(area[id].block) \in Nat  BY <1>1 DEF BackupRecord, Block
  <2>2. IsFiniteSet(1 .. Len(area[id].block))  BY <2>1, FS_Interval
  <2>3. IsFiniteSet({id})  BY FS_Singleton
  <2> QED BY <2>2, <2>3, FS_Product
<1>3. f \in Surjection(DOMAIN area, T)  BY DEF Surjection
<1>4. IsFiniteSet(T)
  <2> HIDE DEF f, T
  <2> QED BY <1>1, <1>3, FS_Surjection
<1>5. IsFiniteSet(UNION T)
  <2> HIDE DEF T
  <2> QED BY <1>2, <1>4, FS_UNION
<1>6. BackupBytes(area) = Cardinality(UNION T)  BY DEF BackupBytes
<1> HIDE DEF T
<1> QED BY <1>5, <1>6, FS_CardinalityType

LEMMA LevelType ==
  ASSUME NEW blocks \in Image, NEW area \in BackupArea, NEW staged \in Nat
  PROVE  Level(blocks, area, staged) \in Nat
BY BytesType, BackupBytesType DEF Level

(* The kind of an operation tells its fields.                              *)
LEMMA OperationKind ==
  ASSUME NEW op \in Operation
  PROVE  /\ op.op \in {"keep", "skip"} => op \in KeepOp
         /\ op.op = "backup" => op \in BackupOp
         /\ op.op = "copy" => op \in CopyOp
         /\ op.op = "delta" => op \in DeltaOp
         /\ op.op = "raw_insert" => op \in RawOp
         /\ op.op = "append" => op \in AppendOp
         /\ op.op = "delete" => op \in DeleteOp
         /\ op.op = "truncate" => op \in TruncateOp
         /\ op.op = "verify" => op \in VerifyOp
         /\ op.op = "rollback" => op \in RollbackOp
BY DEF Operation, KeepOp, BackupOp, CopyOp, DeltaOp, RawOp, AppendOp, DeleteOp,
       TruncateOp, VerifyOp, RollbackOp, ControlOp

LEMMA DownloadType ==
  ASSUME NEW op \in Operation  PROVE DownloadBytes(op) \in Nat
<1>1. Overhead \in Nat  BY DeploymentAssumption
<1>2. CASE op.op = "delta"
  <2>1. op.patch \in Nat  BY <1>2, OperationKind DEF DeltaOp
  <2> QED BY <1>1, <1>2, <2>1 DEF DownloadBytes
<1>3. CASE op.op \in {"append", "raw_insert"}
  <2>1. op.data \in Block  BY <1>3, OperationKind DEF AppendOp, RawOp
  <2>2. Len(op.data) \in Nat  BY <2>1 DEF Block
  <2> QED BY <1>1, <1>3, <2>2 DEF DownloadBytes
<1>4. CASE op.op \notin {"delta", "append", "raw_insert"}
  BY <1>1, <1>4 DEF DownloadBytes
<1> QED BY <1>2, <1>3, <1>4

LEMMA StagedType ==
  ASSUME TypeInv, NEW op \in Operation  PROVE Staged(op) \in Nat
BY DownloadType DEF Staged, TypeInv

-----------------------------------------------------------------------------
(* Performing a well typed effect preserves the types.                     *)
LEMMA PerformType ==
  ASSUME TypeInv, NEW op \in Operation, NEW e \in Effect, Bounded(e.refreshed),
         Perform(op, e)
  PROVE  TypeInv'
<1> DEFINE download == Level(installed, backups, Staged(op))
           peak     == Max({peakStorage, download} \cup e.refreshed)
           over     == violations \cup e.violations \cup
                       Exceeded({download} \cup e.checked, e.ram)
           rest     == IF Staging = "streaming" THEN 0 ELSE e.staged
           final    == Level(e.installed, e.backups, rest)
<1>1. /\ e.installed \in Image /\ e.backups \in BackupArea /\ e.state \in InstallState
      /\ e.errors \in SUBSET Error /\ e.ab \in SlotState
      /\ e.violations \in SUBSET Violation /\ e.lost \in SUBSET OldIndex
      /\ e.written \in Nat /\ e.ram \in Nat /\ e.staged \in Nat
      /\ e.refreshed \in SUBSET Nat
  BY DEF Effect
<1>2. rest \in Nat  BY <1>1
<1>3. download \in Nat  BY StagedType, LevelType DEF TypeInv
<1>4. final \in Nat  BY <1>1, <1>2, LevelType
<1>5. DownloadBytes(op) \in Nat  BY DownloadType
<1>6. peak \in Nat
  <2> HIDE DEF download
  <2>1. PICK bound \in Nat : \A l \in e.refreshed : l <= bound  BY DEF Bounded
  <2> DEFINE S == {peakStorage, download} \cup e.refreshed
  <2>2. peakStorage \in Nat  BY DEF TypeInv
  <2>3. S \subseteq Nat /\ S # {}  BY <1>1, <1>3, <2>2
  <2>4. bound + peakStorage + download \in Nat  BY <1>3, <2>2
  <2>5. \A l \in S : l <= bound + peakStorage + download  BY <1>1, <1>3, <2>1, <2>2
  <2> HIDE DEF S
  <2>6. Max(S) \in Nat  BY <2>3, <2>4, <2>5, MaxOfBounded
  <2> QED BY <2>6 DEF S
<1>7. over \in SUBSET Violation  BY <1>1 DEF TypeInv, Exceeded, Violation
<1> HIDE DEF download, peak, over, rest, final
<1>8. /\ installed' = e.installed /\ backups' = e.backups /\ installState' = e.state
      /\ errors' = e.errors /\ rollbackReady' = (rollbackReady /\ e.lost = {})
      /\ unsafe' = unsafe \cup {[operation |-> applied + 1, target |-> t] : t \in e.lost}
      /\ applied' = applied + 1 /\ package' = package + DownloadBytes(op)
      /\ staging' = rest /\ flash' = flash + e.written
      /\ peakRam' = Max({peakRam, e.ram})
      /\ checkpoints' = IF TakesCheckpoint(op)
                          THEN Append(checkpoints, Checkpoint(applied + 1, e, peak, over))
                          ELSE checkpoints
      /\ peakStorage' = Max({peak, final})
      /\ violations' = over \cup Exceeded({final}, 0)
      /\ ab' = e.ab /\ snapshot' = snapshot
  BY DEF Perform, download, peak, over, rest, final
<1>9. /\ installed' \in Image /\ backups' \in BackupArea /\ installState' \in InstallState
      /\ errors' \in SUBSET Error /\ ab' \in SlotState /\ snapshot' \in Image
  BY <1>1, <1>8 DEF TypeInv
<1>10. /\ applied' \in Nat /\ package' \in Nat /\ staging' \in Nat /\ flash' \in Nat
  <2>1. applied \in Nat /\ package \in Nat /\ flash \in Nat  BY DEF TypeInv
  <2>2. /\ applied' = applied + 1 /\ package' = package + DownloadBytes(op)
        /\ staging' = rest /\ flash' = flash + e.written
    BY <1>8
  <2> QED BY <1>1, <1>2, <1>5, <2>1, <2>2
<1>11. peakRam' \in Nat /\ peakStorage' \in Nat
  <2>1. peakRam' \in Nat  BY <1>1, <1>8, MaxOfTwo DEF TypeInv
  <2>2. peakStorage' \in Nat  BY <1>4, <1>6, <1>8, MaxOfTwo
  <2> QED BY <2>1, <2>2
<1>12. rollbackReady' \in BOOLEAN  BY <1>8 DEF TypeInv
<1>13. unsafe' \in SUBSET Marker
  <2>1. \A t \in e.lost : [operation |-> applied + 1, target |-> t] \in Marker
    BY <1>1 DEF TypeInv, Marker, OldIndex
  <2>2. unsafe \in SUBSET Marker  BY DEF TypeInv
  <2> QED BY <1>8, <2>1, <2>2
<1>14. violations' \in SUBSET Violation  BY <1>7, <1>8 DEF Exceeded, Violation
<1>15. checkpoints' \in Seq(CheckpointSet)
  <2>1. checkpoints \in Seq(CheckpointSet)  BY DEF TypeInv
  <2>2. Checkpoint(applied + 1, e, peak, over) \in CheckpointSet
    <3>1. applied + 1 \in Nat  BY DEF TypeInv
    <3>2. /\ e.installed \in Image /\ e.backups \in BackupArea /\ package' \in Nat
          /\ flash' \in Nat /\ peakRam' \in Nat /\ e.errors \in SUBSET Error
      BY <1>1, <1>10, <1>11
    <3> QED BY <1>6, <1>7, <1>12, <1>13, <3>1, <3>2, Zenon DEF Checkpoint, CheckpointSet
  <2>3. Append(checkpoints, Checkpoint(applied + 1, e, peak, over)) \in Seq(CheckpointSet)
    BY <2>1, <2>2, AppendProperties
  <2> QED BY <1>8, <2>1, <2>3
<1> QED BY <1>9, <1>10, <1>11, <1>12, <1>13, <1>14, <1>15 DEF TypeInv

-----------------------------------------------------------------------------
(* The effects of the operations are well typed.                           *)
LEMMA NoEffectType ==
  ASSUME TypeInv, NEW op \in Operation
  PROVE  NoEffect(op) \in Effect /\ Bounded(NoEffect(op).refreshed)
<1>1. Staged(op) \in Nat  BY StagedType
<1>2. NoEffect(op) \in Effect
  BY <1>1 DEF NoEffect, Effect, TypeInv, InstallState
<1>3. NoEffect(op).refreshed = {}  BY DEF NoEffect
<1> QED BY <1>2, <1>3 DEF Bounded

LEMMA WriteEffectType ==
  ASSUME TypeInv, NEW op \in Operation, NEW target \in Nat, NEW block \in Block,
         NEW lost \in SUBSET OldIndex, NEW ram \in Nat
  PROVE  /\ WriteEffect(op, target, block, lost, ram) \in Effect
         /\ Bounded(WriteEffect(op, target, block, lost, ram).refreshed)
<1> DEFINE written == WriteBlock(installed, target, block)
           level   == Level(written, backups, Staged(op))
           cells   == Holes(installed, target) * BlockSize + Len(block)
           e       == WriteEffect(op, target, block, lost, ram)
<1>1. written \in Image  BY WriteBlockType DEF TypeInv
<1>2. level \in Nat  BY <1>1, StagedType, LevelType DEF TypeInv
<1>3. cells \in Nat
  <2>1. Holes(installed, target) \in Nat  BY HolesType DEF TypeInv
  <2>2. BlockSize \in Nat  BY BlockSizeAssumption
  <2>3. Len(block) \in Nat  BY DEF Block
  <2>4. Holes(installed, target) * BlockSize \in Nat  BY <2>1, <2>2
  <2> QED BY <2>3, <2>4
<1> HIDE DEF written, level, cells
<1>4. e = [NoEffect(op) EXCEPT !.installed = written, !.lost = lost, !.ram = ram,
                               !.written = cells, !.refreshed = {level}]
  BY DEF WriteEffect, written, level, cells
<1>5. NoEffect(op) \in Effect  BY NoEffectType
<1>6. e \in Effect
  <2>1. {level} \in SUBSET Nat  BY <1>2
  <2> HIDE DEF e
  <2> QED BY <1>1, <1>3, <1>4, <1>5, <2>1 DEF Effect
<1>7. e.refreshed = {level}
  <2> HIDE DEF e
  <2> QED BY <1>4, <1>5 DEF Effect
<1> HIDE DEF e
<1>8. Bounded(e.refreshed)  BY <1>2, <1>7 DEF Bounded
<1> QED BY <1>6, <1>8 DEF e

LEMMA BackupTypes ==
  ASSUME TypeInv, NEW id \in DOMAIN backups
  PROVE  backups[id].index \in Nat /\ backups[id].block \in Block
<1>1. backups \in [DOMAIN backups -> BackupRecord]
  BY BackupAreaPredicate DEF TypeInv, IsBackupArea
<1> QED BY <1>1 DEF BackupRecord

LEMMA InstalledType ==
  ASSUME TypeInv, NEW index \in Nat, InImage(index)
  PROVE  installed[index + 1] \in Block
BY DEF TypeInv, InImage, Image

LEMMA SourceBlockType ==
  ASSUME TypeInv, NEW source \in Source, Readable(source)
  PROVE  SourceBlock(source) \in Block
<1>1. CASE source.area = "installed"
  <2>1. source.index \in Nat /\ InImage(source.index)  BY <1>1 DEF Source, Readable
  <2> QED BY <1>1, <2>1, InstalledType DEF SourceBlock
<1>2. CASE source.area = "backup"
  <2>1. source.id \in DOMAIN backups  BY <1>2 DEF Readable
  <2> QED BY <1>2, <2>1, BackupTypes DEF SourceBlock
<1>3. CASE source.area = "image"
  BY <1>3, BytesType DEF SourceBlock, TypeInv
<1>4. source.area \in {"installed", "backup", "image"}  BY DEF Source
<1> QED BY <1>1, <1>2, <1>3, <1>4

LEMMA LostType ==
  /\ \A target \in Nat : \A block : Overwritten(target, block) \in SUBSET OldIndex
  /\ \A targets \in SUBSET Nat : Removed(targets) \in SUBSET OldIndex
BY DEF Overwritten, Removed, Unprotected, OldIndex

-----------------------------------------------------------------------------
(* complete() and the A/B slots.                                           *)
CompletionSet ==
  [installed : Image, state : InstallState, errors : SUBSET Error,
   violations : SUBSET Violation, ab : SlotState]

LEMMA CandidateType == TypeInv => Candidate \in Block /\ Len(Candidate) \in Nat
BY BytesType DEF Candidate, TypeInv, Block

LEMMA RefusedType == TypeInv => Refused \in SlotState
<1> SUFFICES ASSUME TypeInv PROVE Refused \in SlotState  OBVIOUS
<1>1. Candidate \in Block /\ Len(Candidate) \in Nat  BY CandidateType
<1>2. ab \in SlotState  BY DEF TypeInv
<1> QED BY <1>1, <1>2 DEF Refused, SlotState

LEMMA BootedType == TypeInv => Booted \in SlotState
<1> SUFFICES ASSUME TypeInv PROVE Booted \in SlotState  OBVIOUS
<1>1. Candidate \in Block /\ Len(Candidate) \in Nat  BY CandidateType
<1>2. ab \in SlotState  BY DEF TypeInv
<1>3. Boots \in Nat /\ Healthy \in BOOLEAN  BY DeploymentAssumption DEF Boots, Healthy
<1> DEFINE reboots  == ab.reboots + Boots
           verdict  == IF Healthy THEN "pass" ELSE "fail"
           back     == ab.rolledBack \/ ~Healthy
           version  == IF Healthy THEN Candidate ELSE ab.activeVersion
           other    == IF InactiveInstall /\ ~Healthy THEN Candidate ELSE ab.activeVersion
           active   == IF InactiveInstall /\ Healthy THEN ab.inactive ELSE ab.active
           inactive == IF InactiveInstall /\ Healthy THEN ab.active ELSE ab.inactive
           switches == IF InactiveInstall THEN ab.switches + (IF Healthy THEN 1 ELSE 2)
                                          ELSE ab.switches
<1>4. /\ ab.reboots \in Nat /\ ab.switches \in Nat /\ ab.rolledBack \in BOOLEAN
      /\ ab.activeVersion \in Block /\ ab.active \in Slot /\ ab.inactive \in Slot
  BY <1>2 DEF SlotState
<1>5. reboots \in Nat /\ switches \in Nat  BY <1>3, <1>4
<1>6. /\ verdict \in {"not_run", "pass", "fail"} /\ back \in BOOLEAN
      /\ version \in Block /\ other \in Block /\ active \in Slot /\ inactive \in Slot
  BY <1>1, <1>3, <1>4
<1>7. Booted = [ab EXCEPT
        !.finalized = TRUE, !.activated = TRUE, !.rollbackReady = TRUE,
        !.slotBytes = Len(Candidate), !.boots = Boots, !.reboots = reboots,
        !.verdict = verdict, !.healthy = Healthy, !.valid = Healthy,
        !.rolledBack = back, !.activeVersion = version, !.inactiveVersion = other,
        !.active = active, !.inactive = inactive, !.switches = switches]
  BY DEF Booted
<1> HIDE DEF reboots, verdict, back, version, other, active, inactive, switches
<1>8. Booted =
        [active |-> active, inactive |-> inactive, activeVersion |-> version,
         inactiveVersion |-> other, slotBytes |-> Len(Candidate),
         slotViolation |-> ab.slotViolation, boots |-> Boots, reboots |-> reboots,
         switches |-> switches, verdict |-> verdict, activated |-> TRUE,
         healthy |-> Healthy, rolledBack |-> back, rollbackReady |-> TRUE,
         valid |-> Healthy, finalized |-> TRUE]
  BY <1>2, <1>7 DEF SlotState
<1>9. ab.slotViolation \in BOOLEAN  BY <1>2 DEF SlotState
<1> QED BY <1>1, <1>3, <1>5, <1>6, <1>8, <1>9, Zenon DEF SlotState

LEMMA CompletionType ==
  ASSUME TypeInv, NEW state \in InstallState
  PROVE  Completion(state) \in CompletionSet
<1>1. Completed(state) \in InstallState  BY DEF Completed, InstallState
<1>2. Refusal \in SUBSET Error  BY DEF Refusal, Error
<1>3. Refusal \cap {"slot_capacity"} \in SUBSET Violation  BY DEF Violation
<1>4. /\ installed \in Image /\ snapshot \in Image /\ errors \in SUBSET Error
      /\ ab \in SlotState
  BY DEF TypeInv
<1>5. Refused \in SlotState /\ Booted \in SlotState  BY RefusedType, BootedType
<1>6. "boot_health" \in Error /\ {"failed", "complete", "rolled_back"} \subseteq InstallState
  BY DEF Error, InstallState
<1>7. CASE ~Finalizes(state)
  BY <1>1, <1>4, <1>7, Zenon DEF Completion, FailBeforeActivation, Switch, CompletionSet
<1>8. CASE Finalizes(state) /\ Refusal # {}
  BY <1>2, <1>3, <1>4, <1>5, <1>6, <1>8 DEF Completion, FailBeforeActivation, Switch, CompletionSet
<1>9. CASE Finalizes(state) /\ Refusal = {} /\ Healthy
  BY <1>4, <1>5, <1>6, <1>9 DEF Completion, FailBeforeActivation, Switch, CompletionSet
<1>10. CASE Finalizes(state) /\ Refusal = {} /\ ~Healthy
  BY <1>4, <1>5, <1>6, <1>10 DEF Completion, FailBeforeActivation, Switch, CompletionSet
<1> QED BY <1>7, <1>8, <1>9, <1>10

LEMMA CompletionLevelsType ==
  ASSUME TypeInv, NEW c \in CompletionSet
  PROVE  CompletionLevels(c) \in SUBSET Nat /\ Bounded(CompletionLevels(c))
<1> DEFINE a == Level(installed, backups, 0)
           b == Level(c.installed, backups, 0)
<1>1. a \in Nat  BY LevelType DEF TypeInv
<1>2. b \in Nat
  <2>1. c.installed \in Image  BY DEF CompletionSet
  <2> QED BY <2>1, LevelType DEF TypeInv
<1>3. CompletionLevels(c) = {a, b}  BY DEF CompletionLevels
<1> HIDE DEF a, b
<1>4. a + b \in Nat /\ a <= a + b /\ b <= a + b  BY <1>1, <1>2
<1> QED BY <1>1, <1>2, <1>3, <1>4 DEF Bounded

-----------------------------------------------------------------------------
(* Every operation performs a well typed effect.                           *)
Performs(op) == \E e \in Effect : Bounded(e.refreshed) /\ Perform(op, e)

LEMMA UneventfulPerforms ==
  ASSUME TypeInv, NEW op \in Operation, Keep(op) \/ Verify(op) \/ TakeCheckpoint(op)
  PROVE  Performs(op)
<1>1. NoEffect(op) \in Effect /\ Bounded(NoEffect(op).refreshed)  BY NoEffectType
<1>2. Perform(op, NoEffect(op))  BY DEF Keep, Verify, TakeCheckpoint
<1> QED BY <1>1, <1>2 DEF Performs

LEMMA BackupPerforms ==
  ASSUME TypeInv, NEW op \in Operation, Backup(op)
  PROVE  Performs(op)
<1> DEFINE block == installed[op.source + 1]
           area  == SaveBackup(backups, op.id, [index |-> op.source, block |-> block])
           level == Level(installed, area, Staged(op))
           cells == Len(block)
           e     == [NoEffect(op) EXCEPT !.backups = area, !.ram = cells,
                                         !.written = cells, !.checked = {level}]
<1>1. op.source \in Nat /\ op.id \in BackupId /\ InImage(op.source)
  BY OperationKind DEF Backup, BackupOp, Applicable
<1>2. block \in Block /\ cells \in Nat  BY <1>1, InstalledType DEF Block
<1>3. area \in BackupArea
  <2>1. [index |-> op.source, block |-> block] \in BackupRecord
    BY <1>1, <1>2 DEF BackupRecord
  <2>2. IsBackupArea(backups)  BY BackupAreaPredicate DEF TypeInv
  <2> QED BY <1>1, <2>1, <2>2, SaveBackupType, BackupAreaPredicate
<1>4. level \in Nat  BY <1>3, StagedType, LevelType DEF TypeInv
<1>5. Perform(op, e)  BY DEF Backup
<1>6. NoEffect(op) \in Effect /\ Bounded(NoEffect(op).refreshed)  BY NoEffectType
<1> HIDE DEF block, area, level, cells
<1>7. e \in Effect /\ e.refreshed = NoEffect(op).refreshed
  BY <1>2, <1>3, <1>4, <1>6 DEF Effect
<1> HIDE DEF e
<1> QED BY <1>5, <1>6, <1>7 DEF Performs

LEMMA WritePerforms ==
  ASSUME TypeInv, NEW op \in Operation,
         Copy(op) \/ Delta(op) \/ RawInsert(op) \/ AppendBlock(op)
  PROVE  Performs(op)
<1>1. CASE Copy(op)
  <2> DEFINE block == SourceBlock(op.source)
  <2>1. op.target \in Nat /\ op.source \in Source /\ Readable(op.source)
    BY <1>1, OperationKind DEF Copy, CopyOp, Applicable
  <2>2. block \in Block  BY <2>1, SourceBlockType
  <2>3. Len(block) \in Nat  BY <2>2 DEF Block
  <2>4. Overwritten(op.target, block) \in SUBSET OldIndex  BY <2>1, LostType
  <2>5. Perform(op, WriteEffect(op, op.target, block, Overwritten(op.target, block),
                                Len(block)))
    BY <1>1 DEF Copy
  <2> HIDE DEF block
  <2> QED BY <2>1, <2>2, <2>3, <2>4, <2>5, WriteEffectType DEF Performs
<1>2. CASE Delta(op)
  <2>1. /\ op.target \in Nat /\ op.result \in Block
        /\ op.base \in Block /\ op.patch \in Nat
    BY <1>2, OperationKind DEF Delta, DeltaOp
  <2>2. Len(op.base) + op.patch + Len(op.result) \in Nat  BY <2>1 DEF Block
  <2>3. Overwritten(op.target, op.result) \in SUBSET OldIndex  BY <2>1, LostType
  <2>4. Perform(op, WriteEffect(op, op.target, op.result,
                  Overwritten(op.target, op.result), Len(op.base) + op.patch + Len(op.result)))
    BY <1>2 DEF Delta
  <2> QED BY <2>1, <2>2, <2>3, <2>4, WriteEffectType DEF Performs
<1>3. CASE RawInsert(op)
  <2>1. op.target \in Nat /\ op.data \in Block
    BY <1>3, OperationKind DEF RawInsert, RawOp
  <2>2. Len(op.data) \in Nat  BY <2>1 DEF Block
  <2>3. Overwritten(op.target, op.data) \in SUBSET OldIndex  BY <2>1, LostType
  <2>4. Perform(op, WriteEffect(op, op.target, op.data, Overwritten(op.target, op.data),
                                Len(op.data)))
    BY <1>3 DEF RawInsert
  <2> QED BY <2>1, <2>2, <2>3, <2>4, WriteEffectType DEF Performs
<1>4. CASE AppendBlock(op)
  <2>1. op.data \in Block  BY <1>4, OperationKind DEF AppendBlock, AppendOp
  <2>2. Len(op.data) \in Nat /\ Len(installed) \in Nat
    BY <2>1 DEF Block, TypeInv, Image
  <2>3. Perform(op, WriteEffect(op, Len(installed), op.data, {}, Len(op.data)))
    BY <1>4 DEF AppendBlock
  <2>4. {} \in SUBSET Nat  OBVIOUS
  <2> QED BY <2>1, <2>2, <2>3, <2>4, WriteEffectType DEF Performs
<1> QED BY <1>1, <1>2, <1>3, <1>4

(* delete and both truncates leave a part of the image.                    *)
LEMMA CutPerforms ==
  ASSUME TypeInv, NEW op \in Operation, NEW cut \in Image, NEW lost \in SUBSET OldIndex,
         Perform(op, [NoEffect(op) EXCEPT !.installed = cut, !.lost = lost])
  PROVE  Performs(op)
<1> DEFINE e == [NoEffect(op) EXCEPT !.installed = cut, !.lost = lost]
<1>1. NoEffect(op) \in Effect /\ Bounded(NoEffect(op).refreshed)  BY NoEffectType
<1>2. e \in Effect /\ e.refreshed = NoEffect(op).refreshed  BY <1>1 DEF Effect
<1>3. Perform(op, e)  OBVIOUS
<1> HIDE DEF e
<1> QED BY <1>1, <1>2, <1>3 DEF Performs

LEMMA ShrinkPerforms ==
  ASSUME TypeInv, NEW op \in Operation,
         Delete(op) \/ TruncateToBytes(op) \/ TruncateToBlocks(op)
  PROVE  Performs(op)
<1>0. installed \in Image /\ Len(installed) \in Nat  BY DEF TypeInv, Image
<1>1. CASE Delete(op)
  <2>1. /\ op.target \in Nat /\ op.count \in Nat /\ op.count > 0
        /\ InImage(op.target + op.count - 1)
    BY <1>1, OperationKind DEF Delete, DeleteOp, Applicable
  <2>2. op.target + op.count <= Len(installed)  BY <1>0, <2>1 DEF InImage
  <2>3. DeleteBlocks(installed, op.target, op.count) \in Image
    BY <1>0, <2>1, <2>2, DeleteBlocksType
  <2>4. Removed(op.target .. op.target + op.count - 1) \in SUBSET OldIndex
    <3>1. op.target .. op.target + op.count - 1 \in SUBSET Nat  BY <2>1
    <3> QED BY <3>1, LostType
  <2> QED BY <1>1, <2>3, <2>4, CutPerforms DEF Delete
<1>2. CASE TruncateToBytes(op)
  <2> DEFINE cut  == TruncateBytes(installed, op.size)
             left == Len(cut)
             last == {i \in {left - 1} : /\ left > 0 /\ left <= Len(installed)
                                         /\ cut[left] # installed[left]}
             lost == Removed(last \cup (left .. Len(installed) - 1))
  <2>1. op.size \in Nat  BY <1>2, OperationKind DEF TruncateToBytes, TruncateOp
  <2>2. cut \in Image  BY <1>0, <2>1, TruncateBytesType
  <2>3. left \in Nat  BY <2>2 DEF Image
  <2>4. Perform(op, [NoEffect(op) EXCEPT !.installed = cut, !.lost = lost])
    BY <1>2 DEF TruncateToBytes
  <2> HIDE DEF cut, left
  <2>5. last \cup (left .. Len(installed) - 1) \in SUBSET Nat  BY <1>0, <2>3
  <2>6. lost \in SUBSET OldIndex
    <3> HIDE DEF last
    <3> QED BY <2>5, LostType
  <2> HIDE DEF last, lost
  <2> QED BY <2>2, <2>4, <2>6, CutPerforms
<1>3. CASE TruncateToBlocks(op)
  <2>1. op.size \in Nat  BY <1>3, OperationKind DEF TruncateToBlocks, TruncateOp
  <2>2. Take(installed, op.size) \in Image  BY <1>0, <2>1, TakeType DEF Image
  <2>3. Removed(op.size .. Len(installed) - 1) \in SUBSET OldIndex
    <3>1. op.size .. Len(installed) - 1 \in SUBSET Nat  BY <1>0, <2>1
    <3> QED BY <3>1, LostType
  <2> QED BY <1>3, <2>2, <2>3, CutPerforms DEF TruncateToBlocks
<1> QED BY <1>1, <1>2, <1>3

LEMMA RollbackPerforms ==
  ASSUME TypeInv, NEW op \in Operation, RollbackToSnapshot(op) \/ RollbackToBackup(op)
  PROVE  Performs(op)
<1>0. "rolled_back" \in InstallState  BY DEF InstallState
<1>1. CASE RollbackToSnapshot(op)
  <2> DEFINE level == Level(snapshot, backups, 0)
             e == [NoEffect(op) EXCEPT !.installed = snapshot, !.state = "rolled_back",
                                       !.staged = 0, !.refreshed = {level}]
  <2>1. snapshot \in Image /\ level \in Nat  BY LevelType DEF TypeInv
  <2>2. Perform(op, e)  BY <1>1 DEF RollbackToSnapshot
  <2>3. NoEffect(op) \in Effect  BY NoEffectType
  <2> HIDE DEF level
  <2>4. {level} \in SUBSET Nat /\ Bounded({level})  BY <2>1 DEF Bounded
  <2>5. e \in Effect /\ e.refreshed = {level}  BY <1>0, <2>1, <2>3, <2>4 DEF Effect
  <2> HIDE DEF e
  <2> QED BY <2>2, <2>4, <2>5 DEF Performs
<1>2. CASE RollbackToBackup(op)
  <2> DEFINE saved == backups[op.id]
             w == WriteEffect(op, saved.index, saved.block, {}, 0)
             e == [w EXCEPT !.state = "rolled_back", !.staged = 0]
  <2>1. op.id \in DOMAIN backups
    BY <1>2 DEF RollbackToBackup, Applicable
  <2>2. saved.index \in Nat /\ saved.block \in Block  BY <2>1, BackupTypes
  <2>3. Perform(op, e)  BY <1>2 DEF RollbackToBackup
  <2> HIDE DEF saved
  <2>4. w \in Effect /\ Bounded(w.refreshed)
    <3>1. {} \in SUBSET Nat /\ 0 \in Nat  OBVIOUS
    <3> QED BY <2>2, <3>1, WriteEffectType
  <2> HIDE DEF w
  <2>5. e \in Effect /\ e.refreshed = w.refreshed  BY <1>0, <2>4 DEF Effect
  <2> HIDE DEF e
  <2> QED BY <2>3, <2>4, <2>5 DEF Performs
<1> QED BY <1>1, <1>2

LEMMA CommitPerforms ==
  ASSUME TypeInv, NEW op \in Operation, Commit(op)
  PROVE  Performs(op)
<1> DEFINE c == Completion("installing")
           levels == CompletionLevels(c)
           e == [NoEffect(op) EXCEPT
                   !.installed = c.installed, !.state = c.state, !.errors = c.errors,
                   !.violations = c.violations, !.ab = c.ab, !.staged = 0,
                   !.refreshed = levels]
<1>1. c \in CompletionSet  BY CompletionType DEF InstallState
<1>2. levels \in SUBSET Nat /\ Bounded(levels)  BY <1>1, CompletionLevelsType
<1>3. Perform(op, e)  BY DEF Commit
<1>4. NoEffect(op) \in Effect  BY NoEffectType
<1> HIDE DEF c, levels
<1>5. /\ c.installed \in Image /\ c.state \in InstallState /\ c.errors \in SUBSET Error
      /\ c.violations \in SUBSET Violation /\ c.ab \in SlotState
  BY <1>1 DEF CompletionSet
<1>6. e \in Effect /\ e.refreshed = levels  BY <1>2, <1>4, <1>5 DEF Effect
<1> HIDE DEF e
<1> QED BY <1>2, <1>3, <1>6 DEF Performs

LEMMA SucceedPerforms ==
  ASSUME TypeInv, NEW op \in Operation, Succeed(op)
  PROVE  Performs(op)
BY UneventfulPerforms, BackupPerforms, WritePerforms, ShrinkPerforms,
   RollbackPerforms, CommitPerforms DEF Succeed

-----------------------------------------------------------------------------
(* What each operation does to the image, to the backups and to            *)
(* rollback_ready; only commit may do more than count otherwise.           *)
Yields(blocks, area, lost) ==
  /\ installed' = blocks /\ backups' = area
  /\ rollbackReady' = (rollbackReady /\ lost = {})

LastCut(op) ==
  LET cut  == TruncateBytes(installed, op.size)
      left == Len(cut)
  IN  {i \in {left - 1} : /\ left > 0 /\ left <= Len(installed)
                          /\ cut[left] # installed[left]}
        \cup (left .. Len(installed) - 1)

LEMMA PerformAssigns ==
  ASSUME NEW op, NEW e, Perform(op, e)
  PROVE  /\ Running /\ applied < MaxOps /\ applied' = applied + 1 /\ snapshot' = snapshot
         /\ Yields(e.installed, e.backups, e.lost)
         /\ installState' = e.state /\ errors' = e.errors /\ ab' = e.ab
BY DEF Perform, Yields

LEMMA WriteEffectFields ==
  ASSUME NEW op, NEW target, NEW block, NEW lost, NEW ram
  PROVE  LET w == WriteEffect(op, target, block, lost, ram) IN
         /\ w.installed = WriteBlock(installed, target, block) /\ w.backups = backups
         /\ w.lost = lost /\ w.errors = errors /\ w.state = "installing" /\ w.ab = ab
BY DEF WriteEffect, NoEffect

LEMMA EffectFields ==
  ASSUME NEW op, Perform(op, NoEffect(op))
  PROVE  /\ Running /\ applied < MaxOps /\ applied' = applied + 1 /\ snapshot' = snapshot
         /\ Yields(installed, backups, {})
         /\ errors' = errors /\ ab' = ab /\ installState' = "installing"
<1> DEFINE e == NoEffect(op)
<1>1. /\ e.installed = installed /\ e.backups = backups /\ e.lost = {}
      /\ e.errors = errors /\ e.state = "installing" /\ e.ab = ab
  BY DEF NoEffect
<1>2. Perform(op, e)  OBVIOUS
<1> HIDE DEF e
<1> QED BY <1>1, <1>2, PerformAssigns

LEMMA CutFields ==
  ASSUME NEW op, NEW cut, NEW lost,
         Perform(op, [NoEffect(op) EXCEPT !.installed = cut, !.lost = lost])
  PROVE  /\ Running /\ applied < MaxOps /\ applied' = applied + 1 /\ snapshot' = snapshot
         /\ Yields(cut, backups, lost)
         /\ errors' = errors /\ ab' = ab /\ installState' = "installing"
<1> DEFINE e == [NoEffect(op) EXCEPT !.installed = cut, !.lost = lost]
<1>1. /\ e.installed = cut /\ e.backups = backups /\ e.lost = lost
      /\ e.errors = errors /\ e.state = "installing" /\ e.ab = ab
  BY DEF NoEffect
<1>2. Perform(op, e)  OBVIOUS
<1> HIDE DEF e
<1> QED BY <1>1, <1>2, PerformAssigns

(* One lemma for the steps that are told apart by the kind of operation.   *)
LEMMA SucceedYields ==
  ASSUME NEW op, Succeed(op)
  PROVE  /\ Running /\ applied < MaxOps /\ applied' = applied + 1 /\ snapshot' = snapshot
         /\ op.op # "commit" => errors' = errors /\ ab' = ab
         /\ op.op \notin {"commit", "rollback"} => installState' = "installing"
         /\ op.op = "rollback" => installState' = "rolled_back"
         /\ \/ /\ op.op \in {"keep", "skip", "verify", "checkpoint"} /\ Applicable(op)
               /\ Yields(installed, backups, {})
            \/ /\ op.op = "backup" /\ Applicable(op)
               /\ Yields(installed,
                         SaveBackup(backups, op.id, [index |-> op.source,
                                                     block |-> installed[op.source + 1]]), {})
            \/ /\ op.op = "copy" /\ Applicable(op)
               /\ Yields(WriteBlock(installed, op.target, SourceBlock(op.source)), backups,
                         Overwritten(op.target, SourceBlock(op.source)))
            \/ /\ op.op = "delta" /\ Applicable(op)
               /\ Yields(WriteBlock(installed, op.target, op.result), backups,
                         Overwritten(op.target, op.result))
            \/ /\ op.op = "raw_insert"
               /\ Yields(WriteBlock(installed, op.target, op.data), backups,
                         Overwritten(op.target, op.data))
            \/ /\ op.op = "append" /\ Applicable(op)
               /\ Yields(WriteBlock(installed, Len(installed), op.data), backups, {})
            \/ /\ op.op = "delete" /\ Applicable(op)
               /\ Yields(DeleteBlocks(installed, op.target, op.count), backups,
                         Removed(op.target .. op.target + op.count - 1))
            \/ /\ op.op = "truncate" /\ op.unit = "bytes"
               /\ Yields(TruncateBytes(installed, op.size), backups, Removed(LastCut(op)))
            \/ /\ op.op = "truncate" /\ op.unit = "blocks"
               /\ Yields(Take(installed, op.size), backups,
                         Removed(op.size .. Len(installed) - 1))
            \/ /\ op.op = "rollback" /\ op.id = SnapshotId
               /\ Yields(snapshot, backups, {})
            \/ /\ op.op = "rollback" /\ op.id # SnapshotId /\ Applicable(op)
               /\ Yields(WriteBlock(installed, backups[op.id].index, backups[op.id].block),
                         backups, {})
            \/ /\ op.op = "commit"
               /\ Yields(Completion("installing").installed, backups, {})
               /\ installState' = Completion("installing").state
               /\ errors' = Completion("installing").errors
               /\ ab' = Completion("installing").ab
<1>1. CASE Keep(op) \/ Verify(op) \/ TakeCheckpoint(op)
  <2>1. Perform(op, NoEffect(op)) /\ Applicable(op)
    BY <1>1 DEF Keep, Verify, TakeCheckpoint, Applicable
  <2>2. op.op \in {"keep", "skip", "verify", "checkpoint"}
    BY <1>1 DEF Keep, Verify, TakeCheckpoint
  <2> QED BY <2>1, <2>2, EffectFields
<1>2. CASE Backup(op)
  <2> DEFINE block == installed[op.source + 1]
             area  == SaveBackup(backups, op.id, [index |-> op.source, block |-> block])
             e == [NoEffect(op) EXCEPT
                     !.backups = area, !.ram = Len(block), !.written = Len(block),
                     !.checked = {Level(installed, area, Staged(op))}]
  <2>1. Perform(op, e)  BY <1>2 DEF Backup
  <2> HIDE DEF area
  <2>2. /\ e.installed = installed /\ e.backups = area /\ e.lost = {}
        /\ e.errors = errors /\ e.state = "installing" /\ e.ab = ab
    BY DEF NoEffect
  <2> HIDE DEF e
  <2>3. /\ Yields(installed, area, {}) /\ errors' = errors /\ ab' = ab
        /\ installState' = "installing"
    BY <2>1, <2>2, PerformAssigns
  <2> QED BY <1>2, <2>1, <2>3, PerformAssigns DEF Backup, area
<1>3. CASE Copy(op)
  BY <1>3, PerformAssigns, WriteEffectFields DEF Copy
<1>4. CASE Delta(op)
  BY <1>4, PerformAssigns, WriteEffectFields DEF Delta
<1>5. CASE RawInsert(op)
  BY <1>5, PerformAssigns, WriteEffectFields DEF RawInsert
<1>6. CASE AppendBlock(op)
  BY <1>6, PerformAssigns, WriteEffectFields DEF AppendBlock
<1>7. CASE Delete(op)
  BY <1>7, CutFields DEF Delete
<1>8. CASE TruncateToBytes(op)
  <2>1. Perform(op, [NoEffect(op) EXCEPT !.installed = TruncateBytes(installed, op.size),
                                         !.lost = Removed(LastCut(op))])
    BY <1>8 DEF TruncateToBytes, LastCut
  <2> QED BY <1>8, <2>1, CutFields DEF TruncateToBytes
<1>9. CASE TruncateToBlocks(op)
  BY <1>9, CutFields DEF TruncateToBlocks
<1>10. CASE RollbackToSnapshot(op)
  <2> DEFINE e == [NoEffect(op) EXCEPT
                     !.installed = snapshot, !.state = "rolled_back", !.staged = 0,
                     !.refreshed = {Level(snapshot, backups, 0)}]
  <2>1. Perform(op, e)  BY <1>10 DEF RollbackToSnapshot
  <2>2. /\ e.installed = snapshot /\ e.backups = backups /\ e.lost = {}
        /\ e.errors = errors /\ e.state = "rolled_back" /\ e.ab = ab
    BY DEF NoEffect
  <2> HIDE DEF e
  <2> QED BY <1>10, <2>1, <2>2, PerformAssigns DEF RollbackToSnapshot
<1>11. CASE RollbackToBackup(op)
  <2> DEFINE saved == backups[op.id]
             w == WriteEffect(op, saved.index, saved.block, {}, 0)
             e == [w EXCEPT !.state = "rolled_back", !.staged = 0]
  <2>1. Perform(op, e)  BY <1>11 DEF RollbackToBackup
  <2>2. /\ e.installed = WriteBlock(installed, saved.index, saved.block)
        /\ e.backups = backups /\ e.lost = {} /\ e.errors = errors
        /\ e.state = "rolled_back" /\ e.ab = ab
    BY DEF WriteEffect, NoEffect
  <2> HIDE DEF e
  <2> QED BY <1>11, <2>1, <2>2, PerformAssigns DEF RollbackToBackup
<1>12. CASE Commit(op)
  <2> DEFINE c == Completion("installing")
             e == [NoEffect(op) EXCEPT
                     !.installed = c.installed, !.state = c.state, !.errors = c.errors,
                     !.violations = c.violations, !.ab = c.ab, !.staged = 0,
                     !.refreshed = CompletionLevels(c)]
  <2>1. Perform(op, e)  BY <1>12 DEF Commit
  <2> HIDE DEF c
  <2>2. /\ e.installed = c.installed /\ e.backups = backups /\ e.lost = {}
        /\ e.state = c.state /\ e.errors = c.errors /\ e.ab = c.ab
    BY DEF NoEffect
  <2> HIDE DEF e
  <2>3. Yields(c.installed, backups, {}) /\ errors' = c.errors /\ ab' = c.ab
        /\ installState' = c.state
    BY <2>1, <2>2, PerformAssigns
  <2> QED BY <1>12, <2>1, <2>3, PerformAssigns DEF Commit, c
<1> QED BY <1>1, <1>2, <1>3, <1>4, <1>5, <1>6, <1>7, <1>8, <1>9, <1>10, <1>11, <1>12
     DEF Succeed

-----------------------------------------------------------------------------
(* The other steps.                                                        *)
LEMMA InitType == Init => TypeInv
<1> SUFFICES ASSUME Init PROVE TypeInv  OBVIOUS
<1>1. installed \in Image /\ snapshot = installed  BY DeploymentAssumption DEF Init
<1>2. BlocksToBytes(installed) \in Block /\ ImageBytes(installed) \in Nat
  BY <1>1, BytesType
<1>3. << >> \in BackupArea
  <2>1. DOMAIN << >> = {} /\ << >> \in [{} -> BackupRecord]  OBVIOUS
  <2>2. IsFiniteSet({})  BY FS_EmptySet
  <2> QED BY <2>1, <2>2, BackupAreaPredicate DEF IsBackupArea
<1>4. Level(installed, << >>, 0) \in Nat  BY <1>1, <1>3, LevelType
<1>5. ab \in SlotState
  <2>1. EnableAB \in BOOLEAN  BY DeploymentAssumption
  <2> QED BY <1>2, <2>1 DEF Init, SlotState, Slot
<1>6. /\ applied \in Nat /\ installState \in InstallState /\ errors \in SUBSET Error
      /\ rollbackReady \in BOOLEAN /\ unsafe \in SUBSET Marker
      /\ package \in Nat /\ staging \in Nat /\ flash \in Nat /\ peakRam \in Nat
      /\ violations \in SUBSET Violation
  BY DEF Init, InstallState
<1>7. checkpoints \in Seq(CheckpointSet)  BY EmptySeq DEF Init
<1>8. peakStorage \in Nat /\ backups \in BackupArea  BY <1>3, <1>4 DEF Init
<1> QED BY <1>1, <1>5, <1>6, <1>7, <1>8 DEF TypeInv

LEMMA FailType ==
  ASSUME TypeInv, NEW op \in Operation, Fail(op)  PROVE TypeInv'
<1> DEFINE download == Level(installed, backups, Staged(op))
<1>1. Staged(op) \in Nat /\ DownloadBytes(op) \in Nat  BY StagedType, DownloadType
<1>2. download \in Nat  BY <1>1, LevelType DEF TypeInv
<1>3. peakStorage' = Max({peakStorage, download}) /\ package' = package + DownloadBytes(op)
  BY DEF Fail
<1> HIDE DEF download
<1>4. peakStorage' \in Nat /\ package' \in Nat
  <2>1. peakStorage \in Nat /\ package \in Nat  BY DEF TypeInv
  <2> QED BY <1>1, <1>2, <1>3, <2>1, MaxOfTwo
<1>5. violations' \in SUBSET Violation
  BY DEF Fail, Exceeded, TypeInv, Violation
<1>6. installState' \in InstallState /\ errors' \in SUBSET Error /\ staging' \in Nat
  BY <1>1 DEF Fail, TypeInv, InstallState, Error
<1> QED BY <1>4, <1>5, <1>6 DEF Fail, TypeInv, image, safety

LEMMA CompleteType ==
  ASSUME TypeInv, Complete  PROVE TypeInv'
<1> DEFINE c == Completion(installState)
           S == {peakStorage} \cup CompletionLevels(c)
<1>1. c \in CompletionSet  BY CompletionType DEF TypeInv
<1>2. CompletionLevels(c) \in SUBSET Nat /\ Bounded(CompletionLevels(c))
  BY <1>1, CompletionLevelsType
<1>3. /\ installed' = c.installed /\ installState' = c.state /\ errors' = c.errors
      /\ violations' = violations \cup c.violations /\ ab' = c.ab
      /\ peakStorage' = Max(S) /\ staging' = 0
  BY DEF Complete
<1> HIDE DEF c
<1>4. Max(S) \in Nat
  <2>1. PICK bound \in Nat : \A l \in CompletionLevels(c) : l <= bound
    BY <1>2 DEF Bounded
  <2>2. peakStorage \in Nat  BY DEF TypeInv
  <2>3. S \subseteq Nat /\ S # {} /\ bound + peakStorage \in Nat  BY <1>2, <2>2
  <2>4. \A l \in S : l <= bound + peakStorage  BY <1>2, <2>1, <2>2
  <2> HIDE DEF S
  <2> QED BY <2>3, <2>4, MaxOfBounded
<1> HIDE DEF S
<1>5. /\ installed' \in Image /\ installState' \in InstallState
      /\ errors' \in SUBSET Error /\ violations' \in SUBSET Violation
      /\ ab' \in SlotState /\ peakStorage' \in Nat /\ staging' \in Nat
  BY <1>1, <1>3, <1>4 DEF CompletionSet, TypeInv
<1> QED BY <1>5 DEF Complete, TypeInv, safety

LEMMA RollbackInstallType ==
  ASSUME TypeInv, RollbackInstall  PROVE TypeInv'
<1>1. Level(snapshot, backups, 0) \in Nat /\ peakStorage \in Nat
  BY LevelType DEF TypeInv
<1>2. peakStorage' \in Nat  BY <1>1, MaxOfTwo DEF RollbackInstall
<1> QED BY <1>2 DEF RollbackInstall, TypeInv, InstallState, safety

(* A restore keeps a prefix of the checkpoints, and at most adds its own.  *)
LEMMA KeptType ==
  ASSUME TypeInv, NEW c
  PROVE  /\ Kept(c) \in Seq(CheckpointSet)
         /\ Len(Kept(c)) \in 0 .. Len(checkpoints)
         /\ \A i \in 1 .. Len(Kept(c)) : Kept(c)[i] = checkpoints[i]
         /\ Len(Kept(c)) =
              Cardinality({i \in DOMAIN checkpoints : checkpoints[i].index <= c.index})
<1> DEFINE T == {i \in DOMAIN checkpoints : checkpoints[i].index <= c.index}
           n == Cardinality(T)
<1>1. checkpoints \in Seq(CheckpointSet) /\ Len(checkpoints) \in Nat  BY DEF TypeInv
<1>2. T \in SUBSET (1 .. Len(checkpoints))  BY <1>1
<1>3. n \in 0 .. Len(checkpoints)
  <2>1. /\ IsFiniteSet(1 .. Len(checkpoints))
        /\ Cardinality(1 .. Len(checkpoints)) = Len(checkpoints)
    BY <1>1, FS_Interval, SMTT(30)
  <2> HIDE DEF T
  <2>2. n <= Len(checkpoints) /\ n \in Nat  BY <1>2, <2>1, FS_Subset, FS_CardinalityType
  <2> QED BY <1>1, <2>2
<1>4. Kept(c) = SubSeq(checkpoints, 1, n)  BY DEF Kept
<1> HIDE DEF n
<1>5. \A i \in 1 .. n : checkpoints[i] \in CheckpointSet  BY <1>1, <1>3
<1>6. /\ SubSeq(checkpoints, 1, n) \in Seq(CheckpointSet)
      /\ Len(SubSeq(checkpoints, 1, n)) = IF 1 <= n THEN n - 1 + 1 ELSE 0
      /\ \A i \in 1 .. n - 1 + 1 : SubSeq(checkpoints, 1, n)[i] = checkpoints[1 + i - 1]
  BY <1>3, <1>5, SubSeqProperties
<1>7. Len(Kept(c)) = n  BY <1>3, <1>4, <1>6
<1>8. \A i \in 1 .. n : Kept(c)[i] = checkpoints[i]
  <2> TAKE i \in 1 .. n
  <2>1. i \in 1 .. n - 1 + 1 /\ 1 + i - 1 = i  BY <1>3
  <2> QED BY <1>4, <1>6, <2>1
<1> QED BY <1>3, <1>4, <1>6, <1>7, <1>8 DEF n

LEMMA ResumeType ==
  ASSUME TypeInv, NEW i \in DOMAIN checkpoints, Resume(i)  PROVE TypeInv'
<1> DEFINE c == checkpoints[i]
<1>1. c \in CheckpointSet  BY DEF TypeInv
<1>2. RestoreCheckpoint(c)  BY DEF Resume
<1> HIDE DEF c
<1>3. /\ c.installed \in Image /\ c.backups \in BackupArea /\ c.package \in Nat
      /\ c.flash \in Nat /\ c.index \in Nat /\ c.peakRam \in Nat /\ c.peakStorage \in Nat
      /\ c.rollbackReady \in BOOLEAN /\ c.unsafe \in SUBSET Marker
      /\ c.violations \in SUBSET Violation /\ c.errors \in SUBSET Error
  BY <1>1 DEF CheckpointSet
<1>4. peakStorage' \in Nat
  BY <1>2, <1>3, LevelType, MaxOfTwo DEF RestoreCheckpoint, RestoredPeak
<1>5. checkpoints' \in Seq(CheckpointSet)
  <2>1. Kept(c) \in Seq(CheckpointSet)  BY KeptType
  <2>2. Append(Kept(c), c) \in Seq(CheckpointSet)  BY <1>1, <2>1, AppendProperties
  <2> QED BY <1>2, <2>1, <2>2 DEF RestoreCheckpoint
<1> QED BY <1>2, <1>3, <1>4, <1>5 DEF RestoreCheckpoint, TypeInv, InstallState

LEMMA NextType == TypeInv /\ [Next]_vars => TypeInv'
<1> SUFFICES ASSUME TypeInv, [Next]_vars PROVE TypeInv'  OBVIOUS
<1>1. ASSUME NEW op \in Plan, Succeed(op) PROVE TypeInv'
  <2>1. op \in Operation  BY DeploymentAssumption
  <2> QED BY <1>1, <2>1, SucceedPerforms, PerformType DEF Performs
<1>2. ASSUME NEW op \in Plan, Fail(op) PROVE TypeInv'
  BY <1>2, DeploymentAssumption, FailType
<1>3. CASE Interrupt
  BY <1>3 DEF Interrupt, TypeInv, image, safety, cost, InstallState
<1>4. CASE Complete  BY <1>4, CompleteType
<1>5. CASE RollbackInstall  BY <1>5, RollbackInstallType
<1>6. ASSUME NEW i \in DOMAIN checkpoints, Resume(i) PROVE TypeInv'
  BY <1>6, ResumeType
<1>7. CASE UNCHANGED vars  BY <1>7 DEF vars, TypeInv
<1> QED BY <1>1, <1>2, <1>3, <1>4, <1>5, <1>6, <1>7 DEF Next, UpdateNext, Apply

LEMMA TypeInvImpliesTypeOK == TypeInv => TypeOK
<1> SUFFICES ASSUME TypeInv PROVE TypeOK  OBVIOUS
<1>1. IsBackupArea(backups)  BY BackupAreaPredicate DEF TypeInv
<1>2. checkpoints \in Seq(CheckpointSet)  BY DEF TypeInv
<1>3. \A i \in DOMAIN checkpoints : IsCheckpoint(checkpoints[i])
  <2> TAKE i \in DOMAIN checkpoints
  <2> DEFINE c == checkpoints[i]
  <2>1. c \in CheckpointSet  BY <1>2
  <2> HIDE DEF c
  <2>2. IsBackupArea(c.backups)
    <3>1. c.backups \in BackupArea  BY <2>1 DEF CheckpointSet
    <3> QED BY <3>1, BackupAreaPredicate
  <2> QED BY <2>1, <2>2 DEF IsCheckpoint, CheckpointSet, c
<1>4. checkpoints \in Seq(ToSet(checkpoints))
  <2>1. Len(checkpoints) \in Nat /\ DOMAIN checkpoints = 1 .. Len(checkpoints)  BY <1>2
  <2>2. checkpoints \in [1 .. Len(checkpoints) -> ToSet(checkpoints)]
    BY <1>2, <2>1 DEF ToSet
  <2> QED BY <2>1, <2>2
<1> QED BY <1>1, <1>3, <1>4 DEF TypeInv, TypeOK

(* Every field of the device keeps its type, whatever is applied, refused, *)
(* interrupted, rolled back, restored or completed (DeploymentState).      *)
THEOREM TypeCorrect == Spec => []TypeOK
<1>1. Init => TypeInv  BY InitType
<1>2. TypeInv /\ [Next]_vars => TypeInv'  BY NextType
<1> QED BY <1>1, <1>2, TypeInvImpliesTypeOK, PTL DEF Spec

-----------------------------------------------------------------------------
(* What Perform does, in terms of the values it assigns.                   *)
LEMMA PerformFacts ==
  ASSUME TypeInv, NEW op \in Operation, NEW e \in Effect, Bounded(e.refreshed),
         Perform(op, e)
  PROVE  /\ installed' = e.installed /\ backups' = e.backups /\ ab' = e.ab
         /\ applied' = applied + 1 /\ snapshot' = snapshot
         /\ rollbackReady' = (rollbackReady /\ e.lost = {})
         /\ unsafe' = unsafe \cup {[operation |-> applied + 1, target |-> t] : t \in e.lost}
         /\ peakRam' = Max({peakRam, e.ram})
         /\ Level(installed', backups', staging') <= peakStorage'
         /\ \E over \in SUBSET Violation :
              /\ violations \subseteq over /\ over \subseteq violations'
              /\ Exceeds(e.ram, RamBudget) => "ram" \in over
              /\ \/ checkpoints' = checkpoints
                 \/ \E c \in CheckpointSet :
                      /\ checkpoints' = Append(checkpoints, c)
                      /\ c.index = applied' /\ c.installed = installed'
                      /\ c.backups = backups' /\ c.rollbackReady = rollbackReady'
                      /\ c.unsafe = unsafe' /\ c.peakRam = peakRam' /\ c.violations = over
<1> DEFINE download == Level(installed, backups, Staged(op))
           peak     == Max({peakStorage, download} \cup e.refreshed)
           over     == violations \cup e.violations \cup
                       Exceeded({download} \cup e.checked, e.ram)
           rest     == IF Staging = "streaming" THEN 0 ELSE e.staged
           final    == Level(e.installed, e.backups, rest)
           c        == Checkpoint(applied + 1, e, peak, over)
<1>1. TypeInv'  BY PerformType
<1>2. /\ installed' = e.installed /\ backups' = e.backups /\ ab' = e.ab
      /\ applied' = applied + 1 /\ snapshot' = snapshot /\ staging' = rest
      /\ rollbackReady' = (rollbackReady /\ e.lost = {})
      /\ unsafe' = unsafe \cup {[operation |-> applied + 1, target |-> t] : t \in e.lost}
      /\ peakRam' = Max({peakRam, e.ram}) /\ peakStorage' = Max({peak, final})
      /\ violations' = over \cup Exceeded({final}, 0)
      /\ checkpoints' = IF TakesCheckpoint(op) THEN Append(checkpoints, c) ELSE checkpoints
  BY DEF Perform
<1>3. e.refreshed \in SUBSET Nat /\ e.violations \in SUBSET Violation /\ e.staged \in Nat
  BY DEF Effect
<1>4. download \in Nat  BY StagedType, LevelType DEF TypeInv
<1>5. peak \in Nat
  <2> HIDE DEF download
  <2>1. PICK bound \in Nat : \A l \in e.refreshed : l <= bound  BY DEF Bounded
  <2> DEFINE S == {peakStorage, download} \cup e.refreshed
  <2>2. peakStorage \in Nat  BY DEF TypeInv
  <2>3. S \subseteq Nat /\ S # {}  BY <1>3, <1>4, <2>2
  <2>4. bound + peakStorage + download \in Nat  BY <1>4, <2>2
  <2>5. \A l \in S : l <= bound + peakStorage + download  BY <1>3, <1>4, <2>1, <2>2
  <2> HIDE DEF S
  <2>6. Max(S) \in Nat  BY <2>3, <2>4, <2>5, MaxOfBounded
  <2> QED BY <2>6 DEF S
<1>6. final \in Nat  BY <1>1, <1>2, LevelType DEF TypeInv
<1>7. final = Level(installed', backups', staging')  BY <1>2
<1>8. over \in SUBSET Violation  BY <1>3 DEF TypeInv, Exceeded, Violation
<1>9. violations \subseteq over  OBVIOUS
<1>10. Exceeds(e.ram, RamBudget) => "ram" \in over  BY DEF Exceeded
<1>11. /\ c.index = applied' /\ c.installed = installed' /\ c.backups = backups'
       /\ c.rollbackReady = rollbackReady' /\ c.unsafe = unsafe' /\ c.peakRam = peakRam'
       /\ c.violations = over
  <2> HIDE DEF peak, over
  <2> QED BY <1>2 DEF Checkpoint
<1> HIDE DEF peak, over, final, c
<1>12. Level(installed', backups', staging') <= peakStorage'
  BY <1>2, <1>5, <1>6, <1>7, MaxOfTwo
<1>13. over \subseteq violations'  BY <1>2
<1>14. TakesCheckpoint(op) => c \in CheckpointSet
  <2> SUFFICES ASSUME TakesCheckpoint(op) PROVE c \in CheckpointSet  OBVIOUS
  <2>1. e.errors = errors'  BY DEF Perform
  <2>2. /\ applied' \in Nat /\ installed' \in Image /\ backups' \in BackupArea
        /\ package' \in Nat /\ flash' \in Nat /\ peakRam' \in Nat
        /\ rollbackReady' \in BOOLEAN /\ unsafe' \in SUBSET Marker
        /\ errors' \in SUBSET Error
    BY <1>1 DEF TypeInv
  <2>3. /\ applied + 1 \in Nat /\ e.installed \in Image /\ e.backups \in BackupArea
        /\ e.errors \in SUBSET Error
    BY <1>2, <2>1, <2>2
  <2> QED BY <1>5, <1>8, <2>2, <2>3, Zenon DEF c, Checkpoint, CheckpointSet
<1>15. \/ checkpoints' = checkpoints
       \/ c \in CheckpointSet /\ checkpoints' = Append(checkpoints, c)
  BY <1>2, <1>14
<1>16. /\ installed' = e.installed /\ backups' = e.backups /\ ab' = e.ab
       /\ applied' = applied + 1 /\ snapshot' = snapshot
       /\ rollbackReady' = (rollbackReady /\ e.lost = {})
       /\ unsafe' = unsafe \cup {[operation |-> applied + 1, target |-> t] : t \in e.lost}
       /\ peakRam' = Max({peakRam, e.ram})
  BY <1>2
<1> QED BY <1>8, <1>9, <1>10, <1>11, <1>12, <1>13, <1>15, <1>16, Zenon

-----------------------------------------------------------------------------
(* A device interrupted and restored from checkpoint i keeps the first i.  *)
LEMMA ResumeKeeps ==
  ASSUME TypeInv, CheckpointOrder, NEW i \in DOMAIN checkpoints, Resume(i)
  PROVE  /\ checkpoints' = SubSeq(checkpoints, 1, i)
         /\ Len(checkpoints') = i
         /\ \A j \in 1 .. i : checkpoints'[j] = checkpoints[j]
<1> DEFINE c == checkpoints[i]
           T == {j \in DOMAIN checkpoints : checkpoints[j].index <= c.index}
<1>1. /\ checkpoints \in Seq(CheckpointSet) /\ Len(checkpoints) \in Nat
      /\ DOMAIN checkpoints = 1 .. Len(checkpoints)
  BY DEF TypeInv
<1>2. \A j \in DOMAIN checkpoints : checkpoints[j].index \in Nat
  <2>1. \A j \in DOMAIN checkpoints : checkpoints[j] \in CheckpointSet  BY <1>1
  <2>2. \A k \in CheckpointSet : k.index \in Nat  BY DEF CheckpointSet
  <2> QED BY <2>1, <2>2
<1>3. T = 1 .. i
  <2>1. \A j \in 1 .. Len(checkpoints) : checkpoints[j].index <= checkpoints[i].index <=> j <= i
    BY <1>1, <1>2 DEF CheckpointOrder
  <2> QED BY <1>1, <2>1
<1>4. Cardinality(T) = i
  <2>1. i \in Nat /\ i >= 1  BY <1>1
  <2>2. Cardinality(1 .. i) = i  BY <2>1, FS_Interval
  <2> QED BY <1>3, <2>2
<1>5. Kept(c) = SubSeq(checkpoints, 1, i)  BY <1>4 DEF Kept
<1>6. Len(Kept(c)) = i /\ \A j \in 1 .. i : Kept(c)[j] = checkpoints[j]
  BY <1>4, KeptType
<1>7. i \in DOMAIN Kept(c) /\ Kept(c)[i].index = c.index
  <2>1. Kept(c) \in Seq(CheckpointSet)  BY KeptType
  <2>2. i \in 1 .. i  BY <1>1
  <2> QED BY <1>6, <2>1, <2>2
<1>8. RestoreCheckpoint(c)  BY DEF Resume
<1> HIDE DEF c
<1>9. checkpoints' = Kept(c)  BY <1>7, <1>8 DEF RestoreCheckpoint
<1> QED BY <1>5, <1>6, <1>9

(* The checkpoints after a step: the same, one more, or a prefix.          *)
LEMMA AppendedCheckpoint ==
  ASSUME TypeInv, NEW c \in CheckpointSet, checkpoints' = Append(checkpoints, c)
  PROVE  /\ DOMAIN checkpoints = 1 .. Len(checkpoints) /\ Len(checkpoints) \in Nat
         /\ DOMAIN checkpoints' = 1 .. Len(checkpoints) + 1
         /\ \A i \in 1 .. Len(checkpoints) : checkpoints'[i] = checkpoints[i]
         /\ checkpoints'[Len(checkpoints) + 1] = c
<1>1. checkpoints \in Seq(CheckpointSet)  BY DEF TypeInv
<1> QED BY <1>1, AppendProperties

(* Checkpoints are numbered in strictly increasing order and none is ahead *)
(* of the operations applied.                                              *)
LEMMA OrderStep ==
  ASSUME TypeInv, CheckpointOrder, [Next]_vars  PROVE CheckpointOrder'
<1>0. /\ applied \in Nat /\ checkpoints \in Seq(CheckpointSet)
      /\ \A i \in DOMAIN checkpoints : checkpoints[i].index \in Nat
  <2>1. applied \in Nat /\ checkpoints \in Seq(CheckpointSet)  BY DEF TypeInv
  <2>2. \A i \in DOMAIN checkpoints : checkpoints[i] \in CheckpointSet  BY <2>1
  <2>3. \A k \in CheckpointSet : k.index \in Nat  BY DEF CheckpointSet
  <2> QED BY <2>1, <2>2, <2>3
<1>1. ASSUME NEW op \in Plan, Succeed(op) PROVE CheckpointOrder'
  <2>1. op \in Operation  BY DeploymentAssumption
  <2>2. PICK e \in Effect : Bounded(e.refreshed) /\ Perform(op, e)
    BY <1>1, <2>1, SucceedPerforms DEF Performs
  <2>3. applied' = applied + 1  BY <2>1, <2>2, PerformFacts
  <2>4. \/ checkpoints' = checkpoints
        \/ \E c \in CheckpointSet : /\ checkpoints' = Append(checkpoints, c)
                                    /\ c.index = applied'
    BY <2>1, <2>2, PerformFacts, Zenon
  <2>5. CASE checkpoints' = checkpoints
    BY <1>0, <2>3, <2>5 DEF CheckpointOrder
  <2>6. ASSUME NEW c \in CheckpointSet, checkpoints' = Append(checkpoints, c),
               c.index = applied'
        PROVE  CheckpointOrder'
    <3>1. /\ DOMAIN checkpoints = 1 .. Len(checkpoints) /\ Len(checkpoints) \in Nat
          /\ DOMAIN checkpoints' = 1 .. Len(checkpoints) + 1
          /\ \A i \in 1 .. Len(checkpoints) : checkpoints'[i] = checkpoints[i]
          /\ checkpoints'[Len(checkpoints) + 1] = c
      BY <2>6, AppendedCheckpoint
    <3>2. \A i \in DOMAIN checkpoints' : checkpoints'[i].index <= applied'
      BY <1>0, <2>3, <2>6, <3>1 DEF CheckpointOrder
    <3>3. \A i, j \in DOMAIN checkpoints' :
            i < j => checkpoints'[i].index < checkpoints'[j].index
      <4> SUFFICES ASSUME NEW i \in DOMAIN checkpoints', NEW j \in DOMAIN checkpoints', i < j
                   PROVE  checkpoints'[i].index < checkpoints'[j].index
        OBVIOUS
      <4>1. i \in 1 .. Len(checkpoints)  BY <3>1
      <4>2. CASE j = Len(checkpoints) + 1
        BY <1>0, <2>3, <2>6, <3>1, <4>1, <4>2 DEF CheckpointOrder
      <4>3. CASE j # Len(checkpoints) + 1
        <5>1. j \in 1 .. Len(checkpoints)  BY <3>1, <4>3
        <5> QED BY <3>1, <4>1, <5>1 DEF CheckpointOrder
      <4> QED BY <4>2, <4>3
    <3> QED BY <3>2, <3>3 DEF CheckpointOrder
  <2> QED BY <2>4, <2>5, <2>6
<1>2. ASSUME NEW op \in Plan, Fail(op) PROVE CheckpointOrder'
  BY <1>2 DEF Fail, CheckpointOrder
<1>3. CASE Interrupt  BY <1>3 DEF Interrupt, CheckpointOrder
<1>4. CASE Complete  BY <1>4 DEF Complete, CheckpointOrder
<1>5. CASE RollbackInstall  BY <1>5 DEF RollbackInstall, CheckpointOrder
<1>6. ASSUME NEW i \in DOMAIN checkpoints, Resume(i) PROVE CheckpointOrder'
  <2>1. /\ Len(checkpoints') = i /\ \A j \in 1 .. i : checkpoints'[j] = checkpoints[j]
    BY <1>6, ResumeKeeps
  <2>2. applied' = checkpoints[i].index  BY <1>6 DEF Resume, RestoreCheckpoint
  <2>3. TypeInv'  BY <1>6, ResumeType
  <2>4. DOMAIN checkpoints' = 1 .. i  BY <2>1, <2>3 DEF TypeInv
  <2>5. DOMAIN checkpoints = 1 .. Len(checkpoints) /\ Len(checkpoints) \in Nat  BY <1>0
  <2>6. \A j \in 1 .. i : j \in DOMAIN checkpoints /\ checkpoints[j].index <= checkpoints[i].index
    <3> SUFFICES ASSUME NEW j \in 1 .. i
                 PROVE  /\ j \in DOMAIN checkpoints
                        /\ checkpoints[j].index <= checkpoints[i].index
      OBVIOUS
    <3>1. j \in DOMAIN checkpoints  BY <2>5
    <3>2. CASE j = i  BY <1>0, <3>2
    <3>3. CASE j # i
      <4>1. j < i  BY <2>5, <3>3
      <4>2. checkpoints[j].index < checkpoints[i].index  BY <3>1, <4>1 DEF CheckpointOrder
      <4> QED BY <1>0, <3>1, <4>2
    <3> QED BY <3>1, <3>2, <3>3
  <2>7. \A j \in DOMAIN checkpoints' : checkpoints'[j].index <= applied'
    BY <2>1, <2>2, <2>4, <2>6
  <2>8. \A j, k \in DOMAIN checkpoints' :
          j < k => checkpoints'[j].index < checkpoints'[k].index
    BY <2>1, <2>4, <2>6 DEF CheckpointOrder
  <2> QED BY <2>7, <2>8 DEF CheckpointOrder
<1>7. CASE UNCHANGED vars  BY <1>7 DEF vars, CheckpointOrder
<1> QED BY <1>1, <1>2, <1>3, <1>4, <1>5, <1>6, <1>7 DEF Next, UpdateNext, Apply

(* Checkpoints are taken, kept and restored in the order of the operations *)
(* they follow (_create_checkpoint, _maybe_checkpoint, restore_checkpoint).*)
THEOREM CheckpointsOrdered == Spec => []CheckpointOrder
<1>1. Init => TypeInv /\ CheckpointOrder
  BY InitType DEF Init, CheckpointOrder
<1>2. TypeInv /\ CheckpointOrder /\ [Next]_vars => TypeInv' /\ CheckpointOrder'
  BY NextType, OrderStep
<1> QED BY <1>1, <1>2, PTL DEF Spec

-----------------------------------------------------------------------------
(* A checkpoint remembers a RAM budget that was exceeded before it.        *)
RamAccounted ==
  /\ RamBudgetReported
  /\ \A i \in DOMAIN checkpoints :
       Exceeds(checkpoints[i].peakRam, RamBudget) => "ram" \in checkpoints[i].violations

(* What an operation that succeeds does to the reports and to the list of  *)
(* checkpoints.                                                            *)
LEMMA SucceedReports ==
  ASSUME TypeInv, NEW op \in Plan, Succeed(op)
  PROVE  /\ PeakCoversStorage'
         /\ snapshot' = snapshot
         /\ Accounted(rollbackReady, unsafe, applied) =>
              Accounted(rollbackReady, unsafe, applied)'
         /\ RamBudgetReported => RamBudgetReported'
         /\ \A i \in DOMAIN checkpoints' :
              \/ i \in DOMAIN checkpoints /\ checkpoints'[i] = checkpoints[i]
              \/ /\ checkpoints'[i].rollbackReady = rollbackReady'
                 /\ checkpoints'[i].unsafe = unsafe'
                 /\ checkpoints'[i].index = applied'
                 /\ RamBudgetReported =>
                      (Exceeds(checkpoints'[i].peakRam, RamBudget) =>
                         "ram" \in checkpoints'[i].violations)
<1>1. op \in Operation  BY DeploymentAssumption
<1>2. PICK e \in Effect : Bounded(e.refreshed) /\ Perform(op, e)
  BY <1>1, SucceedPerforms DEF Performs
<1>3. /\ snapshot' = snapshot /\ applied' = applied + 1
      /\ rollbackReady' = (rollbackReady /\ e.lost = {})
      /\ unsafe' = unsafe \cup {[operation |-> applied + 1, target |-> t] : t \in e.lost}
      /\ peakRam' = Max({peakRam, e.ram})
      /\ Level(installed', backups', staging') <= peakStorage'
  BY <1>1, <1>2, PerformFacts
<1>4. PICK over \in SUBSET Violation :
        /\ violations \subseteq over /\ over \subseteq violations'
        /\ Exceeds(e.ram, RamBudget) => "ram" \in over
        /\ \/ checkpoints' = checkpoints
           \/ \E c \in CheckpointSet :
                /\ checkpoints' = Append(checkpoints, c) /\ c.index = applied'
                /\ c.rollbackReady = rollbackReady' /\ c.unsafe = unsafe'
                /\ c.peakRam = peakRam' /\ c.violations = over
  BY <1>1, <1>2, PerformFacts
<1>5. ASSUME Accounted(rollbackReady, unsafe, applied)
      PROVE  Accounted(rollbackReady, unsafe, applied)'
  <2> DEFINE new == {[operation |-> applied + 1, target |-> t] : t \in e.lost}
  <2>1. new = {} <=> e.lost = {}  OBVIOUS
  <2>2. unsafe' = {} <=> unsafe = {} /\ e.lost = {}  BY <1>3, <2>1
  <2>3. rollbackReady' <=> rollbackReady /\ e.lost = {}  BY <1>3
  <2>4. rollbackReady <=> unsafe = {}  BY <1>5 DEF Accounted
  <2>5. applied \in Nat  BY DEF TypeInv
  <2>6. \A r \in unsafe : r.operation \in 1 .. applied /\ r.target < Len(snapshot)
    BY <1>5 DEF Accounted
  <2>7. \A r \in unsafe : r.operation \in 1 .. applied + 1  BY <2>5, <2>6
  <2>8. \A r \in new : r.operation \in 1 .. applied + 1 /\ r.target < Len(snapshot)
    <3>1. \A t \in e.lost : t < Len(snapshot)  BY DEF Effect, OldIndex
    <3> QED BY <2>5, <3>1
  <2>9. unsafe' = unsafe \cup new  BY <1>3
  <2> HIDE DEF new
  <2>10. \A r \in unsafe' : r.operation \in 1 .. applied' /\ r.target < Len(snapshot')
    BY <1>3, <2>6, <2>7, <2>8, <2>9
  <2>11. rollbackReady' <=> unsafe' = {}  BY <2>2, <2>3, <2>4, Zenon
  <2> QED BY <2>10, <2>11 DEF Accounted
<1>6. peakRam' \in {peakRam, e.ram}
  <2>1. peakRam \in Nat  BY DEF TypeInv
  <2>2. e.ram \in Nat  BY DEF Effect
  <2>3. {peakRam, e.ram} \subseteq Nat /\ {peakRam, e.ram} # {}  BY <2>1, <2>2
  <2>4. peakRam + e.ram \in Nat /\ \A y \in {peakRam, e.ram} : y <= peakRam + e.ram
    BY <2>1, <2>2
  <2> QED BY <1>3, <2>3, <2>4, MaxOfBounded
<1>7. RamBudgetReported => (Exceeds(peakRam', RamBudget) => "ram" \in over)
  BY <1>4, <1>6 DEF RamBudgetReported
<1>8. RamBudgetReported => RamBudgetReported'
  BY <1>4, <1>7 DEF RamBudgetReported
<1>9. \A i \in DOMAIN checkpoints' :
        \/ i \in DOMAIN checkpoints /\ checkpoints'[i] = checkpoints[i]
        \/ /\ checkpoints'[i].rollbackReady = rollbackReady'
           /\ checkpoints'[i].unsafe = unsafe'
           /\ checkpoints'[i].index = applied'
           /\ checkpoints'[i].peakRam = peakRam' /\ checkpoints'[i].violations = over
  <2>1. CASE checkpoints' = checkpoints  BY <2>1
  <2>2. ASSUME NEW c \in CheckpointSet, checkpoints' = Append(checkpoints, c),
               c.rollbackReady = rollbackReady', c.unsafe = unsafe', c.index = applied',
               c.peakRam = peakRam', c.violations = over,
               NEW i \in DOMAIN checkpoints'
        PROVE  \/ i \in DOMAIN checkpoints /\ checkpoints'[i] = checkpoints[i]
               \/ /\ checkpoints'[i].rollbackReady = rollbackReady'
                  /\ checkpoints'[i].unsafe = unsafe'
                  /\ checkpoints'[i].index = applied'
                  /\ checkpoints'[i].peakRam = peakRam'
                  /\ checkpoints'[i].violations = over
    <3>1. /\ DOMAIN checkpoints = 1 .. Len(checkpoints) /\ Len(checkpoints) \in Nat
          /\ DOMAIN checkpoints' = 1 .. Len(checkpoints) + 1
          /\ \A k \in 1 .. Len(checkpoints) : checkpoints'[k] = checkpoints[k]
          /\ checkpoints'[Len(checkpoints) + 1] = c
      BY <2>2, AppendedCheckpoint
    <3>2. i \in 1 .. Len(checkpoints) \/ i = Len(checkpoints) + 1  BY <2>2, <3>1
    <3> QED BY <2>2, <3>1, <3>2, Zenon
  <2> QED BY <1>4, <2>1, <2>2, Zenon
<1>10. PeakCoversStorage'  BY <1>3 DEF PeakCoversStorage
<1> QED BY <1>3, <1>5, <1>7, <1>8, <1>9, <1>10

(* A restored device holds what the checkpoint holds, and its checkpoints  *)
(* are among the old ones.                                                 *)
LEMMA ResumeReports ==
  ASSUME TypeInv, CheckpointOrder, NEW i \in DOMAIN checkpoints, Resume(i)
  PROVE  /\ snapshot' = snapshot /\ applied' = checkpoints[i].index
         /\ rollbackReady' = checkpoints[i].rollbackReady
         /\ unsafe' = checkpoints[i].unsafe
         /\ peakRam' = checkpoints[i].peakRam
         /\ violations' = checkpoints[i].violations
         /\ PeakCoversStorage'
         /\ \A j \in DOMAIN checkpoints' :
              j \in DOMAIN checkpoints /\ checkpoints'[j] = checkpoints[j]
<1>1. checkpoints[i] \in CheckpointSet /\ checkpoints \in Seq(CheckpointSet)  BY DEF TypeInv
<1> DEFINE c == checkpoints[i]
<1>2. RestoreCheckpoint(c)  BY DEF Resume
<1>3. Len(checkpoints') = i /\ \A j \in 1 .. i : checkpoints'[j] = checkpoints[j]
  BY ResumeKeeps
<1>4. DOMAIN checkpoints' = 1 .. i
  <2>1. TypeInv'  BY ResumeType
  <2> QED BY <1>3, <2>1 DEF TypeInv
<1>5. \A j \in 1 .. i : j \in DOMAIN checkpoints  BY <1>1
<1>6. PeakCoversStorage'
  <2>1. c.installed \in Image /\ c.backups \in BackupArea /\ c.peakStorage \in Nat
    BY <1>1 DEF CheckpointSet
  <2>2. Level(c.installed, c.backups, 0) \in Nat  BY <2>1, LevelType
  <2>3. /\ installed' = c.installed /\ backups' = c.backups /\ staging' = 0
        /\ peakStorage' = Max({c.peakStorage, Level(c.installed, c.backups, 0)})
    BY <1>2 DEF RestoreCheckpoint, RestoredPeak
  <2> QED BY <2>1, <2>2, <2>3, MaxOfTwo DEF PeakCoversStorage
<1>7. /\ snapshot' = snapshot /\ applied' = c.index
      /\ rollbackReady' = c.rollbackReady /\ unsafe' = c.unsafe
      /\ peakRam' = c.peakRam /\ violations' = c.violations
  BY <1>2 DEF RestoreCheckpoint
<1> QED BY <1>3, <1>4, <1>5, <1>6, <1>7

LEMMA ReportsStep ==
  ASSUME TypeInv, CheckpointOrder, OverwritesAccounted, RamAccounted,
         PeakCoversStorage, [Next]_vars
  PROVE  OverwritesAccounted' /\ RamAccounted' /\ PeakCoversStorage'
<1>1. ASSUME NEW op \in Plan, Succeed(op)
      PROVE  OverwritesAccounted' /\ RamAccounted' /\ PeakCoversStorage'
  <2>1. PeakCoversStorage'  BY <1>1, SucceedReports
  <2>2. OverwritesAccounted'
    <3>1. Accounted(rollbackReady, unsafe, applied)'  BY <1>1, SucceedReports DEF OverwritesAccounted
    <3>2. ASSUME NEW i \in DOMAIN checkpoints'
          PROVE  Accounted(checkpoints[i].rollbackReady, checkpoints[i].unsafe,
                           checkpoints[i].index)'
      <4>1. CASE i \in DOMAIN checkpoints /\ checkpoints'[i] = checkpoints[i]
        BY <1>1, <4>1, SucceedReports DEF OverwritesAccounted, Accounted
      <4>2. CASE ~(i \in DOMAIN checkpoints /\ checkpoints'[i] = checkpoints[i])
        BY <1>1, <3>1, <4>2, SucceedReports DEF Accounted
      <4> QED BY <4>1, <4>2
    <3> QED BY <3>1, <3>2 DEF OverwritesAccounted
  <2>3. RamAccounted'  BY <1>1, SucceedReports DEF RamAccounted
  <2> QED BY <2>1, <2>2, <2>3
<1>2. ASSUME NEW op \in Plan, Fail(op)
      PROVE  OverwritesAccounted' /\ RamAccounted' /\ PeakCoversStorage'
  <2>1. op \in Operation  BY DeploymentAssumption
  <2>2. /\ UNCHANGED <<snapshot, applied, installed, backups, rollbackReady, unsafe, checkpoints, peakRam>>
        /\ staging' = Staged(op) /\ violations \subseteq violations'
        /\ peakStorage' = Max({peakStorage, Level(installed, backups, Staged(op))})
    BY <1>2 DEF Fail, image, safety
  <2>3. PeakCoversStorage'
    <3>1. Level(installed, backups, Staged(op)) \in Nat /\ peakStorage \in Nat
      BY <2>1, StagedType, LevelType DEF TypeInv
    <3> QED BY <2>2, <3>1, MaxOfTwo DEF PeakCoversStorage
  <2> QED BY <2>2, <2>3 DEF OverwritesAccounted, Accounted, RamAccounted, RamBudgetReported
<1>3. CASE Interrupt
  BY <1>3 DEF Interrupt, image, safety, cost, OverwritesAccounted, Accounted, RamAccounted,
              RamBudgetReported, PeakCoversStorage
<1>4. CASE Complete
  <2> DEFINE c == Completion(installState)
  <2>1. /\ UNCHANGED <<snapshot, applied, backups, rollbackReady, unsafe, checkpoints, peakRam>>
        /\ installed' = c.installed /\ staging' = 0 /\ violations \subseteq violations'
        /\ peakStorage' = Max({peakStorage} \cup CompletionLevels(c))
    BY <1>4 DEF Complete, safety
  <2>2. PeakCoversStorage'
    <3>1. c.installed \in Image
      <4>1. c \in CompletionSet  BY CompletionType DEF TypeInv
      <4> HIDE DEF c
      <4> QED BY <4>1 DEF CompletionSet
    <3> HIDE DEF c
    <3>2. /\ Level(installed, backups, 0) \in Nat /\ Level(c.installed, backups, 0) \in Nat
          /\ peakStorage \in Nat
      BY <3>1, LevelType DEF TypeInv
    <3> DEFINE a == Level(installed, backups, 0)
               b == Level(c.installed, backups, 0)
               S == {peakStorage} \cup {a, b}
    <3>3. S \subseteq Nat /\ S # {} /\ a + b + peakStorage \in Nat
          /\ b \in S /\ \A y \in S : y <= a + b + peakStorage
      <4> HIDE DEF a, b
      <4> QED BY <3>2 DEF a, b
    <3>4. Max(S) >= b  
      <4> HIDE DEF a, b, S
      <4> QED BY <3>3, MaxOfBounded
    <3>5. Max(S) \in Nat  
      <4> HIDE DEF a, b, S
      <4> QED BY <3>3, MaxOfBounded
    <3> QED BY <2>1, <3>2, <3>4, <3>5 DEF PeakCoversStorage, CompletionLevels
  <2> QED BY <2>1, <2>2 DEF OverwritesAccounted, Accounted, RamAccounted, RamBudgetReported
<1>5. CASE RollbackInstall
  <2>1. /\ UNCHANGED <<snapshot, applied, backups, rollbackReady, unsafe, checkpoints, peakRam, violations>>
        /\ installed' = snapshot /\ staging' = 0
        /\ peakStorage' = Max({peakStorage, Level(snapshot, backups, 0)})
    BY <1>5 DEF RollbackInstall, safety
  <2>2. Level(snapshot, backups, 0) \in Nat /\ peakStorage \in Nat
    BY LevelType DEF TypeInv
  <2>3. PeakCoversStorage'  BY <2>1, <2>2, MaxOfTwo DEF PeakCoversStorage
  <2> QED BY <2>1, <2>3 DEF OverwritesAccounted, Accounted, RamAccounted, RamBudgetReported
<1>6. ASSUME NEW i \in DOMAIN checkpoints, Resume(i)
      PROVE  OverwritesAccounted' /\ RamAccounted' /\ PeakCoversStorage'
  <2>1. PeakCoversStorage'  BY <1>6, ResumeReports
  <2>2. OverwritesAccounted'  BY <1>6, ResumeReports DEF OverwritesAccounted, Accounted
  <2>3. RamAccounted'  BY <1>6, ResumeReports DEF RamAccounted, RamBudgetReported
  <2> QED BY <2>1, <2>2, <2>3
<1>7. CASE UNCHANGED vars
  BY <1>7 DEF vars, OverwritesAccounted, Accounted, RamAccounted, RamBudgetReported, PeakCoversStorage
<1> QED BY <1>1, <1>2, <1>3, <1>4, <1>5, <1>6, <1>7 DEF Next, UpdateNext, Apply

LEMMA ReportsInit == Init => OverwritesAccounted /\ RamAccounted /\ PeakCoversStorage
<1> SUFFICES ASSUME Init PROVE OverwritesAccounted /\ RamAccounted /\ PeakCoversStorage
  OBVIOUS
<1>1. TypeInv  BY InitType
<1>2. Level(installed, backups, 0) \in Nat  BY <1>1, LevelType DEF TypeInv
<1>3. PeakCoversStorage  BY <1>2 DEF Init, PeakCoversStorage
<1>4. OverwritesAccounted  BY DEF Init, OverwritesAccounted, Accounted
<1>5. ~Exceeds(0, RamBudget)  BY DeploymentAssumption DEF Exceeds
<1>6. RamAccounted  BY <1>5 DEF Init, RamAccounted, RamBudgetReported
<1> QED BY <1>3, <1>4, <1>6

(* The three properties hold together: a restore brings back the marks,    *)
(* the peak and the violations of a checkpoint, and it keeps checkpoints   *)
(* known to be right because they are in order (restore_checkpoint).       *)
LEMMA ReportsCorrect ==
  Spec => [](OverwritesAccounted /\ PeakCoversStorage /\ RamBudgetReported)
<1> DEFINE Inv == TypeInv /\ CheckpointOrder /\ OverwritesAccounted
                   /\ RamAccounted /\ PeakCoversStorage
<1>1. Init => Inv
  BY InitType, ReportsInit DEF Init, CheckpointOrder
<1>2. Inv /\ [Next]_vars => Inv'
  BY NextType, OrderStep, ReportsStep
<1>3. Inv => OverwritesAccounted /\ PeakCoversStorage /\ RamBudgetReported
  BY DEF RamAccounted
<1> QED BY <1>1, <1>2, <1>3, PTL DEF Spec

(* The state and every checkpoint report rollback_ready exactly when no    *)
(* unsafe overwrite is recorded, and record none of an operation that is   *)
(* not applied or of a block that was never there (_mark_overwrite_if_     *)
(* unprotected).                                                           *)
THEOREM OverwritesCorrect == Spec => []OverwritesAccounted
BY ReportsCorrect, PTL

(* The reported peak of the storage is never below what is stored, at any  *)
(* point of any history (_refresh_peak_storage).                           *)
THEOREM PeakCorrect == Spec => []PeakCoversStorage
BY ReportsCorrect, PTL

(* A peak of RAM above the budget is a reported violation, although a      *)
(* restore replaces both (_check_budgets).                                 *)
THEOREM RamCorrect == Spec => []RamBudgetReported
BY ReportsCorrect, PTL

-----------------------------------------------------------------------------
LEMMA PrefixOfItself ==
  ASSUME NEW S, NEW s \in Seq(S)  PROVE IsPrefix(s, s)
BY DEF IsPrefix

LEMMA PrefixOfAppended ==
  ASSUME NEW S, NEW s \in Seq(S), NEW x \in S  PROVE IsPrefix(s, Append(s, x))
<1>1. Len(s) \in Nat /\ Len(Append(s, x)) = Len(s) + 1 /\ Append(s, x) \in Seq(S)
  BY AppendProperties
<1>2. \A i \in 1 .. Len(s) : s[i] = Append(s, x)[i]  BY AppendProperties
<1>3. SubSeq(s, 1, Len(s)) = SubSeq(Append(s, x), 1, Len(s))
  BY <1>1, <1>2
<1> QED BY <1>1, <1>3 DEF IsPrefix

LEMMA PrefixCut ==
  ASSUME NEW S, NEW s \in Seq(S), NEW t \in Seq(S), Len(t) <= Len(s),
         \A i \in 1 .. Len(t) : t[i] = s[i]
  PROVE  IsPrefix(t, s)
<1>1. SubSeq(t, 1, Len(t)) = SubSeq(s, 1, Len(t))  OBVIOUS
<1> QED BY <1>1 DEF IsPrefix

(* The list of checkpoints grows, or a restore cuts it back to the         *)
(* checkpoint that the device is then exactly at, so that a second power   *)
(* loss comes back to the same place (restore_checkpoint).                 *)
THEOREM CheckpointsKept == Spec => CheckpointsSurvive
<1> DEFINE Survive ==
      \/ IsPrefix(checkpoints, checkpoints')
      \/ /\ checkpoints' # << >> /\ IsPrefix(checkpoints', checkpoints)
         /\ LET last == checkpoints'[Len(checkpoints')] IN
            /\ applied' = last.index /\ installed' = last.installed
            /\ backups' = last.backups /\ rollbackReady' = last.rollbackReady
<1>1. TypeInv /\ CheckpointOrder /\ [Next]_vars => Survive
  <2> SUFFICES ASSUME TypeInv, CheckpointOrder, [Next]_vars  PROVE Survive  OBVIOUS
  <2>1. checkpoints \in Seq(CheckpointSet)  BY DEF TypeInv
  <2>2. ASSUME checkpoints' = checkpoints  PROVE Survive
    BY <2>1, <2>2, PrefixOfItself
  <2>3. ASSUME NEW op \in Plan, Succeed(op)  PROVE Survive
    <3>1. op \in Operation  BY DeploymentAssumption
    <3>2. PICK e \in Effect : Bounded(e.refreshed) /\ Perform(op, e)
      BY <2>3, <3>1, SucceedPerforms DEF Performs
    <3>3. \/ checkpoints' = checkpoints
          \/ \E c \in CheckpointSet : checkpoints' = Append(checkpoints, c)
      BY <3>1, <3>2, PerformFacts, Zenon
    <3>4. ASSUME NEW c \in CheckpointSet, checkpoints' = Append(checkpoints, c)
          PROVE  Survive
      BY <2>1, <3>4, PrefixOfAppended
    <3> QED BY <2>2, <3>3, <3>4
  <2>4. ASSUME NEW i \in DOMAIN checkpoints, Resume(i)  PROVE Survive
    <3>1. Len(checkpoints') = i /\ \A j \in 1 .. i : checkpoints'[j] = checkpoints[j]
      BY <2>4, ResumeKeeps
    <3>2. checkpoints' \in Seq(CheckpointSet)  BY <2>4, ResumeType DEF TypeInv
    <3>3. i \in 1 .. Len(checkpoints) /\ i \in 1 .. i  BY <2>1
    <3>4. IsPrefix(checkpoints', checkpoints)
      BY <2>1, <3>1, <3>2, <3>3, PrefixCut
    <3>5. checkpoints' # << >>  BY <3>1, <3>3
    <3>6. checkpoints'[Len(checkpoints')] = checkpoints[i]  BY <3>1, <3>3
    <3>7. /\ applied' = checkpoints[i].index /\ installed' = checkpoints[i].installed
          /\ backups' = checkpoints[i].backups
          /\ rollbackReady' = checkpoints[i].rollbackReady
      BY <2>4 DEF Resume, RestoreCheckpoint
    <3> QED BY <3>4, <3>5, <3>6, <3>7
  <2>5. ASSUME \/ \E op \in Plan : Fail(op)
               \/ Interrupt \/ Complete \/ RollbackInstall \/ UNCHANGED vars
        PROVE  checkpoints' = checkpoints
    BY <2>5 DEF Fail, Interrupt, Complete, RollbackInstall, vars
  <2> QED BY <2>2, <2>3, <2>4, <2>5 DEF Next, UpdateNext, Apply
<1>2. TypeInv /\ CheckpointOrder /\ [Next]_vars => [Survive]_vars  BY <1>1
<1>3. Init => TypeInv /\ CheckpointOrder
  BY InitType DEF Init, CheckpointOrder
<1>4. TypeInv /\ CheckpointOrder /\ [Next]_vars => TypeInv' /\ CheckpointOrder'
  BY NextType, OrderStep
<1>5. CheckpointsSurvive <=> [][Survive]_vars  BY DEF CheckpointsSurvive
<1> QED BY <1>2, <1>3, <1>4, <1>5, PTL DEF Spec

-----------------------------------------------------------------------------
(* ReadyMeansProtected is about plans that move no blocks and whose        *)
(* backups tell the index they were read from by their name, which is how  *)
(* the environment names them (_default_backup_id).                        *)
InPlacePlan ==
  /\ \A op \in Plan : op.op # "delete" /\ (op.op = "truncate" => op.unit = "blocks")
  /\ \A p, q \in Plan :
       p.op = "backup" /\ q.op = "backup" /\ p.id = q.id => p.source = q.source

Protected(blocks, area) ==
  \A i \in DOMAIN snapshot :
    \/ i \in DOMAIN blocks /\ blocks[i] = snapshot[i]
    \/ \E id \in DOMAIN area : area[id].index = i - 1

(* A name that is given again protects the index it protected before.      *)
NamesTellIndex(area) ==
  \A id \in DOMAIN area : \A op \in Plan :
    op.op = "backup" /\ op.id = id => area[id].index = op.source

(* The invariant holds for the device and for every checkpoint that may    *)
(* replace it.                                                             *)
KeptSafe(ready, blocks, area) ==
  NamesTellIndex(area) /\ (RequireBackup /\ ready => Protected(blocks, area))

ProtectionInv ==
  /\ KeptSafe(rollbackReady, installed, backups)
  /\ \A i \in DOMAIN checkpoints :
       KeptSafe(checkpoints[i].rollbackReady, checkpoints[i].installed,
                checkpoints[i].backups)

LEMMA SnapshotProtected ==
  ASSUME NEW area  PROVE Protected(snapshot, area)
BY DEF Protected

LEMMA OldBlocks ==
  ASSUME TypeInv
  PROVE  /\ DOMAIN snapshot = 1 .. Len(snapshot) /\ Len(snapshot) \in Nat
         /\ DOMAIN installed = 1 .. Len(installed) /\ Len(installed) \in Nat
BY DEF TypeInv, Image

(* A write that loses nothing keeps the old image protected.               *)
LEMMA WriteProtects ==
  ASSUME TypeInv, RequireBackup, Protected(installed, backups),
         NEW target \in Nat, NEW block, Overwritten(target, block) = {}
  PROVE  Protected(WriteBlock(installed, target, block), backups)
<1> DEFINE w == WriteBlock(installed, target, block)
<1> SUFFICES ASSUME NEW i \in DOMAIN snapshot,
                    \A id \in DOMAIN backups : backups[id].index # i - 1
             PROVE  i \in DOMAIN w /\ w[i] = snapshot[i]
  BY DEF Protected
<1>1. i \in DOMAIN installed /\ installed[i] = snapshot[i]  BY DEF Protected
<1>2. i \in 1 .. Len(snapshot) /\ Len(snapshot) \in Nat  BY OldBlocks
<1>3. installed \in Image  BY DEF TypeInv
<1>4. CASE i = target + 1
  <2>1. target < Len(snapshot) /\ i - 1 = target  BY <1>2, <1>4
  <2>2. Unprotected(target)  BY <2>1 DEF Unprotected
  <2>3. block = snapshot[i]  BY <1>4, <2>2 DEF Overwritten
  <2> QED BY <1>3, <1>4, <2>3, WriteBlockElements
<1>5. CASE i # target + 1
  BY <1>1, <1>3, <1>5, WriteBlockElements
<1> QED BY <1>4, <1>5

(* So does appending behind the image, whatever is behind it being saved.  *)
LEMMA AppendProtects ==
  ASSUME TypeInv, Protected(installed, backups), NEW block
  PROVE  Protected(WriteBlock(installed, Len(installed), block), backups)
<1>1. installed \in Image  BY DEF TypeInv
<1>2. \A i \in DOMAIN installed : i # Len(installed) + 1  BY OldBlocks
<1> QED BY <1>1, <1>2, OldBlocks, WriteBlockElements DEF Protected

(* A saved block goes back to an index that a backup protects.             *)
LEMMA RestoreBlockProtects ==
  ASSUME TypeInv, Protected(installed, backups), NEW id \in DOMAIN backups
  PROVE  Protected(WriteBlock(installed, backups[id].index, backups[id].block), backups)
<1>1. installed \in Image /\ backups[id].index \in Nat  BY BackupTypes DEF TypeInv
<1> DEFINE w == WriteBlock(installed, backups[id].index, backups[id].block)
<1> SUFFICES ASSUME NEW i \in DOMAIN snapshot,
                    \A name \in DOMAIN backups : backups[name].index # i - 1
             PROVE  i \in DOMAIN w /\ w[i] = snapshot[i]
  BY DEF Protected
<1>2. i \in DOMAIN installed /\ installed[i] = snapshot[i]  BY DEF Protected
<1>3. i \in Nat  BY OldBlocks
<1>4. i # backups[id].index + 1  BY <1>1, <1>3
<1> QED BY <1>1, <1>2, <1>4, WriteBlockElements

(* A cut at a block keeps the blocks before it and loses none after it.    *)
LEMMA TakeProtects ==
  ASSUME TypeInv, RequireBackup, Protected(installed, backups), NEW size \in Nat,
         Removed(size .. Len(installed) - 1) = {}
  PROVE  Protected(Take(installed, size), backups)
<1> SUFFICES ASSUME NEW i \in DOMAIN snapshot,
                    \A id \in DOMAIN backups : backups[id].index # i - 1
             PROVE  i \in DOMAIN Take(installed, size) /\ Take(installed, size)[i] = snapshot[i]
  BY DEF Protected
<1>1. i \in DOMAIN installed /\ installed[i] = snapshot[i]  BY DEF Protected
<1>2. /\ i \in 1 .. Len(snapshot) /\ Len(snapshot) \in Nat
      /\ i \in 1 .. Len(installed) /\ Len(installed) \in Nat
  BY <1>1, OldBlocks
<1>3. i <= size
  <2> SUFFICES ASSUME ~ (i <= size)  PROVE FALSE  OBVIOUS
  <2>1. i - 1 \in size .. Len(installed) - 1 /\ i - 1 < Len(snapshot)  BY <1>2
  <2>2. Unprotected(i - 1)  BY <2>1 DEF Unprotected
  <2> QED BY <2>1, <2>2 DEF Removed
<1> DEFINE n == Min({size, Len(installed)})
<1>4. n \in Nat /\ i \in 1 .. n /\ n <= Len(installed)  BY <1>2, <1>3, MinOfTwo
<1> HIDE DEF n
<1>5. installed \in Seq(Block)  BY DEF TypeInv, Image
<1>6. /\ Len(SubSeq(installed, 1, n)) = n
      /\ SubSeq(installed, 1, n) \in Seq(Block)
      /\ SubSeq(installed, 1, n)[i] = installed[i]
  BY <1>4, <1>5
<1>7. Take(installed, size) = SubSeq(installed, 1, n)  BY DEF Take, n
<1> QED BY <1>1, <1>4, <1>6, <1>7

(* A backup taken under a name protects its index, and no other loses the  *)
(* protection of that name.                                                *)
LEMMA BackupProtects ==
  ASSUME InPlacePlan, NamesTellIndex(backups), NEW op \in Plan, op.op = "backup",
         NEW block
  PROVE  LET area == SaveBackup(backups, op.id, [index |-> op.source, block |-> block]) IN
         /\ NamesTellIndex(area)
         /\ Protected(installed, backups) => Protected(installed, area)
<1> DEFINE record == [index |-> op.source, block |-> block]
           area == SaveBackup(backups, op.id, record)
<1>1. /\ DOMAIN area = DOMAIN backups \cup {op.id}
      /\ area[op.id] = record
      /\ \A id \in DOMAIN backups : id # op.id => area[id] = backups[id]
  BY DEF SaveBackup
<1>2. record.index = op.source  OBVIOUS
<1> HIDE DEF area, record
<1>3. \A id \in DOMAIN backups : area[id].index = backups[id].index
  BY <1>1, <1>2 DEF NamesTellIndex
<1>4. NamesTellIndex(area)
  BY <1>1, <1>2, <1>3 DEF NamesTellIndex, InPlacePlan
<1>5. Protected(installed, backups) => Protected(installed, area)
  BY <1>1, <1>3 DEF Protected
<1> QED BY <1>4, <1>5 DEF area, record

LEMMA CompletionProtects ==
  ASSUME NEW state, NEW area, Protected(installed, area)
  PROVE  Protected(Completion(state).installed, area)
<1>1. Completion(state).installed \in {installed, snapshot}
  BY DEF Completion, FailBeforeActivation, Switch
<1> QED BY <1>1, SnapshotProtected

LEMMA SucceedKeepsSafe ==
  ASSUME TypeInv, InPlacePlan, KeptSafe(rollbackReady, installed, backups),
         NEW op \in Plan, Succeed(op)
  PROVE  KeptSafe(rollbackReady, installed, backups)'
<1>0. op \in Operation /\ snapshot' = snapshot
  BY DeploymentAssumption, SucceedYields
<1>1. ASSUME NEW blocks, NEW area, NEW lost, Yields(blocks, area, lost),
             NamesTellIndex(area),
             RequireBackup /\ Protected(installed, backups) /\ lost = {} => Protected(blocks, area)
      PROVE  KeptSafe(rollbackReady, installed, backups)'
  <2>1. /\ installed' = blocks /\ backups' = area
        /\ rollbackReady' = (rollbackReady /\ lost = {})
    BY <1>1 DEF Yields
  <2>2. NamesTellIndex(backups')  BY <1>1, <2>1
  <2>3. ASSUME RequireBackup, rollbackReady'  PROVE Protected(installed', backups')
    BY <1>1, <2>1, <2>3 DEF KeptSafe
  <2> QED BY <1>0, <2>2, <2>3 DEF KeptSafe, NamesTellIndex, Protected
<1>2. NamesTellIndex(backups)  BY DEF KeptSafe
<1>3. CASE /\ op.op \in {"keep", "skip", "verify", "checkpoint"}
           /\ Yields(installed, backups, {})
  BY <1>1, <1>2, <1>3
<1>4. CASE op.op = "backup"
  <2> DEFINE area == SaveBackup(backups, op.id, [index |-> op.source,
                                                 block |-> installed[op.source + 1]])
  <2>1. Yields(installed, area, {})  BY <1>4, SucceedYields
  <2>2. NamesTellIndex(area) /\ (Protected(installed, backups) => Protected(installed, area))
    BY <1>2, <1>4, BackupProtects
  <2> HIDE DEF area
  <2> QED BY <1>1, <2>1, <2>2
<1>5. ASSUME NEW block, op.target \in Nat,
             Yields(WriteBlock(installed, op.target, block), backups,
                    Overwritten(op.target, block))
      PROVE  KeptSafe(rollbackReady, installed, backups)'
  <2> DEFINE blocks == WriteBlock(installed, op.target, block)
             lost   == Overwritten(op.target, block)
  <2>1. RequireBackup /\ Protected(installed, backups) /\ lost = {} => Protected(blocks, backups)
    BY <1>5, WriteProtects
  <2>2. Yields(blocks, backups, lost)  BY <1>5
  <2> HIDE DEF blocks, lost
  <2> QED BY <1>1, <1>2, <2>1, <2>2
<1>6. CASE op.op \in {"copy", "delta", "raw_insert"}
  <2>1. op.target \in Nat
    BY <1>0, <1>6, OperationKind DEF CopyOp, DeltaOp, RawOp
  <2> QED BY <1>5, <1>6, <2>1, SucceedYields
<1>7. CASE op.op = "append"
  <2> DEFINE blocks == WriteBlock(installed, Len(installed), op.data)
  <2>1. Yields(blocks, backups, {})  BY <1>7, SucceedYields
  <2>2. Protected(installed, backups) => Protected(blocks, backups)  BY AppendProtects
  <2> HIDE DEF blocks
  <2> QED BY <1>1, <1>2, <2>1, <2>2
<1>8. CASE op.op = "truncate"
  <2> DEFINE blocks == Take(installed, op.size)
             lost   == Removed(op.size .. Len(installed) - 1)
  <2>1. op.unit = "blocks"  BY <1>8 DEF InPlacePlan
  <2>2. op.size \in Nat  BY <1>0, <1>8, OperationKind DEF TruncateOp
  <2>3. Yields(blocks, backups, lost)  BY <1>8, <2>1, SucceedYields
  <2>4. RequireBackup /\ Protected(installed, backups) /\ lost = {} => Protected(blocks, backups)
    BY <2>2, TakeProtects
  <2> HIDE DEF blocks, lost
  <2> QED BY <1>1, <1>2, <2>3, <2>4
<1>9. CASE op.op = "rollback" /\ op.id = SnapshotId
  <2>1. Yields(snapshot, backups, {})  BY <1>9, SucceedYields
  <2> QED BY <1>1, <1>2, <2>1, SnapshotProtected
<1>10. CASE op.op = "rollback" /\ op.id # SnapshotId
  <2> DEFINE blocks == WriteBlock(installed, backups[op.id].index, backups[op.id].block)
  <2>1. Yields(blocks, backups, {}) /\ Applicable(op)  BY <1>10, SucceedYields
  <2>2. op.id \in DOMAIN backups  BY <1>10, <2>1 DEF Applicable
  <2>3. Protected(installed, backups) => Protected(blocks, backups)
    BY <2>2, RestoreBlockProtects
  <2> HIDE DEF blocks
  <2> QED BY <1>1, <1>2, <2>1, <2>3
<1>11. CASE op.op = "commit"
  <2>1. Yields(Completion("installing").installed, backups, {})  BY <1>11, SucceedYields
  <2> QED BY <1>1, <1>2, <2>1, CompletionProtects
<1> QED
  <2>1. op.op # "delete"  BY DEF InPlacePlan
  <2>2. \/ op.op \in {"keep", "skip", "verify", "checkpoint"} /\ Yields(installed, backups, {})
        \/ op.op \in {"backup", "copy", "delta", "raw_insert", "append", "truncate",
                      "rollback", "commit"}
    BY <2>1, SucceedYields
  <2> QED BY <1>3, <1>4, <1>6, <1>7, <1>8, <1>9, <1>10, <1>11, <2>2

LEMMA ProtectionStep ==
  ASSUME InPlacePlan, TypeInv, CheckpointOrder, ProtectionInv, [Next]_vars
  PROVE  ProtectionInv'
<1>0. KeptSafe(rollbackReady, installed, backups)  BY DEF ProtectionInv
<1>1. ASSUME NEW op \in Plan, Succeed(op)  PROVE ProtectionInv'
  <2>1. KeptSafe(rollbackReady, installed, backups)' /\ snapshot' = snapshot
    BY <1>0, <1>1, SucceedKeepsSafe, SucceedYields
  <2>2. op \in Operation  BY DeploymentAssumption
  <2>3. PICK e \in Effect : Bounded(e.refreshed) /\ Perform(op, e)
    BY <1>1, <2>2, SucceedPerforms DEF Performs
  <2>4. \/ checkpoints' = checkpoints
        \/ \E c \in CheckpointSet :
             /\ checkpoints' = Append(checkpoints, c) /\ c.installed = installed'
             /\ c.backups = backups' /\ c.rollbackReady = rollbackReady'
    BY <2>2, <2>3, PerformFacts, Zenon
  <2>5. CASE checkpoints' = checkpoints
    BY <2>1, <2>5 DEF ProtectionInv, KeptSafe, NamesTellIndex, Protected
  <2>6. ASSUME NEW c \in CheckpointSet, checkpoints' = Append(checkpoints, c),
               c.installed = installed', c.backups = backups',
               c.rollbackReady = rollbackReady'
        PROVE  ProtectionInv'
    <3>1. /\ DOMAIN checkpoints' = 1 .. Len(checkpoints) + 1
          /\ DOMAIN checkpoints = 1 .. Len(checkpoints) /\ Len(checkpoints) \in Nat
          /\ \A i \in 1 .. Len(checkpoints) : checkpoints'[i] = checkpoints[i]
          /\ checkpoints'[Len(checkpoints) + 1] = c
      BY <2>6, AppendedCheckpoint
    <3> SUFFICES ASSUME NEW i \in DOMAIN checkpoints'
                 PROVE  KeptSafe(checkpoints[i].rollbackReady, checkpoints[i].installed,
                                 checkpoints[i].backups)'
      BY <2>1 DEF ProtectionInv
    <3>2. CASE i = Len(checkpoints) + 1
      BY <2>1, <2>6, <3>1, <3>2 DEF KeptSafe, NamesTellIndex, Protected
    <3>3. CASE i \in DOMAIN checkpoints
      BY <2>1, <3>1, <3>3 DEF ProtectionInv, KeptSafe, NamesTellIndex, Protected
    <3> QED BY <3>1, <3>2, <3>3
  <2> QED BY <2>4, <2>5, <2>6
<1>2. ASSUME UNCHANGED <<snapshot, checkpoints, rollbackReady, backups>>,
             installed' = installed \/ installed' = snapshot
      PROVE  ProtectionInv'
  <2>1. Protected(installed, backups) => Protected(installed', backups)
    BY <1>2, SnapshotProtected
  <2> QED BY <1>2, <2>1 DEF ProtectionInv, KeptSafe, NamesTellIndex, Protected
<1>3. ASSUME NEW op \in Plan, Fail(op)  PROVE ProtectionInv'
  BY <1>2, <1>3 DEF Fail, image, safety
<1>4. CASE Interrupt  BY <1>2, <1>4 DEF Interrupt, image, safety
<1>5. CASE Complete
  <2>1. installed' \in {installed, snapshot}
    BY <1>5 DEF Complete, Completion, FailBeforeActivation, Switch
  <2> QED BY <1>2, <1>5, <2>1 DEF Complete, safety
<1>6. CASE RollbackInstall  BY <1>2, <1>6 DEF RollbackInstall, safety
<1>7. ASSUME NEW i \in DOMAIN checkpoints, Resume(i)  PROVE ProtectionInv'
  <2>1. \A j \in DOMAIN checkpoints' :
          j \in DOMAIN checkpoints /\ checkpoints'[j] = checkpoints[j]
    BY <1>7, ResumeReports
  <2>2. /\ snapshot' = snapshot /\ rollbackReady' = checkpoints[i].rollbackReady
        /\ installed' = checkpoints[i].installed /\ backups' = checkpoints[i].backups
    BY <1>7 DEF Resume, RestoreCheckpoint
  <2> QED BY <2>1, <2>2 DEF ProtectionInv, KeptSafe, NamesTellIndex, Protected
<1>8. CASE UNCHANGED vars  BY <1>2, <1>8 DEF vars
<1> QED BY <1>1, <1>3, <1>4, <1>5, <1>6, <1>7, <1>8 DEF Next, UpdateNext, Apply

(* While rollback_ready holds, every block of the old image is in place or *)
(* a backup was taken from its index, in the device and so in whatever a   *)
(* restore brings back (_mark_overwrite_if_unprotected), for every plan    *)
(* that moves no blocks and names its backups by their index.              *)
THEOREM ReadyProtects ==
  ASSUME InPlacePlan  PROVE Spec => []ReadyMeansProtected
<1> DEFINE Inv == TypeInv /\ CheckpointOrder /\ ProtectionInv
<1>1. Init => Inv
  <2> SUFFICES ASSUME Init PROVE Inv  OBVIOUS
  <2>1. TypeInv /\ CheckpointOrder  BY InitType DEF Init, CheckpointOrder
  <2>2. Protected(installed, backups)  BY SnapshotProtected DEF Init
  <2>3. ProtectionInv  BY <2>2 DEF Init, ProtectionInv, KeptSafe, NamesTellIndex
  <2> QED BY <2>1, <2>3
<1>2. Inv /\ [Next]_vars => Inv'  BY NextType, OrderStep, ProtectionStep
<1>3. Inv => ReadyMeansProtected
  BY DEF ProtectionInv, KeptSafe, Protected, ReadyMeansProtected
<1> QED BY <1>1, <1>2, <1>3, PTL DEF Spec
-----------------------------------------------------------------------------
(* The slots are left alone by every step but commit and complete(), so    *)
(* what follows rests on what a completion does.                           *)

(* The step completes the device: it finalizes the slots or leaves them.   *)
Completing(state) ==
  LET c == Completion(state) IN
  /\ installed' = c.installed /\ installState' = c.state /\ ab' = c.ab

(* Every step leaves the slots alone or completes the device.              *)
LEMMA SlotStep ==
  ASSUME [Next]_vars
  PROVE  /\ snapshot' = snapshot
         /\ ab' = ab \/ \E state : Completing(state)
<1>1. ASSUME NEW op \in Plan, Succeed(op)
      PROVE  snapshot' = snapshot /\ (ab' = ab \/ \E state : Completing(state))
  BY <1>1, SucceedYields DEF Completing, Yields
<1>2. ASSUME NEW op \in Plan, Fail(op)  PROVE snapshot' = snapshot /\ ab' = ab
  BY <1>2 DEF Fail
<1>3. CASE Interrupt  BY <1>3 DEF Interrupt
<1>4. CASE Complete
  BY <1>4 DEF Complete, Completing
<1>5. CASE RollbackInstall  BY <1>5 DEF RollbackInstall
<1>6. ASSUME NEW i \in DOMAIN checkpoints, Resume(i)  PROVE snapshot' = snapshot /\ ab' = ab
  BY <1>6 DEF Resume, RestoreCheckpoint
<1>7. CASE UNCHANGED vars  BY <1>7 DEF vars
<1> QED BY <1>1, <1>2, <1>3, <1>4, <1>5, <1>6, <1>7 DEF Next, UpdateNext, Apply

-----------------------------------------------------------------------------
(* Slots that are not finalized are as they were installed; without this,  *)
(* a first finalization could add to reboots that were counted before.     *)
Untouched == ~ab.valid /\ ab.boots = 0 /\ ab.reboots = 0

SlotInv == ActiveSlotTrusted /\ (~ab.finalized => Untouched)

LEMMA SlotFields ==
  ASSUME TypeInv
  PROVE  /\ ab.active \in Slot /\ ab.inactive \in Slot
         /\ ab.boots \in Nat /\ ab.reboots \in Nat /\ ab.switches \in Nat
         /\ ab.valid \in BOOLEAN /\ ab.finalized \in BOOLEAN
BY DEF TypeInv, SlotState

LEMMA SlotInvInit == Init => SlotInv
<1> SUFFICES ASSUME Init PROVE SlotInv  OBVIOUS
<1>1. MaxBootAttempts \in Nat  BY DeploymentAssumption
<1>2. /\ ab.active = "A" /\ ab.inactive = "B" /\ ab.switches = 0 /\ ab.boots = 0
      /\ ab.reboots = 0 /\ ~ab.valid /\ ab.activeVersion = BlocksToBytes(snapshot)
  BY DEF Init
<1>3. 0 % 2 = 0  OBVIOUS
<1> QED BY <1>1, <1>2, <1>3 DEF SlotInv, ActiveSlotTrusted, Untouched

(* What a refused and a booted candidate leave in the slots.               *)
LEMMA RefusedFields ==
  ASSUME TypeInv
  PROVE  /\ Refused.active = ab.active /\ Refused.inactive = ab.inactive
         /\ Refused.switches = ab.switches /\ Refused.boots = ab.boots
         /\ Refused.reboots = ab.reboots /\ Refused.activeVersion = ab.activeVersion
         /\ ~Refused.valid /\ Refused.finalized
BY DEF TypeInv, SlotState, Refused

LEMMA BootedFields ==
  ASSUME TypeInv
  PROVE  /\ Booted.finalized
         /\ Booted.boots = Boots /\ Booted.reboots = ab.reboots + Boots
         /\ Booted.healthy = Healthy /\ Booted.valid = Healthy
         /\ Booted.activeVersion = IF Healthy THEN Candidate ELSE ab.activeVersion
         /\ Booted.active = IF InactiveInstall /\ Healthy THEN ab.inactive ELSE ab.active
         /\ Booted.inactive = IF InactiveInstall /\ Healthy THEN ab.active ELSE ab.inactive
         /\ Booted.switches = IF InactiveInstall THEN ab.switches + (IF Healthy THEN 1 ELSE 2)
                                                 ELSE ab.switches
<1>1. ab = [f \in DOMAIN ab |-> ab[f]] /\ ab \in SlotState  BY DEF TypeInv, SlotState
<1> QED BY <1>1 DEF SlotState, Booted

(* A completion, taken apart as the code does: nothing to finalize, the    *)
(* candidate refused, booted healthily, or given up after the last boot.   *)
LEMMA CompletionCases ==
  ASSUME NEW state, Completing(state)
  PROVE  \/ ab' = ab
         \/ /\ ~ab.finalized /\ ab' = Refused
            /\ installed' = snapshot /\ installState' = "failed"
         \/ /\ ~ab.finalized /\ ab' = Booted /\ Healthy /\ Refusal = {}
            /\ installed' = installed /\ installState' = "complete"
         \/ /\ ~ab.finalized /\ ab' = Booted /\ ~Healthy
            /\ installed' = snapshot /\ installState' = "rolled_back"
<1>1. CASE ~Finalizes(state)
  BY <1>1 DEF Completing, Completion
<1>2. CASE Finalizes(state) /\ Refusal # {}
  BY <1>2 DEF Completing, Completion, Finalizes, FailBeforeActivation
<1>3. CASE Finalizes(state) /\ Refusal = {}
  BY <1>3 DEF Completing, Completion, Finalizes, Switch
<1> QED BY <1>1, <1>2, <1>3

LEMMA HealthyCandidate ==
  ASSUME Refusal = {}, Expected # NoImage  PROVE Candidate = BlocksToBytes(Expected)
BY DEF Refusal

LEMMA SlotInvStep ==
  ASSUME TypeInv, SlotInv, [Next]_vars  PROVE SlotInv'
<1>0. snapshot' = snapshot  BY SlotStep
<1>1. CASE ab' = ab
  BY <1>0, <1>1 DEF SlotInv, ActiveSlotTrusted, Untouched
<1>2. ASSUME NEW state, Completing(state), ab' # ab  PROVE SlotInv'
  <2>1. CASE ~ab.finalized /\ ab' = Refused
    BY <1>0, <2>1, RefusedFields DEF SlotInv, ActiveSlotTrusted, Untouched
  <2>2. CASE ~ab.finalized /\ ab' = Booted /\ (Healthy => Refusal = {})
    <3>1. Boots \in Nat /\ Boots <= MaxBootAttempts
      BY DeploymentAssumption DEF Boots
    <3>2. ab'.reboots = ab'.boots /\ ab'.boots <= MaxBootAttempts
      BY <2>2, <3>1, BootedFields DEF SlotInv, Untouched
    <3>3. ab'.active # ab'.inactive
      BY <2>2, BootedFields, SlotFields DEF SlotInv, ActiveSlotTrusted
    <3>4. ab'.active = "A" <=> ab'.switches % 2 = 0
      <4>1. ab.switches \in Nat /\ (ab.active = "A" <=> ab.switches % 2 = 0)
        BY SlotFields DEF SlotInv, ActiveSlotTrusted
      <4>2. ab.inactive = "A" <=> ab.active # "A"
        BY SlotFields DEF SlotInv, ActiveSlotTrusted, Slot
      <4>3. CASE InactiveInstall /\ Healthy
        <5>1. ab'.active = ab.inactive /\ ab'.switches = ab.switches + 1
          BY <2>2, <4>3, BootedFields
        <5>2. (ab.switches + 1) % 2 = 0 <=> ab.switches % 2 # 0  BY <4>1
        <5> QED BY <4>1, <4>2, <5>1, <5>2
      <4>4. CASE InactiveInstall /\ ~Healthy
        <5>1. ab'.active = ab.active /\ ab'.switches = ab.switches + 2
          BY <2>2, <4>4, BootedFields
        <5>2. (ab.switches + 2) % 2 = ab.switches % 2  BY <4>1
        <5> QED BY <4>1, <5>1, <5>2
      <4>5. CASE ~InactiveInstall
        BY <2>2, <4>1, <4>5, BootedFields
      <4> QED BY <4>3, <4>4, <4>5
    <3>5. CASE Healthy
      <4>1. ab'.valid /\ ab'.healthy /\ ab'.finalized /\ ab'.activeVersion = Candidate
        BY <2>2, <3>5, BootedFields
      <4>2. Expected # NoImage => ab'.activeVersion = BlocksToBytes(Expected)
        BY <2>2, <3>5, <4>1, HealthyCandidate
      <4> QED BY <3>2, <3>3, <3>4, <4>1, <4>2 DEF SlotInv, ActiveSlotTrusted
    <3>6. CASE ~Healthy
      <4>1. ~ab'.valid /\ ab'.finalized /\ ab'.activeVersion = ab.activeVersion
        BY <2>2, <3>6, BootedFields
      <4>2. ab.activeVersion = BlocksToBytes(snapshot)
        BY <2>2 DEF SlotInv, ActiveSlotTrusted, Untouched
      <4> QED BY <1>0, <3>2, <3>3, <3>4, <4>1, <4>2 DEF SlotInv, ActiveSlotTrusted
    <3> QED BY <3>5, <3>6
  <2> QED BY <1>2, <2>1, <2>2, CompletionCases
<1> QED BY <1>1, <1>2, SlotStep

LEMMA SlotInvariant == Spec => [](TypeInv /\ SlotInv)
<1>1. Init => TypeInv /\ SlotInv  BY InitType, SlotInvInit
<1>2. TypeInv /\ SlotInv /\ [Next]_vars => TypeInv' /\ SlotInv'
  BY NextType, SlotInvStep
<1> QED BY <1>1, <1>2, PTL DEF Spec

-----------------------------------------------------------------------------
(* The active slot runs the old image until a health check passed and the  *)
(* expected one from then on, whatever is applied, committed, interrupted, *)
(* rolled back, restored or completed, in any order (_finalize_ab_update). *)
THEOREM SlotsTrusted == Spec => []ActiveSlotTrusted
<1>1. SlotInv => ActiveSlotTrusted  BY DEF SlotInv
<1> QED BY <1>1, SlotInvariant, PTL

(* The step that finalizes the slots activates the whole candidate or      *)
(* brings back the whole old image, and says so (complete,                 *)
(* _fail_ab_before_activation).                                            *)
THEOREM ActivationAtomic == Spec => AtomicActivation
<1> DEFINE Atomic ==
      ab'.finalized /\ ~ab.finalized =>
       \/ /\ ab'.valid /\ installState' # "failed" /\ installed' = installed
          /\ ab'.activeVersion = BlocksToBytes(installed)
          /\ ab'.active = IF InactiveInstall THEN ab.inactive ELSE ab.active
       \/ /\ ~ab'.valid /\ installState' \in {"failed", "rolled_back"}
          /\ installed' = snapshot
          /\ ab'.activeVersion = ab.activeVersion /\ ab'.active = ab.active
<1>1. TypeInv /\ SlotInv /\ [Next]_vars => Atomic
  <2> SUFFICES ASSUME TypeInv, [Next]_vars, ab' # ab  PROVE Atomic  OBVIOUS
  <2>1. PICK state : Completing(state)  BY SlotStep
  <2>2. CASE ab' = Refused /\ installed' = snapshot /\ installState' = "failed"
    BY <2>2, RefusedFields
  <2>3. CASE ab' = Booted /\ Healthy /\ installed' = installed /\ installState' = "complete"
    BY <2>3, BootedFields DEF Candidate
  <2>4. CASE ab' = Booted /\ ~Healthy /\ installed' = snapshot
             /\ installState' = "rolled_back"
    BY <2>4, BootedFields
  <2> QED BY <2>1, <2>2, <2>3, <2>4, CompletionCases
<1>2. TypeInv /\ SlotInv /\ [Next]_vars => [Atomic]_vars  BY <1>1
<1>3. AtomicActivation <=> [][Atomic]_vars  BY DEF AtomicActivation
<1> QED BY <1>2, <1>3, SlotInvariant, PTL DEF Spec
-----------------------------------------------------------------------------
(* Operations as functions of the device: their checks, effects and        *)
(* results, written for a device s that updates the image old; a commit    *)
(* for one slot.                                                           *)
Within(s, index) == index \in 0 .. Len(s.installed) - 1

CanRead(s, source) ==
  CASE source.area = "installed" -> Within(s, source.index)
    [] source.area = "backup"    -> source.id \in DOMAIN s.backups
    [] source.area = "image"     -> TRUE

Content(s, source) ==
  CASE source.area = "installed" -> s.installed[source.index + 1]
    [] source.area = "backup"    -> s.backups[source.id].block
    [] source.area = "image"     -> BlocksToBytes(s.installed)

Possible(s, op) ==
  CASE op.op \in {"keep", "skip"} ->
         Within(s, op.target) /\ HashMatches(op.hash, s.installed[op.target + 1])
    [] op.op = "backup" -> Within(s, op.source)
    [] op.op = "copy" ->
         CanRead(s, op.source) /\ HashMatches(op.hash, Content(s, op.source))
    [] op.op = "delta" ->
         /\ op.codec = "bsdiff4"
         /\ CanRead(s, op.source) /\ Content(s, op.source) = op.base
         /\ HashMatches(op.hash, op.result)
    [] op.op = "append" -> op.target \in {NoLimit, Len(s.installed)}
    [] op.op = "delete" ->
         op.count > 0 /\ Within(s, op.target) /\ Within(s, op.target + op.count - 1)
    [] op.op = "verify" ->
         HashMatches(op.hash,
           IF op.size = NoLimit THEN BlocksToBytes(s.installed)
                                ELSE Take(BlocksToBytes(s.installed), op.size))
    [] op.op = "rollback" -> op.id = SnapshotId \/ op.id \in DOMAIN s.backups
    [] OTHER -> TRUE

Bare(s, old, target) ==
  /\ RequireBackup /\ target < Len(old)
  /\ \A id \in DOMAIN s.backups : s.backups[id].index # target

Over(s, old, target, block) == {t \in {target} : Bare(s, old, t) /\ block # old[t + 1]}
Gone(s, old, targets) == {t \in targets : Bare(s, old, t)}

Load(s, op) ==
  IF Staging = "full_package" THEN s.staging + DownloadBytes(op) ELSE DownloadBytes(op)

Quiet(s, op) ==
  [installed |-> s.installed, backups |-> s.backups, state |-> "installing",
   errors |-> s.errors, ab |-> s.ab, violations |-> {}, lost |-> {},
   written |-> 0, ram |-> 0, staged |-> Load(s, op), refreshed |-> {}, checked |-> {}]

Writing(s, op, target, block, lost, ram) ==
  LET written == WriteBlock(s.installed, target, block) IN
  [Quiet(s, op) EXCEPT
     !.installed = written, !.lost = lost, !.ram = ram,
     !.written = Holes(s.installed, target) * BlockSize + Len(block),
     !.refreshed = {Level(written, s.backups, Load(s, op))}]

(* The blocks that truncate to bytes loses.                                *)
CutAway(s, op) ==
  LET kept == TruncateBytes(s.installed, op.size)
      left == Len(kept)
  IN  {i \in {left - 1} : /\ left > 0 /\ left <= Len(s.installed)
                          /\ kept[left] # s.installed[left]}
        \cup (left .. Len(s.installed) - 1)

SavedRecord(s, op) == [index |-> op.source, block |-> s.installed[op.source + 1]]

EffectOf(s, old, op) ==
  CASE op.op = "backup" ->
         LET record == SavedRecord(s, op)
             area   == SaveBackup(s.backups, op.id, record)
         IN  [Quiet(s, op) EXCEPT
                !.backups = area, !.ram = Len(record.block), !.written = Len(record.block),
                !.checked = {Level(s.installed, area, Load(s, op))}]
    [] op.op = "copy" ->
         LET block == Content(s, op.source) IN
         Writing(s, op, op.target, block, Over(s, old, op.target, block), Len(block))
    [] op.op = "delta" ->
         Writing(s, op, op.target, op.result, Over(s, old, op.target, op.result),
                 Len(op.base) + op.patch + Len(op.result))
    [] op.op = "raw_insert" ->
         Writing(s, op, op.target, op.data, Over(s, old, op.target, op.data), Len(op.data))
    [] op.op = "append" ->
         Writing(s, op, Len(s.installed), op.data, {}, Len(op.data))
    [] op.op = "delete" ->
         [Quiet(s, op) EXCEPT
            !.installed = DeleteBlocks(s.installed, op.target, op.count),
            !.lost = Gone(s, old, op.target .. op.target + op.count - 1)]
    [] op.op = "truncate" /\ op.unit = "bytes" ->
         [Quiet(s, op) EXCEPT !.installed = TruncateBytes(s.installed, op.size),
                              !.lost = Gone(s, old, CutAway(s, op))]
    [] op.op = "truncate" /\ op.unit = "blocks" ->
         [Quiet(s, op) EXCEPT !.installed = Take(s.installed, op.size),
                              !.lost = Gone(s, old, op.size .. Len(s.installed) - 1)]
    [] op.op = "rollback" /\ op.id = SnapshotId ->
         [Quiet(s, op) EXCEPT !.installed = old, !.state = "rolled_back", !.staged = 0,
                              !.refreshed = {Level(old, s.backups, 0)}]
    [] op.op = "rollback" /\ op.id # SnapshotId ->
         [Writing(s, op, s.backups[op.id].index, s.backups[op.id].block, {}, 0)
            EXCEPT !.state = "rolled_back", !.staged = 0]
    [] op.op = "commit" ->
         [Quiet(s, op) EXCEPT !.state = IF s.errors # {} THEN "failed" ELSE "complete",
                              !.staged = 0, !.refreshed = {Level(s.installed, s.backups, 0)}]
    [] OTHER -> Quiet(s, op)

(* apply_operation: the device after an effect.                            *)
Downloaded(s, op) == Level(s.installed, s.backups, Load(s, op))
HighPoint(s, op, e) == Max({s.peakStorage, Downloaded(s, op)} \cup e.refreshed)
Breaches(s, op, e) ==
  s.violations \cup e.violations \cup Exceeded({Downloaded(s, op)} \cup e.checked, e.ram)
StillStaged(e) == IF Staging = "streaming" THEN 0 ELSE e.staged
AtRest(e) == Level(e.installed, e.backups, StillStaged(e))
Markers(s, e) ==
  s.unsafe \cup {[operation |-> s.applied + 1, target |-> t] : t \in e.lost}

Taken(s, op) ==
  \/ op.op = "checkpoint"
  \/ CheckpointInterval > 0 /\ (s.applied + 1) % CheckpointInterval = 0

CheckpointAfter(s, op, e) ==
  [index |-> s.applied + 1, installed |-> e.installed, backups |-> e.backups,
   package |-> s.package + DownloadBytes(op), flash |-> s.flash + e.written,
   peakRam |-> Max({s.peakRam, e.ram}), peakStorage |-> HighPoint(s, op, e),
   rollbackReady |-> (s.rollbackReady /\ e.lost = {}), unsafe |-> Markers(s, e),
   violations |-> Breaches(s, op, e), errors |-> e.errors]

After(s, op, e) ==
  [installed |-> e.installed, backups |-> e.backups, applied |-> s.applied + 1,
   installState |-> e.state, errors |-> e.errors,
   rollbackReady |-> (s.rollbackReady /\ e.lost = {}), unsafe |-> Markers(s, e),
   checkpoints |-> IF Taken(s, op) THEN Append(s.checkpoints, CheckpointAfter(s, op, e))
                                   ELSE s.checkpoints,
   package |-> s.package + DownloadBytes(op), staging |-> StillStaged(e),
   flash |-> s.flash + e.written, peakRam |-> Max({s.peakRam, e.ram}),
   peakStorage |-> Max({HighPoint(s, op, e), AtRest(e)}),
   violations |-> Breaches(s, op, e) \cup Exceeded({AtRest(e)}, 0), ab |-> e.ab]

Result(s, old, op) == After(s, op, EffectOf(s, old, op))

LEMMA StateFields ==
  /\ State.installed = installed /\ State.backups = backups /\ State.applied = applied
  /\ State.installState = installState /\ State.errors = errors
  /\ State.rollbackReady = rollbackReady /\ State.unsafe = unsafe
  /\ State.checkpoints = checkpoints /\ State.package = package
  /\ State.staging = staging /\ State.flash = flash /\ State.peakRam = peakRam
  /\ State.peakStorage = peakStorage /\ State.violations = violations /\ State.ab = ab
BY DEF State

LEMMA StateTests ==
  /\ \A source : CanRead(State, source) <=> Readable(source)
  /\ \A source : Content(State, source) = SourceBlock(source)
  /\ \A op : Possible(State, op) <=> Applicable(op)
  /\ \A target, block : Over(State, snapshot, target, block) = Overwritten(target, block)
  /\ \A targets : Gone(State, snapshot, targets) = Removed(targets)
  /\ \A op : Load(State, op) = Staged(op)
  /\ \A op : Quiet(State, op) = NoEffect(op)
  /\ \A op, target, block, lost, ram :
       Writing(State, op, target, block, lost, ram) = WriteEffect(op, target, block, lost, ram)
<1> DEFINE s == State
<1>0. /\ s.installed = installed /\ s.backups = backups /\ s.errors = errors
      /\ s.staging = staging /\ s.ab = ab
  BY StateFields
<1> HIDE DEF s
<1>1. \A source : CanRead(s, source) <=> Readable(source)
  BY <1>0 DEF CanRead, Readable, Within, InImage
<1>2. \A source : Content(s, source) = SourceBlock(source)
  BY <1>0 DEF Content, SourceBlock
<1>3. \A op : Possible(s, op) <=> Applicable(op)
  BY <1>0, <1>1, <1>2 DEF Possible, Applicable, Within, InImage
<1>4. \A target : Bare(s, snapshot, target) <=> Unprotected(target)
  BY <1>0 DEF Bare, Unprotected
<1>5. \A target, block : Over(s, snapshot, target, block) = Overwritten(target, block)
  BY <1>4 DEF Over, Overwritten
<1>6. \A targets : Gone(s, snapshot, targets) = Removed(targets)
  BY <1>4 DEF Gone, Removed
<1>7. \A op : Load(s, op) = Staged(op)
  BY <1>0 DEF Load, Staged
<1>8. \A op : Quiet(s, op) = NoEffect(op)
  BY <1>0, <1>7 DEF Quiet, NoEffect
<1>9. \A op, target, block, lost, ram :
       Writing(s, op, target, block, lost, ram) = WriteEffect(op, target, block, lost, ram)
  BY <1>0, <1>7, <1>8, ZenonT(40) DEF Writing, WriteEffect
<1> QED BY <1>1, <1>2, <1>3, <1>5, <1>6, <1>7, <1>8, <1>9, Zenon DEF s

LEMMA PerformResult ==
  ASSUME NEW op, NEW e, Perform(op, e)
  PROVE  State' = After(State, op, e)
<1> DEFINE s == State
<1>1. /\ s.installed = installed /\ s.backups = backups /\ s.applied = applied
      /\ s.rollbackReady = rollbackReady /\ s.unsafe = unsafe
      /\ s.checkpoints = checkpoints /\ s.package = package /\ s.flash = flash
      /\ s.peakRam = peakRam /\ s.peakStorage = peakStorage /\ s.violations = violations
      /\ Load(s, op) = Staged(op)
  BY StateFields, StateTests
<1> HIDE DEF s
<1> DEFINE download == Level(installed, backups, Staged(op))
           peak     == Max({peakStorage, download} \cup e.refreshed)
           over     == violations \cup e.violations \cup
                       Exceeded({download} \cup e.checked, e.ram)
           rest     == IF Staging = "streaming" THEN 0 ELSE e.staged
           final    == Level(e.installed, e.backups, rest)
<1>2. /\ installed' = e.installed /\ backups' = e.backups /\ installState' = e.state
      /\ errors' = e.errors /\ rollbackReady' = (rollbackReady /\ e.lost = {})
      /\ unsafe' = unsafe \cup {[operation |-> applied + 1, target |-> t] : t \in e.lost}
      /\ applied' = applied + 1 /\ package' = package + DownloadBytes(op)
      /\ staging' = rest /\ flash' = flash + e.written
      /\ peakRam' = Max({peakRam, e.ram})
      /\ checkpoints' = IF TakesCheckpoint(op)
                          THEN Append(checkpoints, Checkpoint(applied + 1, e, peak, over))
                          ELSE checkpoints
      /\ peakStorage' = Max({peak, final})
      /\ violations' = over \cup Exceeded({final}, 0)
      /\ ab' = e.ab
  BY Zenon DEF Perform
<1>3. Downloaded(s, op) = download  BY <1>1 DEF Downloaded
<1>4. HighPoint(s, op, e) = peak  BY <1>1, <1>3, Zenon DEF HighPoint
<1>5. Breaches(s, op, e) = over  BY <1>1, <1>3, Zenon DEF Breaches
<1>6. StillStaged(e) = rest /\ AtRest(e) = final  BY DEF StillStaged, AtRest
<1>7. Markers(s, e) = unsafe'  BY <1>1, <1>2, Zenon DEF Markers
<1> HIDE DEF download, peak, over, rest, final
<1>8. Taken(s, op) <=> TakesCheckpoint(op)
  <2>1. s.applied = applied  BY <1>1
  <2> QED BY <2>1 DEF Taken, TakesCheckpoint
<1>9. CheckpointAfter(s, op, e) = Checkpoint(applied + 1, e, peak, over)
  BY <1>1, <1>2, <1>4, <1>5, <1>7, Zenon DEF CheckpointAfter, Checkpoint
<1>10. State' = After(s, op, e)
  BY <1>1, <1>2, <1>4, <1>5, <1>6, <1>7, <1>8, <1>9, ZenonT(40) DEF After, State
<1> QED BY <1>10 DEF s

(* The record that an operation performs is its effect.                    *)
LEMMA SucceedResult ==
  ASSUME NEW op, ~EnableAB \/ op.op # "commit", Succeed(op)
  PROVE  Possible(State, op) /\ State' = Result(State, snapshot, op)
<1> DEFINE s == State
<1>1. /\ s.installed = installed /\ s.backups = backups /\ s.errors = errors
  BY StateFields
<1>2. /\ \A source : Content(s, source) = SourceBlock(source)
      /\ Possible(s, op) <=> Applicable(op)
      /\ \A target, block : Over(s, snapshot, target, block) = Overwritten(target, block)
      /\ \A targets : Gone(s, snapshot, targets) = Removed(targets)
      /\ Load(s, op) = Staged(op) /\ Quiet(s, op) = NoEffect(op)
      /\ \A target, block, lost, ram :
           Writing(s, op, target, block, lost, ram) = WriteEffect(op, target, block, lost, ram)
  BY StateTests
<1> HIDE DEF s
<1> DEFINE f == EffectOf(s, snapshot, op)
<1>3. Possible(s, op)
  <2>1. op.op \in {"raw_insert", "truncate", "checkpoint", "commit"} => Possible(s, op)
    BY DEF Possible
  <2>2. op.op = "rollback" /\ op.id = SnapshotId => Possible(s, op)  BY DEF Possible
  <2>3. \/ Applicable(op) \/ op.op \in {"raw_insert", "truncate", "checkpoint", "commit"}
        \/ op.op = "rollback" /\ op.id = SnapshotId
    BY DEF Succeed, Keep, Backup, Copy, Delta, RawInsert, AppendBlock, Delete,
           TruncateToBytes, TruncateToBlocks, Verify, TakeCheckpoint,
           RollbackToSnapshot, RollbackToBackup, Commit
  <2> QED BY <1>2, <2>1, <2>2, <2>3
<1> SUFFICES Perform(op, f)  BY <1>3, PerformResult DEF s, Result
<1>4. CASE Keep(op) \/ Verify(op) \/ TakeCheckpoint(op)
  <2>1. op.op \in {"keep", "skip", "verify", "checkpoint"} /\ Perform(op, NoEffect(op))
    BY <1>4 DEF Keep, Verify, TakeCheckpoint
  <2>2. f = NoEffect(op)  BY <1>2, <2>1 DEF EffectOf
  <2> QED BY <2>1, <2>2
<1>5. CASE Backup(op)
  <2>1. op.op = "backup"  BY <1>5 DEF Backup
  <2> DEFINE block == installed[op.source + 1]
             area  == SaveBackup(backups, op.id, [index |-> op.source, block |-> block])
             e     == [NoEffect(op) EXCEPT
                         !.backups = area, !.ram = Len(block), !.written = Len(block),
                         !.checked = {Level(installed, area, Staged(op))}]
  <2>2. Perform(op, e)  BY <1>5, Zenon DEF Backup
  <2>3. f = e
    <3>1. SavedRecord(s, op) = [index |-> op.source, block |-> block]
      BY <1>1 DEF SavedRecord
    <3>2. SavedRecord(s, op).block = block  BY <3>1
    <3> DEFINE record == SavedRecord(s, op)
               saved  == SaveBackup(s.backups, op.id, record)
               g      == [Quiet(s, op) EXCEPT
                            !.backups = saved, !.ram = Len(record.block),
                            !.written = Len(record.block),
                            !.checked = {Level(s.installed, saved, Load(s, op))}]
    <3>3. f = g  BY <2>1 DEF EffectOf
    <3>4. saved = area  BY <1>1, <3>1
    <3> HIDE DEF saved, area, record, block, f
    <3>5. record.block = block  BY <3>2 DEF record
    <3>6. g = e  BY <1>1, <1>2, <3>4, <3>5, Zenon
    <3> QED BY <3>3, <3>6
  <2> QED BY <2>2, <2>3
<1>6. CASE Copy(op)
  <2>1. op.op = "copy"  BY <1>6 DEF Copy
  <2> DEFINE block == Content(s, op.source)
  <2>2. f = Writing(s, op, op.target, block, Over(s, snapshot, op.target, block), Len(block))
    BY <2>1 DEF EffectOf
  <2>3. block = SourceBlock(op.source)  BY <1>2
  <2> HIDE DEF f, block
  <2>4. f = WriteEffect(op, op.target, block, Overwritten(op.target, block), Len(block))
    BY <1>2, <2>2
  <2> QED BY <1>6, <2>3, <2>4, Zenon DEF Copy
<1>7. CASE Delta(op)
  <2>1. op.op = "delta"  BY <1>7 DEF Delta
  <2>2. f = Writing(s, op, op.target, op.result, Over(s, snapshot, op.target, op.result),
                    Len(op.base) + op.patch + Len(op.result))
    BY <2>1 DEF EffectOf
  <2> HIDE DEF f
  <2>3. f = WriteEffect(op, op.target, op.result, Overwritten(op.target, op.result),
                        Len(op.base) + op.patch + Len(op.result))
    BY <1>2, <2>2
  <2> QED BY <1>7, <2>3, Zenon DEF Delta
<1>8. CASE RawInsert(op)
  <2>1. op.op = "raw_insert"  BY <1>8 DEF RawInsert
  <2>2. f = Writing(s, op, op.target, op.data, Over(s, snapshot, op.target, op.data),
                    Len(op.data))
    BY <2>1 DEF EffectOf
  <2> HIDE DEF f
  <2>3. f = WriteEffect(op, op.target, op.data, Overwritten(op.target, op.data), Len(op.data))
    BY <1>2, <2>2
  <2> QED BY <1>8, <2>3, Zenon DEF RawInsert
<1>9. CASE AppendBlock(op)
  <2>1. op.op = "append"  BY <1>9 DEF AppendBlock
  <2>2. f = Writing(s, op, Len(s.installed), op.data, {}, Len(op.data))
    BY <2>1 DEF EffectOf
  <2> HIDE DEF f
  <2>3. f = WriteEffect(op, Len(installed), op.data, {}, Len(op.data))
    BY <1>1, <1>2, <2>2
  <2> QED BY <1>9, <2>3, Zenon DEF AppendBlock
<1>10. CASE Delete(op)
  <2>1. op.op = "delete"  BY <1>10 DEF Delete
  <2>2. f = [Quiet(s, op) EXCEPT
               !.installed = DeleteBlocks(s.installed, op.target, op.count),
               !.lost = Gone(s, snapshot, op.target .. op.target + op.count - 1)]
    BY <2>1 DEF EffectOf
  <2> HIDE DEF f
  <2>3. f = [NoEffect(op) EXCEPT
               !.installed = DeleteBlocks(installed, op.target, op.count),
               !.lost = Removed(op.target .. op.target + op.count - 1)]
    BY <1>1, <1>2, <2>2, Zenon
  <2> QED BY <1>10, <2>3, Zenon DEF Delete
<1>11. CASE TruncateToBytes(op)
  <2>1. op.op = "truncate" /\ op.unit = "bytes"  BY <1>11 DEF TruncateToBytes
  <2>2. f = [Quiet(s, op) EXCEPT !.installed = TruncateBytes(s.installed, op.size),
                                 !.lost = Gone(s, snapshot, CutAway(s, op))]
    BY <2>1 DEF EffectOf
  <2>3. CutAway(s, op) = LastCut(op)  BY <1>1 DEF CutAway, LastCut
  <2> HIDE DEF f
  <2>4. f = [NoEffect(op) EXCEPT !.installed = TruncateBytes(installed, op.size),
                                 !.lost = Removed(LastCut(op))]
    BY <1>1, <1>2, <2>2, <2>3, Zenon
  <2>5. Perform(op, [NoEffect(op) EXCEPT !.installed = TruncateBytes(installed, op.size),
                                         !.lost = Removed(LastCut(op))])
    BY <1>11 DEF TruncateToBytes, LastCut
  <2> QED BY <2>4, <2>5
<1>12. CASE TruncateToBlocks(op)
  <2>1. op.op = "truncate" /\ op.unit = "blocks"  BY <1>12 DEF TruncateToBlocks
  <2>2. f = [Quiet(s, op) EXCEPT
               !.installed = Take(s.installed, op.size),
               !.lost = Gone(s, snapshot, op.size .. Len(s.installed) - 1)]
    BY <2>1 DEF EffectOf
  <2> HIDE DEF f
  <2>3. f = [NoEffect(op) EXCEPT !.installed = Take(installed, op.size),
                                 !.lost = Removed(op.size .. Len(installed) - 1)]
    BY <1>1, <1>2, <2>2, Zenon
  <2> QED BY <1>12, <2>3, Zenon DEF TruncateToBlocks
<1>13. CASE RollbackToSnapshot(op)
  <2>1. op.op = "rollback" /\ op.id = SnapshotId  BY <1>13 DEF RollbackToSnapshot
  <2>2. f = [Quiet(s, op) EXCEPT !.installed = snapshot, !.state = "rolled_back",
                                 !.staged = 0, !.refreshed = {Level(snapshot, s.backups, 0)}]
    BY <2>1 DEF EffectOf
  <2> HIDE DEF f
  <2>3. f = [NoEffect(op) EXCEPT !.installed = snapshot, !.state = "rolled_back",
                                 !.staged = 0, !.refreshed = {Level(snapshot, backups, 0)}]
    BY <1>1, <1>2, <2>2, Zenon
  <2> QED BY <1>13, <2>3, Zenon DEF RollbackToSnapshot
<1>14. CASE RollbackToBackup(op)
  <2>1. op.op = "rollback" /\ op.id # SnapshotId  BY <1>14 DEF RollbackToBackup
  <2>2. f = [Writing(s, op, s.backups[op.id].index, s.backups[op.id].block, {}, 0)
               EXCEPT !.state = "rolled_back", !.staged = 0]
    BY <2>1 DEF EffectOf
  <2> HIDE DEF f
  <2>3. Writing(s, op, s.backups[op.id].index, s.backups[op.id].block, {}, 0)
          = WriteEffect(op, backups[op.id].index, backups[op.id].block, {}, 0)
    BY <1>1, <1>2
  <2>4. f = [WriteEffect(op, backups[op.id].index, backups[op.id].block, {}, 0)
               EXCEPT !.state = "rolled_back", !.staged = 0]
    BY <2>2, <2>3
  <2> QED BY <1>14, <2>4, Zenon DEF RollbackToBackup
<1>15. CASE Commit(op)
  <2>1. op.op = "commit"  BY <1>15 DEF Commit
  <2>2. f = [Quiet(s, op) EXCEPT !.state = IF s.errors # {} THEN "failed" ELSE "complete",
                                 !.staged = 0,
                                 !.refreshed = {Level(s.installed, s.backups, 0)}]
    BY <2>1 DEF EffectOf
  <2> DEFINE c == Completion("installing")
             n == NoEffect(op)
             e == [n EXCEPT
                     !.installed = c.installed, !.state = c.state, !.errors = c.errors,
                     !.violations = c.violations, !.ab = c.ab, !.staged = 0,
                     !.refreshed = CompletionLevels(c)]
             g == [n EXCEPT !.state = IF errors # {} THEN "failed" ELSE "complete",
                            !.staged = 0, !.refreshed = {Level(installed, backups, 0)}]
  <2>3. /\ c.installed = installed /\ c.errors = errors /\ c.violations = {} /\ c.ab = ab
        /\ c.state = IF errors # {} THEN "failed" ELSE "complete"
    BY <2>1 DEF Completion, Finalizes, Completed
  <2>4. Perform(op, e)  BY <1>15, Zenon DEF Commit
  <2> HIDE DEF c, f
  <2>5. CompletionLevels(c) = {Level(installed, backups, 0)}
    BY <2>3 DEF CompletionLevels
  <2>6. f = g  BY <1>1, <1>2, <2>2, Zenon
  <2>7. e = g
    <3> DEFINE state == IF errors # {} THEN "failed" ELSE "complete"
               level == {Level(installed, backups, 0)}
    <3>1. e = [n EXCEPT !.installed = installed, !.state = state, !.errors = errors,
                        !.violations = {}, !.ab = ab, !.staged = 0, !.refreshed = level]
      BY <2>3, <2>5
    <3>2. g = [n EXCEPT !.state = state, !.staged = 0, !.refreshed = level]  OBVIOUS
    <3> HIDE DEF e, g, state, level
    <3> DEFINE r == [installed |-> installed, backups |-> backups, state |-> state,
                     errors |-> errors, ab |-> ab, violations |-> {}, lost |-> {},
                     written |-> 0, ram |-> 0, staged |-> 0, refreshed |-> level,
                     checked |-> {}]
    <3>3. e = r  BY <3>1 DEF NoEffect
    <3>4. g = r  BY <3>2 DEF NoEffect
    <3> QED BY <3>3, <3>4
  <2> HIDE DEF e, g
  <2> QED BY <2>4, <2>6, <2>7
<1> HIDE DEF f
<1> QED BY <1>4, <1>5, <1>6, <1>7, <1>8, <1>9, <1>10, <1>11, <1>12, <1>13, <1>14, <1>15
     DEF Succeed
=============================================================================
