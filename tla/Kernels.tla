------------------------------- MODULE Kernels -------------------------------
(****************************************************************************)
(* How the kernels of qwen_tts_kernels.c cut their work: rows over threads, *)
(* rows and columns over vectors with tails, the joint rows of Q, K and V,  *)
(* the tiles of the int8 convolution; and the integer dot products of the   *)
(* quantized matrices, which work on shifted values and put the shift       *)
(* right.  Rows, columns and cells are numbered from 0 as in the code; what *)
(* a kernel writes is the sequence of them, in its order.                   *)
(****************************************************************************)
EXTENDS Integers, Sequences, FiniteSets, SequencesExt

CONSTANTS
  MinRows,    \* 256: fewer rows are not worth the threads
  Half,       \* 128: an int8 is in -Half..Half - 1
  Vector,     \* 64: bytes of a vector
  Q4Block,    \* Q4_0_BLOCK_SIZE
  PanelCols,  \* SD_INT8_NC
  RowBlock    \* 32: rows of a block of sd_gemm_panel

ASSUME KernelsAssumption ==
  /\ MinRows \in Nat
  /\ {Half, Vector, PanelCols, RowBlock, Q4Block} \subseteq Nat \ {0}
  /\ Q4Block % 2 = 0

Sum(s) ==
  LET to[i \in 0..Len(s)] == IF i = 0 THEN 0 ELSE to[i - 1] + s[i]
  IN to[Len(s)]

Smaller(a, b) == IF a < b THEN a ELSE b

-----------------------------------------------------------------------------
(* Loops.                                                                   *)

\* lo, lo + 1, ..., hi - 1
Upto(lo, hi) == [i \in 1..(hi - lo) |-> lo + i - 1]

\* for (; i + w <= n; i += w), from where the loop before has stopped.
Loop(done, n, w) ==
  LET turns == (n - done.at) \div w
  IN [at |-> done.at + turns * w,
      taken |-> done.taken \o [j \in 1..turns |-> <<done.at + (j - 1) * w, w>>]]

Loops(n, widths) ==
  LET done[i \in 0..Len(widths)] ==
        IF i = 0 THEN [at |-> 0, taken |-> <<>>] ELSE Loop(done[i - 1], n, widths[i])
  IN done[Len(widths)].taken

\* All that they touch, in their order.
Touched(n, widths) ==
  LET turns == Loops(n, widths)
  IN FlattenSeq([k \in DOMAIN turns |-> Upto(turns[k][1], turns[k][1] + turns[k][2])])

-----------------------------------------------------------------------------
(* Rows over threads.                                                       *)

\* Mutant: rows that do not divide are forgotten.
TaskRangeEven(tid, nt, rows) == <<tid * (rows \div nt), (tid + 1) * (rows \div nt)>>

TaskRange(tid, nt, rows) == <<(tid * rows) \div nt, ((tid + 1) * rows) \div nt>>

\* A task's kernel gets output and weights from its first row on.
TaskRows(tid, nt, rows, widths) ==
  LET r == TaskRange(tid, nt, rows)
      local == Touched(r[2] - r[1], widths)
  IN [i \in DOMAIN local |-> r[1] + local[i]]

Matvec(rows, nt, widths) ==
  IF nt > 1 /\ rows >= MinRows
  THEN FlattenSeq([t \in 1..nt |-> TaskRows(t - 1, nt, rows, widths)])
  ELSE Touched(rows, widths)

\* A task of the joint product: its rows fall into up to three matrices.
QkvTask(tid, nt, q, kv) ==
  LET range == TaskRange(tid, nt, q + 2 * kv)
      r1 == range[2]
      rows(matrix, from, to) == [i \in 1..(to - from) |-> <<matrix, from + i - 1>>]
      from[r \in 0..r1] ==
        IF r >= r1 THEN <<>>
        ELSE IF r < q
        THEN LET end == Smaller(r1, q) IN rows("q", r, end) \o from[end]
        ELSE IF r < q + kv
        THEN LET end == Smaller(r1, q + kv) IN rows("k", r - q, end - q) \o from[end]
        ELSE rows("v", r - q - kv, r1 - q - kv)
  IN from[range[1]]

MatvecQkv(q, kv, nt) ==
  LET whole(matrix, n) == [i \in 1..n |-> <<matrix, i - 1>>]
  IN IF nt > 1 /\ q + 2 * kv >= MinRows
     THEN FlattenSeq([t \in 1..nt |-> QkvTask(t - 1, nt, q, kv)])
     ELSE whole("q", q) \o whole("k", kv) \o whole("v", kv)

-----------------------------------------------------------------------------
(* The int8 convolution: panels of columns, claimed by threads; in a panel  *)
(* blocks of rows; in these tiles of 2 by 4, 1 by 4 and 1 by the rest.      *)

Tile(m, rows, t, cols) ==
  FlattenSeq([i \in 1..rows |-> [j \in 1..cols |-> <<m + i - 1, t + j - 1>>]])

\* Four columns of a block of rows: the rows two at a time.
Tiles(rb, here, t) ==
  LET ms == Loops(here, <<2, 1>>)
  IN FlattenSeq([j \in DOMAIN ms |-> Tile(rb + ms[j][1], ms[j][2], t, 4)])

LastColumns(rb, here, t, rest) == FlattenSeq([i \in 1..here |-> Tile(rb + i - 1, 1, t, rest)])

InBlock(rb, here, t0, cols) ==
  LET quads == Loops(cols, <<4>>)
  IN FlattenSeq([k \in DOMAIN quads |-> Tiles(rb, here, t0 + quads[k][1])]) \o
     LastColumns(rb, here, t0 + cols - (cols % 4), cols % 4)

GemmPanel(rows, t0, cols) ==
  LET block(rb) == InBlock(rb, Smaller(RowBlock, rows - rb), t0, cols)
  IN FlattenSeq([b \in 1..((rows + RowBlock - 1) \div RowBlock) |-> block((b - 1) * RowBlock)])

Conv1dInt8(rows, length) ==
  LET panels == (length + PanelCols - 1) \div PanelCols
      panel(p) == GemmPanel(rows, p * PanelCols, Smaller(PanelCols, length - p * PanelCols))
  IN FlattenSeq([p \in 1..panels |-> panel(p - 1)])

\* The same over blocks of rows, an even number of them, two blocks a thread.
PerBlock(rows, nt) ==
  LET share == (rows + 2 * nt - 1) \div (2 * nt)
  IN IF share <= 2 THEN 2 ELSE 2 * ((share + 1) \div 2)

GemmRows(m0, rows, length) ==
  LET panels == Loops(length + PanelCols - 1, <<PanelCols>>)
      panel(t0) == GemmPanel(rows, t0, Smaller(PanelCols, length - t0))
      local == FlattenSeq([k \in DOMAIN panels |-> panel(panels[k][1])])
  IN [i \in DOMAIN local |-> <<m0 + local[i][1], local[i][2]>>]

GemmInt8(rows, length, nt) ==
  LET perBlock == PerBlock(rows, nt)
      block(m0) == GemmRows(m0, Smaller(perBlock, rows - m0), length)
  IN FlattenSeq([b \in 1..((rows + perBlock - 1) \div perBlock) |-> block((b - 1) * perBlock)])

-----------------------------------------------------------------------------
(* Dot products of quantized numbers.                                       *)

Times(x, w) == [k \in DOMAIN x |-> x[k] * w[k]]
Part(s, from, n) == SubSeq(s, from + 1, from + n)

\* Unsigned times signed: the activation is moved up by Half, by an addition of
\* bytes, for the whole vectors; the tail is signed.
VnniDot(x, w) ==
  LET vec == (Len(x) \div Vector) * Vector
      ua == [k \in 1..vec |-> (x[k] + Half) % (2 * Half)]
  IN Sum([k \in 1..vec |-> ua[k] * w[k]]) - Half * Sum(Part(w, 0, vec))
     + Sum(Times(Part(x, vec, Len(x) - vec), Part(w, vec, Len(x) - vec)))

\* A block of weights in -8..7, two to a byte, and as the kernels unpack it.
Q4Pack(v) == [i \in 1..(Q4Block \div 2) |-> (v[2 * i - 1] + 8) + 16 * (v[2 * i] + 8)]
Q4Unpack(qs) ==
  [k \in 1..Q4Block |-> IF k % 2 = 1 THEN qs[(k + 1) \div 2] % 16 ELSE qs[k \div 2] \div 16]

Q4Corr(x) ==
  [b \in 1..(Len(x) \div Q4Block) |-> -8 * Sum(Part(x, (b - 1) * Q4Block, Q4Block))]

\* The dot products of the blocks of a row, two blocks to a vector and an odd
\* one by itself; each is scaled by its own block's scale.
Q4RowDots(x, row) ==
  LET corr == Q4Corr(x)
      dot(b) == Sum(Times(Part(x, b * Q4Block, Q4Block), Q4Unpack(row[b + 1])))
                + corr[b + 1]
      pairs == Touched(Len(row), <<2, 1>>)
  IN [i \in DOMAIN pairs |-> dot(pairs[i])]

-----------------------------------------------------------------------------
(* What they promise.                                                       *)

Once(s, all) == Len(s) = Cardinality(all) /\ Range(s) = all

\* However many threads there are, every row of a product is computed, by one
\* thread, once; also where a task begins in one matrix and ends in another.
RowsOnce(n, nt, kv) ==
  /\ \A widths \in {<<2, 1>>, <<4, 1>>} : Once(Matvec(n, nt, widths), 0..(n - 1))
  /\ Once(MatvecQkv(n, kv, nt), {"q"} \X (0..(n - 1)) \cup {"k", "v"} \X (0..(kv - 1)))

\* Every output of a convolution, and of its transpose, is computed once, whatever the tiles leave.
CellsOnce(rows, length) ==
  LET cells == (0..(rows - 1)) \X (0..(length - 1))
  IN /\ Once(Conv1dInt8(rows, length), cells)
     /\ \A nt \in 1..3 : Once(GemmInt8(rows, length, nt), cells)

\* The columns of a row are taken once each and in their order by every
\* sequence of vector loops that ends in one of single elements.
ColumnsOnce(n) ==
  \A widths \in {<<16, 4, 1>>, <<8, 4, 1>>, <<4, 1>>, <<1>>} : Touched(n, widths) = Upto(0, n)

\* The dot products over shifted values are those of the values.
DotsExact(x, w) ==
  /\ VnniDot(x, w) = Sum(Times(x, w))
  /\ Len(x) % Q4Block = 0 =>
       LET blocks == Len(x) \div Q4Block
           of(s, b) == Part(s, (b - 1) * Q4Block, Q4Block)
           row == [b \in 1..blocks |-> Q4Pack(of(w, b))]
       IN Q4RowDots(x, row) = [b \in 1..blocks |-> Sum(Times(of(x, b), of(w, b)))]
=============================================================================
