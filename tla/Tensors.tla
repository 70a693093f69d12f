------------------------------ MODULE Tensors ------------------------------
(***************************************************************************)
(* The host tensors of easy_llm: a shape and its elements in row-major     *)
(* order, and the operations that move elements without computing with     *)
(* them.  Indices and axes count from 0 as in the code.                    *)
(***************************************************************************)
EXTENDS Integers, SequencesExt

(* The elements are a function on 0 .. size - 1. *)
Tensor(shape, data) == [shape |-> shape, data |-> data]
NoTensor == Tensor(<<>>, <<>>)

(* What Tensor(size, shape) fills its elements with. *)
Zero == [bytes |-> "zero"]

Size(shape) == FoldLeft(LAMBDA m, n : m * n, 1, shape)
Indices(shape) == 0 .. Size(shape) - 1
Axes(shape) == 1 .. Len(shape)

Stride(shape, i) == Size(SubSeq(shape, i + 1, Len(shape)))
Coordinates(shape, index) ==
    [i \in Axes(shape) |-> (index \div Stride(shape, i)) % shape[i]]
IndexOf(shape, coordinates) ==
    MapThenSumSet(LAMBDA i : coordinates[i] * Stride(shape, i), Axes(shape))

Swapped(seq, dim0, dim1) ==
    [seq EXCEPT ![dim0 + 1] = seq[dim1 + 1], ![dim1 + 1] = seq[dim0 + 1]]

(* Every element goes where its swapped coordinates say; the loop over the old
   indices runs in parallel, which is sound only because no two elements go to
   the same place. *)
Transpose(t, dim0, dim1) ==
    LET shape == Swapped(t.shape, dim0, dim1)
        from == [index \in Indices(shape) |->
            IndexOf(t.shape, Swapped(Coordinates(shape, index), dim0, dim1))]
    IN Tensor(shape, [index \in Indices(shape) |-> t.data[from[index]]])

(* The last axis becomes two. *)
SplitHead(t, num_heads) ==
    LET hidden == t.shape[Len(t.shape)]
    IN Tensor(SubSeq(t.shape, 1, Len(t.shape) - 1) \o <<num_heads, hidden \div num_heads>>,
              t.data)

(* Where an element of the longer axis comes from. *)
Repeated(coordinate, repeats) == coordinate \div repeats

Repeat(t, repeats, axis) ==
    LET shape == [t.shape EXCEPT ![axis + 1] = @ * repeats]
        from(index) == [Coordinates(shape, index) EXCEPT
            ![axis + 1] = Repeated(@, repeats)]
    IN Tensor(shape, [index \in Indices(shape) |-> t.data[IndexOf(t.shape, from(index))]])

(* Two tensors one behind the other along an axis. *)
Concat(first, second, axis) ==
    LET at == axis + 1
        shape == [first.shape EXCEPT ![at] = @ + second.shape[at]]
        element(coordinates) ==
            IF coordinates[at] < first.shape[at]
            THEN first.data[IndexOf(first.shape, coordinates)]
            ELSE second.data[IndexOf(second.shape,
                    [coordinates EXCEPT ![at] = @ - first.shape[at]])]
    IN Tensor(shape, [index \in Indices(shape) |-> element(Coordinates(shape, index))])

(* slice_batch_4d *)
SliceBatch(t, b) ==
    LET shape == [t.shape EXCEPT ![1] = 1]
    IN Tensor(shape, [index \in Indices(shape) |-> t.data[b * Size(shape) + index]])

=============================================================================
