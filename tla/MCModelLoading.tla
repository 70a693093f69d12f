--------------------------- MODULE MCModelLoading ---------------------------
EXTENDS ModelLoading

Config(layers, hidden, heads, kv, theta) ==
    [num_layers |-> layers, hidden_size |-> hidden, num_heads |-> heads,
     num_heads_kv |-> kv, vocab_size |-> 3, rope_theta |-> theta]

Grouped == Config(1, 4, 2, 1, 1)

(* Grouped and ungrouped queries; two layers; heads that do not share the
   key/value heads evenly, too many of them, heads of odd size; what the
   validation of the configuration is for. *)
Configs ==
    {Grouped, Config(1, 4, 2, 2, 1), Config(2, 4, 2, 1, 1), Config(1, 8, 2, 1, 1),
     Config(1, 6, 3, 2, 1), Config(1, 4, 1, 2, 1), Config(1, 6, 2, 1, 1), Config(1, 4, 2, 1, 0),
     Config(0, 4, 2, 1, 1), Config(1, 4, 0, 1, 1), Config(1, 4, 2, 0, 1), Config(1, 5, 2, 1, 1)}

(* The checkpoint of a configuration, with five rows in the hidden layer. *)
PartShapes(c) ==
    LET h == c.hidden_size
        d == IF c.num_heads = 0 THEN 1 ELSE h \div c.num_heads
        kv == IF c.num_heads_kv = 0 THEN h ELSE d * c.num_heads_kv
    IN [q_proj |-> <<h, h>>, k_proj |-> <<kv, h>>, v_proj |-> <<kv, h>>, o_proj |-> <<h, h>>,
        down_proj |-> <<h, 5>>, gate_proj |-> <<5, h>>, up_proj |-> <<5, h>>,
        input_layernorm |-> <<h>>, post_attention_layernorm |-> <<h>>]

Shapes(c) ==
    [key \in {<<l, name, "weight">> : l \in 0 .. c.num_layers - 1, name \in DOMAIN PartShapes(c)}
             |-> PartShapes(c)[key[2]]]
    @@ EmbedWeight :> <<c.vocab_size, c.hidden_size>>
    @@ ModelNorm :> <<c.hidden_size>>

(* Other shapes a tensor may have: transposed, flat, of higher rank, one more
   row or column, empty. *)
Others(shape) ==
    {Reverse(shape), <<Elements(shape)>>, Append(shape, 1), <<>>,
     [shape EXCEPT ![1] = @ + 1], [shape EXCEPT ![1] = @ * 2], [shape EXCEPT ![Len(shape)] = 2 * @],
     [shape EXCEPT ![1] = 0], <<1>> \o shape}

BiasesOf(shapes) ==
    {<<<<key[1], key[2], "bias">>, bias>> :
        key \in {k \in DOMAIN shapes : Len(shapes[k]) = 2 /\ k[1] >= 0},
        bias \in {<<4>>, <<2>>, <<5, 1>>, <<3>>, <<0>>}}

Foreign(c) == {<<Model, "lm_head", "weight">>, <<c.num_layers, "q_proj", "weight">>,
               <<0, "input_layernorm", "bias">>}

Changed(shapes) ==
    UNION {{key :> other @@ shapes : other \in Others(shapes[key]) \cup {shapes[key] \o <<1, 1>>}} :
              key \in DOMAIN shapes}

Matrices(shapes) == {k \in DOMAIN shapes : Len(shapes[k]) = 2}

ShapesOf(c) ==
    LET s == Shapes(c)
    IN {s}
       \cup {[k \in DOMAIN s \ {key} |-> s[k]] : key \in DOMAIN s}
       \cup Changed(s)
       \cup {b[1] :> b[2] @@ s : b \in BiasesOf(s)}
       \cup {(b[1] :> b[2]) @@ (d[1] :> d[2]) @@ s : b, d \in BiasesOf(s)}
       \cup {key :> <<2>> @@ s : key \in Foreign(c)}

(* Two and three matrices of the grouped model that differ from it together. *)
PairsOf(c) ==
    LET s == Shapes(c)
        mlp == {<<0, name, "weight">> : name \in {"down_proj", "gate_proj", "up_proj"}}
    IN UNION {{(k :> a) @@ (m :> b) @@ s : a \in Others(s[k]), b \in Others(s[m])} :
                 k, m \in Matrices(s)}
       \cup {[k \in mlp |-> sizes[k]] @@ s :
                 sizes \in [mlp -> {<<4, 5>>, <<5, 4>>, <<4, 6>>, <<6, 4>>}]}

(* A file whose tensors follow each other. *)
FileOf(shapes, dtype) ==
    LET put(key, f) ==
            LET end == f.end + Elements(shapes[key]) * ByteWidth[dtype]
            IN [end |-> end,
                tensors |-> key :> [dtype |-> dtype, shape |-> shapes[key],
                                    begin |-> f.end, end |-> end] @@ f.tensors]
        filled == FoldSet(put, [end |-> 0, tensors |-> <<>>], DOMAIN shapes)
    IN [base |-> 8, size |-> 8 + filled.end, tensors |-> filled.tensors]

(* Files with one tensor of another type or elsewhere, and files cut short. *)
Damaged(f) ==
    UNION {{[f EXCEPT !.tensors[key] = [@ EXCEPT !.dtype = "I8"]],
            [f EXCEPT !.tensors[key] = [@ EXCEPT !.dtype = "F32"]]} : key \in DOMAIN f.tensors}
    \cup {[f EXCEPT !.tensors[key] = [@ EXCEPT !.begin = @ + d, !.end = @ + e]] :
             key \in DOMAIN f.tensors, d, e \in {-8, 0, 8}}
    \cup {[f EXCEPT !.size = @ - cut] : cut \in {1, 8, f.size - 8, f.size - 7}}

MCCases ==
    UNION {{[config |-> c, file |-> FileOf(s, "BF16")] : s \in ShapesOf(c)} : c \in Configs}
    \cup {[config |-> Grouped, file |-> FileOf(s, "F32")] : s \in PairsOf(Grouped)}
    \cup {[config |-> Grouped, file |-> f] : f \in Damaged(FileOf(Shapes(Grouped), "F16"))}
    \cup {[config |-> c, file |-> FileOf(Shapes(d), "BF16")] : c, d \in Configs}
=============================================================================
