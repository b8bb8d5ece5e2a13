--------------------------------- MODULE Layers ---------------------------------
(* The forward passes of python/vkml/nn.py, layer by layer, for what each       *)
(* element of a result depends on: a tensor is its shape and, at every index,   *)
(* the set of <<sample, position>> whose values reached it.  Weights depend on  *)
(* nothing.  The networks are those of the examples and small ones around the   *)
(* layers the examples do not use; widths and image sides are scaled down.      *)
EXTENDS Naturals, Sequences, FiniteSets, SequencesExt

CONSTANTS
  BatchSize,    \* the samples in a batch
  SeqLen,       \* positions of a sequence
  Width,        \* d_model, and the channels of an image
  Heads,        \* num_heads
  ImageSide,
  MaxLen        \* the rows of the positional table
ASSUME LayersAssumption ==
  /\ {BatchSize, SeqLen, Width, Heads, ImageSide, MaxLen} \subseteq Nat \ {0}
  /\ Width % Heads = 0 /\ Width % 2 = 0     \* what the constructors demand

VARIABLES
  net,          \* the layers still to run
  batchFirst, causal, normFirst, frozen,    \* the arguments of the layers; eval mode
  x,            \* the tensor between two layers
  built         \* the network
lyVars == <<net, batchFirst, causal, normFirst, frozen, x, built>>

MaxDim(s) == CHOOSE d \in Range(s) : \A e \in Range(s) : e <= d
Idx(s) == {i \in [1..Len(s) -> 0..(MaxDim(s) - 1)] : \A k \in DOMAIN s : i[k] < s[k]}
Tensor(s, f(_)) == [shape |-> s, dep |-> FoldSet(LAMBDA i, acc : (i :> f(i)) @@ acc, <<>>, Idx(s))]
Product(s) == FoldLeft(LAMBDA a, b : a * b, 1, s)

(* Views.  reshape keeps the row-major order. *)
Flat(s, i) == FoldLeft(LAMBDA a, k : a * s[k] + i[k], 0, [k \in DOMAIN s |-> k])
Reshape(t, s) ==
  LET at == [n \in {Flat(t.shape, i) : i \in DOMAIN t.dep} |-> CHOOSE i \in DOMAIN t.dep : Flat(t.shape, i) = n]
  IN Tensor(s, LAMBDA i : t.dep[at[Flat(s, i)]])
Permute(t, p) ==
  Tensor([k \in DOMAIN p |-> t.shape[p[k]]],
         LAMBDA i : t.dep[[k \in DOMAIN p |-> i[CHOOSE m \in DOMAIN p : p[m] = k]]])
Transposed(t) == Permute(t, [k \in DOMAIN t.shape |-> IF k = 1 THEN 2 ELSE IF k = 2 THEN 1 ELSE k])
Along(t, i, axes) == UNION {t.dep[j] : j \in {j \in DOMAIN t.dep : \A k \in DOMAIN i : k \notin axes => j[k] = i[k]}}
Added(t, u) == Tensor(t.shape, LAMBDA i : t.dep[i] \cup u.dep[i])

(* Linear: x @ W^T + b. *)
Linear(t, out) ==
  LET r == Len(t.shape)  s == [t.shape EXCEPT ![r] = out] IN
  Tensor(s, LAMBDA i : UNION {t.dep[[i EXCEPT ![r] = k]] : k \in 0..(t.shape[r] - 1)})
(* ReLU, GELU and their like; Dropout with a mask of its own numbers. *)
Elementwise(t) == t

FlattenLayer(t) ==
  Reshape(t, <<t.shape[1], Product(SubSeq(t.shape, 2, Len(t.shape)))>>)

(* Embedding: index_select over the flattened indices, then the shape restored. *)
Embedding(t) ==
  LET rows == Reshape(t, <<Product(t.shape)>>)
      looked == Tensor(<<Product(t.shape), Width>>, LAMBDA i : rows.dep[<<i[1]>>])
  IN Reshape(looked, Append(t.shape, Width))

(* A window of an image axis: kernel, stride, padding. *)
WindowCount(n, k, stride, pad) == (n + 2 * pad - k) \div stride + 1
InWindow(h, o, k, stride, pad) == o * stride <= h + pad /\ h + pad < o * stride + k
Conv2d(t, out, k, stride, pad) ==
  LET s == <<t.shape[1], out, WindowCount(t.shape[3], k[1], stride[1], pad[1]),
             WindowCount(t.shape[4], k[2], stride[2], pad[2])>>
  IN Tensor(s, LAMBDA i : UNION {t.dep[j] : j \in {j \in DOMAIN t.dep :
       j[1] = i[1] /\ InWindow(j[3], i[3], k[1], stride[1], pad[1])
                   /\ InWindow(j[4], i[4], k[2], stride[2], pad[2])}})
(* Conv1d: the 2-D convolution with a height of one.                            *)
Conv1d(t, out, k, stride, pad) ==
  LET x4 == Reshape(t, <<t.shape[1], t.shape[2], 1, t.shape[3]>>)
      y4 == Conv2d(x4, out, <<1, k>>, <<1, stride>>, <<0, pad>>)
  IN Reshape(y4, <<t.shape[1], out, y4.shape[4]>>)
(* MaxPool2d and AvgPool2d: the stride is the kernel unless it is given. *)
Pool2d(t, k, stride) ==
  LET step == IF stride = 0 THEN k ELSE stride
      s == <<t.shape[1], t.shape[2], WindowCount(t.shape[3], k, step, 0), WindowCount(t.shape[4], k, step, 0)>>
  IN Tensor(s, LAMBDA i : UNION {t.dep[j] : j \in {j \in DOMAIN t.dep :
       j[1] = i[1] /\ j[2] = i[2] /\ InWindow(j[3], i[3], k, step, 0) /\ InWindow(j[4], i[4], k, step, 0)}})

(* Normalisation: LayerNorm over the last axis; BatchNorm2d over all but the    *)
(* channels in training, pointwise with the running statistics otherwise.       *)
LayerNorm(t) == Tensor(t.shape, LAMBDA i : Along(t, i, {Len(t.shape)}))
BatchNorm2d(t) == IF frozen THEN t ELSE Tensor(t.shape, LAMBDA i : Along(t, i, {1, 3, 4}))

(* MultiheadAttention.                                                          *)
HeadDim == Width \div Heads
SplitHeads(t) == Permute(Reshape(t, <<t.shape[1], t.shape[2], Heads, HeadDim>>), <<1, 3, 2, 4>>)
MergeUnpermuted(t) == Reshape(t, <<t.shape[1], t.shape[3], Width>>)
MergeHeads(t) == Reshape(Permute(t, <<1, 3, 2, 4>>), <<t.shape[1], t.shape[3], Width>>)
Project(t) == Linear(t, Width)
(* triu(ones, 1): a query attends to itself and what is before it.              *)
CausalMaskShifted(q, k) == k - q > 1
CausalMask(q, k) == k > q
Attention(t) ==
  LET t1 == IF batchFirst THEN t ELSE Transposed(t)
      q == SplitHeads(Project(t1))  k == SplitHeads(Project(t1))  v == SplitHeads(Project(t1))
      seen(i) == {n \in 0..(k.shape[3] - 1) : ~(causal /\ CausalMask(i[3], n))}
      scores(i, n) == UNION {q.dep[[i EXCEPT ![4] = d]] \cup k.dep[[i EXCEPT ![3] = n, ![4] = d]] : d \in 0..(HeadDim - 1)}
      weights(i) == UNION {scores(i, n) : n \in seen(i)}
      context == Tensor(v.shape, LAMBDA i : weights(i) \cup UNION {v.dep[[i EXCEPT ![3] = n]] : n \in seen(i)})
      out == Linear(MergeHeads(context), Width)
  IN IF batchFirst THEN out ELSE Transposed(out)

(* PositionalEncoding: the rows of the table are constants.                     *)
SequenceAxis == IF batchFirst THEN 2 ELSE 1
PositionalEncoding(t) ==
  IF t.shape[Len(t.shape)] # Width \/ t.shape[SequenceAxis] > MaxLen THEN [shape |-> <<>>, dep |-> {}] ELSE t

(* TransformerEncoderLayer.forward, normalising before or after the residual.   *)
FeedForward(t) == Linear(Elementwise(Linear(t, 2 * Width)), Width)
EncoderLayer(t) ==
  IF normFirst
  THEN LET a == Added(t, Attention(LayerNorm(t))) IN Added(a, FeedForward(LayerNorm(a)))
  ELSE LET a == LayerNorm(Added(t, Attention(t))) IN LayerNorm(Added(a, FeedForward(a)))

(* cross_entropy and the other losses: reduced to one value, or one per row.    *)
LossNone(t) == Tensor(<<t.shape[1]>>, LAMBDA i : Along(t, <<i[1], 0>>, {2}))

RunLayer(layer, t) ==
  CASE layer = "flatten" -> FlattenLayer(t)
    [] layer = "hidden" -> Linear(t, 2)
    [] layer = "classes" -> Linear(t, 3)
    [] layer = "relu" -> Elementwise(t)
    [] layer = "dropout" -> Elementwise(t)
    [] layer = "conv" -> Conv2d(t, Width, <<3, 3>>, <<1, 1>>, <<1, 1>>)
    [] layer = "pool" -> Pool2d(t, 2, 0)
    [] layer = "bn" -> BatchNorm2d(t)
    [] layer = "conv1d" -> Conv1d(t, Width, 3, 1, 1)
    [] layer = "embed" -> Embedding(t)
    [] layer = "pe" -> PositionalEncoding(t)
    [] layer = "encoder" -> EncoderLayer(t)
    [] layer = "loss" -> LossNone(t)

(* build_mlp() and build_cnn() of mnist/train.py, build_cnn() of                *)
(* cifar100/train.py - the latter with three blocks -, and three more.          *)
Mlp == <<"flatten", "hidden", "relu", "classes", "loss">>
Block == <<"conv", "relu", "pool">>
Cnn == Block \o Block \o <<"flatten", "classes", "loss">>
CnnWithNorm == <<"conv", "bn", "relu", "pool", "dropout", "flatten", "classes">>
Encoder == <<"embed", "pe", "encoder", "encoder">>
Nets == {Mlp, Cnn, CnnWithNorm, <<"conv1d">>, Encoder}

(* An element of the input depends on itself: <<its sample, its position>>.     *)
Input(n, batches) ==
  IF n = Encoder
  THEN IF batches THEN Tensor(<<BatchSize, SeqLen>>, LAMBDA i : {<<i[1], i[2]>>})
       ELSE Tensor(<<SeqLen, BatchSize>>, LAMBDA i : {<<i[2], i[1]>>})
  ELSE IF n = <<"conv1d">> THEN Tensor(<<BatchSize, 1, SeqLen>>, LAMBDA i : {<<i[1], i[3]>>})
  ELSE Tensor(<<BatchSize, 1, ImageSide, ImageSide>>, LAMBDA i : {<<i[1], i[3] * ImageSide + i[4]>>})
ShapeAsked(n) ==
  CASE n = Encoder -> IF batchFirst THEN <<BatchSize, SeqLen, Width>> ELSE <<SeqLen, BatchSize, Width>>
    [] n = <<"conv1d">> -> <<BatchSize, Width, SeqLen>>
    [] n = CnnWithNorm -> <<BatchSize, 3>>
    [] OTHER -> <<BatchSize>>

NoNet == <<>>
LyInit ==
  /\ net = NoNet /\ built = NoNet /\ x = Tensor(<<1>>, LAMBDA i : {})
  /\ batchFirst = TRUE /\ causal = FALSE /\ normFirst = FALSE /\ frozen = TRUE

(* Module.__call__: a network, on a batch; then Sequential.forward(): one layer *)
(* after the other.  Only the encoder has the first three arguments, and only   *)
(* batch norm tells training from evaluation.                                   *)
CallModule(n, batches, mask, before, eval) ==
  /\ net = <<>>
  /\ n # Encoder => batches /\ ~mask /\ ~before
  /\ n # CnnWithNorm => eval
  /\ net' = n /\ built' = n /\ x' = Input(n, batches)
  /\ batchFirst' = batches /\ causal' = mask /\ normFirst' = before /\ frozen' = eval
ForwardLayer ==
  /\ net # <<>>
  /\ x' = RunLayer(Head(net), x) /\ net' = Tail(net)
  /\ UNCHANGED <<built, batchFirst, causal, normFirst, frozen>>
LyNext ==
  \/ \E n \in Nets, batches, mask, before, eval \in BOOLEAN : CallModule(n, batches, mask, before, eval)
  \/ ForwardLayer
LySpec == LyInit /\ [][LyNext]_lyVars

SampleOf(i) == IF built = Encoder /\ ~batchFirst THEN i[2] ELSE i[1]
PositionOf(i) == IF built = Encoder /\ ~batchFirst THEN i[1] ELSE i[2]
(* A forward pass keeps samples apart: in evaluation mode - and in training     *)
(* where no batch norm is - nothing computed for a sample depends on another    *)
(* sample; with is_causal no position depends on a later one; a result depends  *)
(* on every input it may depend on; and it has the shape the caller asked for.  *)
OwnInputsOnly ==
  built # NoNet =>
  LET given == Input(built, batchFirst)
      whole(i) == UNION {given.dep[j] : j \in {j \in DOMAIN given.dep : SampleOf(j) = SampleOf(i)}}
      due(i) == IF built = Encoder /\ causal THEN {d \in whole(i) : d[2] <= PositionOf(i)} ELSE whole(i)
  IN /\ frozen => \A i \in DOMAIN x.dep : x.dep[i] # {} /\ x.dep[i] \subseteq due(i)
     /\ net = <<>> =>
          /\ x.shape = ShapeAsked(built)
          /\ built # <<"conv1d">> /\ frozen => \A i \in DOMAIN x.dep : x.dep[i] = due(i)
================================================================================
