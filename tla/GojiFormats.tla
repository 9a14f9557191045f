---------------------------- MODULE GojiFormats ----------------------------
(***************************************************************************)
(* The stored forms of a value in smart_compression.go, as functions: which*)
(* values are compressed, how a value is cut into pieces, and what         *)
(* Decompress makes of each form.                                          *)
(*                                                                         *)
(* A value is a sequence of bytes, and a byte is one of a few letters: the *)
(* printable "{", "}", "a" and "b", the unprintable "x", the markers "01", *)
(* "02" and "03" of the three container formats, and "gz", which stands    *)
(* for all the bytes of a compressed stream a caller stores as a value.    *)
(* A blob is what an algorithm makes of a piece; only that algorithm reads *)
(* it.  A form is a marker and its parts; the headers of a container keep  *)
(* the algorithm of each part and, but for the mixed one, its size.        *)
(***************************************************************************)
EXTENDS Integers, Sequences, FiniteSets, FiniteSetsExt, SequencesExt

CONSTANTS
  MinSize, MaxSize,   \* config.MinSize and MaxSize
  SampleSize,         \* config.SampleSize
  CompressionGain     \* config.CompressionGain, in percent

ASSUME SizesAssumption ==
  /\ {MinSize, MaxSize, SampleSize, CompressionGain} \subseteq Nat
  /\ SampleSize > 0

Printable == {"{", "}", "a", "b"}

Bytes == Printable \cup {"x", "01", "02", "03", "gz"}

Algorithms == {"none", "snappy", "zstd", "gzip"}

\* What a decoder that fails returns.
Failed == <<"error">>

\* The value inside the stream "gz".
Inside == <<"a", "a">>
---------------------------------------------------------------------------
\* The share of d, in percent, that compressing it saves: a repeated byte is saved.
Savings(d) == (100 * (Len(d) - Cardinality(Range(d)))) \div Len(d)

\* What the gain is measured on: all of the value with the configured algorithm, its
\* beginning when the choice is adaptive (fixed is "none").
Tested(fixed, d) == IF fixed # "none" THEN d ELSE SubSeq(d, 1, Min({Len(d), SampleSize}))

\* Entropy, redundancy and the gain of the best algorithm are one measure here.
ShouldCompress(fixed, d) ==
  /\ Len(d) >= MinSize
  /\ Len(d) <= MaxSize
  /\ Savings(Tested(fixed, d)) >= CompressionGain

IsJSON(d) == d[1] = "{" /\ d[Len(d)] = "}"

IsText(d) == 10 * Len(SelectSeq(d, LAMBDA b : b \in Printable)) > 8 * Len(d)

\* selectBestAlgorithmWithContext: the configured algorithm, or, when the choice is
\* adaptive, one by the kind of data.
Algorithm(fixed, d) ==
  IF fixed # "none" THEN fixed
  ELSE IF IsJSON(d) THEN "gzip"
  ELSE IF IsText(d) THEN "zstd"
  ELSE "snappy"

Blob(d, algo) == [algo |-> algo, of |-> d]
---------------------------------------------------------------------------
\* Mutant of PieceCount: the last piece, shorter than the others, is forgotten.
FullPieces(d, size) == Len(d) \div size

PieceCount(d, size) == (Len(d) + size - 1) \div size

\* data[i*size : min((i+1)*size, len)] of the first n pieces.
Pieces(d, size, n) ==
  [i \in 1 .. n |-> SubSeq(d, (i - 1) * size + 1, Min({i * size, Len(d)}))]

\* compressMixedMode and compressStream.
AllPieces(d, size) == Pieces(d, size, PieceCount(d, size))

\* compressParallel: no more pieces than workers.  The length is divided among them and
\* the remainder belongs to none.
FewPieces(d, size, most) ==
  IF PieceCount(d, size) > most
  THEN Pieces(d, Len(d) \div most, most)
  ELSE AllPieces(d, size)

\* The jobs of a value cut into pieces, each with its algorithm.
Jobs(pieces, algos) ==
  [i \in DOMAIN pieces |-> [data |-> pieces[i], algo |-> algos[i]]]

\* compressMixedMode and compressParallel choose an algorithm for each piece.
Chosen(fixed, pieces) == [i \in DOMAIN pieces |-> Algorithm(fixed, pieces[i])]
---------------------------------------------------------------------------
Form(mark, jobs, blobs) ==
  [mark |-> mark,
   parts |-> [i \in DOMAIN jobs |->
               [algo |-> jobs[i].algo, size |-> Len(jobs[i].data), blob |-> blobs[i]]]]

Blobs(jobs) == [i \in DOMAIN jobs |-> Blob(jobs[i].data, jobs[i].algo)]

\* A value that is stored as it is, and one that one algorithm compressed: no marker, and
\* nothing in the bytes that says which.
Raw(d) == LET jobs == Jobs(<<d>>, <<"none">>) IN Form("none", jobs, Blobs(jobs))

Plain(d, algo) == LET jobs == Jobs(<<d>>, <<algo>>) IN Form("none", jobs, Blobs(jobs))

\* compressMixedMode.
Mixed(d, size, fixed) ==
  LET pieces == AllPieces(d, size)
      jobs == Jobs(pieces, Chosen(fixed, pieces))
  IN  Form("01", jobs, Blobs(jobs))
---------------------------------------------------------------------------
\* decompressChunk: the algorithm of the header must be the one that wrote the blob.
Chunk(part) == IF part.algo = part.blob.algo THEN part.blob.of ELSE Failed

\* decompressParallelMode and decompressStreamMode compare the sizes.
SizesMatch(form) ==
  form.mark = "01" \/ \A i \in DOMAIN form.parts : Len(Chunk(form.parts[i])) = form.parts[i].size

\* The three container formats.
Unpacked(form) ==
  IF (\E i \in DOMAIN form.parts : Chunk(form.parts[i]) = Failed) \/ ~SizesMatch(form)
  THEN Failed
  ELSE FlattenSeq([i \in DOMAIN form.parts |-> Chunk(form.parts[i])])

\* Decompress of the bytes d of a value stored as it is.  A leading marker is taken for a
\* container: the mixed decoder finds no header and returns what it has so far, nothing;
\* the other two read past the end.  A stream that is itself the value is decompressed.
Misread(d) ==
  \/ d # <<>> /\ d[1] \in {"01", "02", "03"}
  \/ d = <<"gz">>

ReadRaw(d) ==
  IF ~Misread(d) THEN d
  ELSE IF d[1] = "01" THEN <<>>
  ELSE IF d[1] = "gz" THEN Inside
  ELSE Failed

\* Decompress: by the first byte, then by trying snappy, zstd and gzip in turn.  It never
\* looks at the algorithm the entry is labelled with.
Decompress(form) ==
  IF form.mark # "none" THEN Unpacked(form)
  ELSE LET blob == form.parts[1].blob
       IN  IF blob.algo = "none" THEN ReadRaw(blob.of) ELSE blob.of
===========================================================================
