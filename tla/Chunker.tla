------------------------------ MODULE Chunker ------------------------------
(***************************************************************************)
(* The document chunkers of rag.  A text is a sequence of characters: a    *)
(* character is its kind and its place, so that what is cut out of a text  *)
(* can be told from what is repeated.  Kinds are a blank separator, as a   *)
(* newline, a separator that is not blank, as a full stop, and letters.    *)
(***************************************************************************)
EXTENDS Ordering, SequencesExt

CONSTANTS
    MaxText,         \* the longest text (a bound of the model)
    Sizes,           \* values of chunk_size
    Overlaps         \* values of chunk_overlap

ASSUME ChunkerAssumption ==
    MaxText \in Nat /\ Sizes \subseteq Nat \ {0} /\ Overlaps \subseteq Nat

Kinds == {"newline", "stop", "letter"}
Separators == <<"newline", "stop">>

VARIABLES
    chunker,         \* the class of the chunker
    document,        \* the text
    size, overlap,   \* chunk_size, chunk_overlap
    chunks           \* what chunk returned

chunkerVars == <<chunker, document, size, overlap, chunks>>

\* Before the call: an empty chunk, which no chunker returns.
NoChunks == << <<>> >>

Blank(s) == \A i \in DOMAIN s : s[i][1] = "newline"

NotBlank(s) == IF Blank(s) THEN <<>> ELSE <<s>>

LastChars(s, n) == IF n >= Len(s) THEN s ELSE SubSeq(s, Len(s) - n + 1, Len(s))

\* text.split(sep), each separator with the part that it begins.
Parts(text, sep) ==
    LET begin == {1} \cup {i \in DOMAIN text : text[i][1] = sep}
        count == Cardinality(begin)
        End(n) == IF n < count THEN Ascending(begin)[n + 1] - 1 ELSE Len(text)
    IN  [n \in 1 .. count |-> SubSeq(text, Ascending(begin)[n], End(n))]

WithoutSep(part, sep) ==
    IF part # <<>> /\ part[1][1] = sep THEN Tail(part) ELSE part

\* Mutant: the part that does not fit is lost with the chunk it closes.
MergeStepLoses(acc, part, sep) ==
    IF acc.current = <<>> THEN [acc EXCEPT !.current = WithoutSep(part, sep)]
    ELSE IF Len(acc.current) + Len(part) <= size
    THEN [acc EXCEPT !.current = @ \o part]
    ELSE [done |-> acc.done \o NotBlank(acc.current),
          current |-> LastChars(acc.current, overlap)]

\* One turn of the loop over parts: a part joins the current chunk if it fits,
\* otherwise the chunk is done and the next one begins with its overlap.
MergeStep(acc, part, sep) ==
    IF acc.current = <<>> THEN [acc EXCEPT !.current = WithoutSep(part, sep)]
    ELSE IF Len(acc.current) + Len(part) <= size
    THEN [acc EXCEPT !.current = @ \o part]
    ELSE [done |-> acc.done \o NotBlank(acc.current),
          current |-> IF overlap > 0 THEN LastChars(acc.current, overlap) \o part
                      ELSE WithoutSep(part, sep)]

Merged(text, sep) ==
    LET acc == FoldLeft(LAMBDA a, part : MergeStep(a, part, sep),
                        [done |-> <<>>, current |-> <<>>], Parts(text, sep))
    IN  acc.done \o NotBlank(acc.current)

\* The split by characters: windows of chunk_size every size - overlap; Python's
\* range refuses a step of 0, and gives nothing for a step below.
Windows(text) ==
    LET step == size - overlap
        starts == IF step <= 0 THEN {}
                  ELSE {i \in DOMAIN text : (i - 1) % step = 0}
        window(i) == SubSeq(text, i, IF i + size - 1 < Len(text) THEN i + size - 1
                                     ELSE Len(text))
    IN  FlattenSeq([n \in 1 .. Cardinality(starts) |->
                       NotBlank(window(Ascending(starts)[n]))])

\* RecursiveChunker._chunk_recursive.  It takes the first separator the text has
\* and looks no further into a part, however long: nothing is recursive.
ChunkText(text) ==
    LET found == {i \in DOMAIN Separators :
                     \E j \in DOMAIN text : text[j][1] = Separators[i]}
    IN  IF Len(text) <= size THEN NotBlank(text)
        ELSE IF found = {} THEN Windows(text)
        ELSE Merged(text, Separators[CHOOSE i \in found : \A j \in found : i <= j])

\* SemanticChunker: a sentence begins with what is not blank, at the start or
\* where blanks follow a stop; it ends before the blanks that precede the next.
BySentence(text) ==
    LET solid == {i \in DOMAIN text : text[i][1] # "newline"}
        Earlier(i) == {j \in solid : j < i}
        begin == {i \in solid : \/ Earlier(i) = {}
                                \/ /\ Max(Earlier(i)) < i - 1
                                   /\ text[Max(Earlier(i))][1] = "stop"}
        End(b) == Max({j \in solid : j >= b /\ \A c \in begin : c > b => j < c})
    IN  [n \in 1 .. Cardinality(begin) |->
            SubSeq(text, Ascending(begin)[n], End(Ascending(begin)[n]))]

-----------------------------------------------------------------------------
ChunkerInit ==
    /\ chunker \in {"recursive", "semantic"}
    /\ \E n \in 0 .. MaxText : \E kinds \in [1 .. n -> Kinds] :
          document = [i \in 1 .. n |-> <<kinds[i], i>>]
    /\ size \in Sizes /\ overlap \in Overlaps
    /\ chunks = NoChunks

\* chunk, of the chunker the factory made; chunk_size = chunk_overlap raises for
\* a text that is split by characters, which is no chunks at all to a caller.
Chunk ==
    /\ chunks = NoChunks
    /\ chunks' = IF chunker = "recursive" THEN ChunkText(document)
                 ELSE BySentence(document)
    /\ UNCHANGED <<chunker, document, size, overlap>>

ChunkerNext == Chunk

ChunkerSpec == ChunkerInit /\ [][ChunkerNext]_chunkerVars

-----------------------------------------------------------------------------
\* No letter of a document is lost in chunking, and letters stay in the order of
\* the document but for the overlap that begins a chunk, as long as the overlap
\* is smaller than a chunk (otherwise a text without separators has no chunks).
NothingLost ==
    chunks # NoChunks /\ (overlap < size \/ chunker = "semantic") =>
        /\ \A i \in DOMAIN document : document[i][1] = "letter" =>
              \E c \in DOMAIN chunks : Contains(chunks[c], document[i])
        /\ \A c \in DOMAIN chunks :
              /\ ~Blank(chunks[c])
              /\ \A i, j \in DOMAIN chunks[c] : i < j => chunks[c][i][2] < chunks[c][j][2]
              /\ \A d \in c + 1 .. Len(chunks) :
                    chunks[c][1][2] < chunks[d][Len(chunks[d])][2]
=============================================================================
