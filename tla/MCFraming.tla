----------------------------- MODULE MCFraming -----------------------------
(***************************************************************************)
(* Framing checked by TLC on small streams, when the module of a run       *)
(* extends this one: however a stream is cut, the decoder returns the      *)
(* payloads that were encoded, and fails where the stream says so.         *)
(***************************************************************************)
EXTENDS Framing, SequencesExt, FiniteSetsExt

\* The payload <<7>> is no JSON.
Sevens == {<<7>>}

Payloads == {<<>>, <<1>>, <<1, 2>>, <<3, 2, 1>>}

PayloadSequences == SeqOf(Payloads, 3)
Bytes(ps) == FlattenSeq([i \in DOMAIN ps |-> Encode(ps[i])])

\* The ways to cut a stream: into three chunks, or byte by byte.
Chunkings(s) ==
    LET cuts == {<<i, j>> \in (0..Len(s)) \X (0..Len(s)) : i <= j}
    IN  {<<SubSeq(s, 1, c[1]), SubSeq(s, c[1] + 1, c[2]), SubSeq(s, c[2] + 1, Len(s))>> :
           c \in cuts}
        \cup {[i \in DOMAIN s |-> <<s[i]>>]}

\* What a host or a client has read after some chunks: it gives up at the
\* first failure.
Reading(chunks) ==
    FoldLeft(LAMBDA x, bytes :
               IF x.failed THEN x
               ELSE LET y == Push(x.decoder, bytes)
                    IN  [y EXCEPT !.frames = x.frames \o @],
             [frames |-> <<>>, failed |-> FALSE, decoder |-> NewDecoder],
             chunks)

\* However the bytes of well-formed frames are cut into chunks, the decoder
\* returns their payloads, and at the end it has nothing left.
ASSUME FramesSurviveCutting ==
    \A ps \in PayloadSequences :
      \A chunks \in Chunkings(Bytes(ps)) :
        LET x == Reading(chunks)
        IN  /\ ~x.failed /\ x.frames = ps
            /\ x.decoder.read = 0 /\ x.decoder.write = 0

\* A stream that breaks off has given the payloads of the frames that were
\* complete, and no others.
ASSUME BrokenStreamsGiveWhatIsComplete ==
    \A ps \in {q \in PayloadSequences : Len(q) = 2} :
      \A n \in 0..Len(Bytes(ps)) :
        \A chunks \in Chunkings(SubSeq(Bytes(ps), 1, n)) :
          LET x == Reading(chunks)
          IN  /\ ~x.failed /\ IsPrefix(x.frames, ps)
              /\ \A k \in 0..Len(ps) :
                   Len(Bytes(SubSeq(ps, 1, k))) <= n <=> k <= Len(x.frames)

\* A header that announces too much, or a payload that is no JSON, ends the
\* reading, whatever the chunks.
ASSUME BadFramesAreRefused ==
    \A ps \in {q \in PayloadSequences : Len(q) <= 2} :
      \A bad \in {Header(MaxFrame + 1), Header(16777216), Encode(<<7>>)} :
        \A chunks \in Chunkings(Bytes(ps) \o bad) :
          LET x == Reading(chunks)
          IN  x.failed /\ IsPrefix(x.frames, ps)
=============================================================================
