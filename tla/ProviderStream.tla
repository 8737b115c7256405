--------------------------- MODULE ProviderStream ---------------------------
(***************************************************************************)
(* One call of the model provider: OpenAiCompatibleAdapter.streamChat and  *)
(* the parser below it, which cuts the body into frames while the network  *)
(* cuts it into chunks wherever it likes.  The body is a sequence of       *)
(* symbols: the one line of each frame counts as one, and so do the CR and *)
(* LF characters behind it.  What a JSON document says is reduced to       *)
(* whether it carries a delta.                                             *)
(***************************************************************************)
EXTENDS Naturals, Sequences

CONSTANTS MaxFrames     \* bound: frames of the answer

ASSUME ProviderAssumption == MaxFrames \in Nat

\* A delta; usage, role or finish; a heartbeat; no JSON; the end mark.
FrameKinds == {"delta", "other", "comment", "broken", "DONE"}

VARIABLES
    frames,     \* what the provider sends
    eol,        \* how it ends its lines
    arrived,    \* symbols that were read
    buffer,     \* symbols the parser keeps
    got,        \* history: the deltas the worker received, by their frames
    phase,      \* of the call
    error,      \* of a failed call: its code, and whether it may be retried
    closed,     \* history: the provider closed the body before its end
    split       \* history: a chunk ended between a CR and its LF

providerVars == <<frames, eol, arrived, buffer, got, phase, error, closed, split>>

Symbol(char, i) == [char |-> char, frame |-> i]
CR == Symbol("CR", 0)
LF == Symbol("LF", 0)
NoError == [code |-> "none", retry |-> FALSE]

FrameLength == IF eol = "CRLF" THEN 5 ELSE 3
BodyLength == Len(frames) * FrameLength

\* Symbol p of the body.
At(p) == LET q == (p - 1) % FrameLength
         IN  IF q = 0 THEN Symbol("text", (p - 1) \div FrameLength + 1)
             ELSE IF eol = "CRLF" /\ q % 2 = 1 THEN CR ELSE LF

ProviderInit ==
    /\ frames \in UNION {[1..n -> FrameKinds] : n \in 0..MaxFrames}
    /\ eol \in {"LF", "CRLF"}
    /\ arrived = 0 /\ buffer = <<>> /\ got = <<>>
    /\ phase = "request" /\ error = NoError
    /\ closed = FALSE /\ split = FALSE

Fails(code, retry) == phase' = "failed" /\ error' = [code |-> code, retry |-> retry]

\* An error of the body may be retried only if no delta has come.
BodyFails(code, retry) == Fails(code, retry /\ got = <<>>)

----------------------------------------------------------------------------
(* The answer to the request                                               *)

\* mapHttpError: the code, and whether the call may be retried.
Refusal(status) ==
    CASE status = 401 -> <<"AUTHENTICATION_FAILED", FALSE>>
      [] status = 402 -> <<"INSUFFICIENT_BALANCE", FALSE>>
      [] status \in {400, 422} -> <<"INVALID_REQUEST", FALSE>>
      [] status = 429 -> <<"RATE_LIMITED", TRUE>>
      [] status \in {500, 503} -> <<"OVERLOADED", TRUE>>
      [] OTHER -> <<"UNKNOWN", status >= 500>>

Respond ==
    /\ phase = "request"
    /\ \/ phase' = "body" /\ UNCHANGED error
       \/ \E status \in {400, 401, 402, 404, 422, 429, 500, 502, 503} :
             Fails(Refusal(status)[1], Refusal(status)[2])
       \/ Fails("MALFORMED_STREAM", TRUE)
    /\ UNCHANGED <<frames, eol, arrived, buffer, got, closed, split>>

\* mapFetchError: the timeout of the call, its cancellation, or the network.
FetchErrors == {<<"TIMEOUT", TRUE>>, <<"CONNECTION_LOST", FALSE>>, <<"CONNECTION_LOST", TRUE>>}

----------------------------------------------------------------------------
(* The body                                                                *)

\* The first place of two LF in a row, 0 if there is none.
Boundary(s) ==
    LET places == {i \in 1..Len(s) : i < Len(s) /\ s[i] = LF /\ s[i + 1] = LF}
    IN  IF places = {} THEN 0 ELSE CHOOSE i \in places : \A j \in places : i <= j

\* A chunk whose line ends stay as they are.
NormalisedNot(chunk) == chunk

\* CR LF becomes LF where both are in the chunk.
Normalised(chunk) ==
    LET upto[i \in 0..Len(chunk)] ==
          IF i = 0 THEN <<>>
          ELSE IF chunk[i] = CR /\ i < Len(chunk) /\ chunk[i + 1] = LF THEN upto[i - 1]
          ELSE Append(upto[i - 1], chunk[i])
    IN  upto[Len(chunk)]

\* A call is in its reading loop once every complete frame is out of the buffer.
Reading == phase = "body" /\ Boundary(buffer) = 0

ReadChunk(n) ==
    /\ Reading /\ arrived + n <= BodyLength
    /\ buffer' = buffer \o Normalised([i \in 1..n |-> At(arrived + i)])
    /\ arrived' = arrived + n
    /\ split' = (split \/ At(arrived + n) = CR)
    /\ UNCHANGED <<frames, eol, got, phase, error, closed>>

\* readFrameData: the places of the lines with data.
Data(s) == {i \in DOMAIN s : \/ s[i].char = "part"
                             \/ s[i].char = "text" /\ frames[s[i].frame] # "comment"}

\* normalizeChunk: two documents in one frame, a part of one, and an end mark
\* with a CR behind it are no JSON.
Receive(s, otherwise) ==
    \/ Data(s) = {} /\ phase' = otherwise /\ UNCHANGED <<got, error>>
    \/ /\ \E i, j \in Data(s) : i # j
       /\ BodyFails("MALFORMED_STREAM", TRUE) /\ UNCHANGED got
    \/ \E place \in Data(s) :
          /\ Data(s) = {place}
          /\ LET kind == IF s[place].char = "part" THEN "broken" ELSE frames[s[place].frame]
                 bare == ~(place < Len(s) /\ s[place + 1] = CR)
             IN  CASE kind = "broken" \/ (kind = "DONE" /\ ~bare) ->
                        BodyFails("MALFORMED_STREAM", TRUE) /\ UNCHANGED got
                   [] kind = "DONE" /\ bare -> phase' = "done" /\ UNCHANGED <<got, error>>
                   [] kind = "delta" ->
                        phase' = otherwise /\ got' = Append(got, s[place].frame) /\ UNCHANGED error
                   [] kind = "other" -> phase' = otherwise /\ UNCHANGED <<got, error>>

TakeFrame ==
    /\ phase = "body" /\ Boundary(buffer) # 0
    /\ buffer' = SubSeq(buffer, Boundary(buffer) + 2, Len(buffer))
    /\ Receive(SubSeq(buffer, 1, Boundary(buffer) - 1), "body")
    /\ UNCHANGED <<frames, eol, arrived, closed, split>>

\* The body is over: what is left counts as a frame, and an answer without an
\* end mark as complete.
BodyEnds ==
    /\ Reading /\ (arrived = BodyLength \/ closed)
    /\ Receive(buffer, "done")
    /\ buffer' = <<>>
    /\ UNCHANGED <<frames, eol, arrived, closed, split>>

\* The provider closes the body before its end, perhaps within a line.
ClosesEarly ==
    /\ Reading /\ arrived < BodyLength /\ ~closed
    /\ closed' = TRUE
    /\ buffer' \in {buffer} \cup
          {Append(buffer, Symbol("part", i)) : i \in
              {j \in DOMAIN frames : At(arrived + 1) = Symbol("text", j) /\ frames[j] # "comment"}}
    /\ arrived' = BodyLength
    /\ UNCHANGED <<frames, eol, got, phase, error, split>>

\* fetch or the next read rejects.
Breaks ==
    /\ phase = "request" \/ Reading
    /\ \E e \in FetchErrors : BodyFails(e[1], e[2])
    /\ UNCHANGED <<frames, eol, arrived, buffer, got, closed, split>>

ProviderNext ==
    \/ Respond \/ TakeFrame \/ BodyEnds \/ ClosesEarly \/ Breaks
    \/ \E n \in 1..(MaxFrames * 5) : ReadChunk(n)

ProviderSpec == ProviderInit /\ [][ProviderNext]_providerVars

----------------------------------------------------------------------------
(* Properties                                                              *)

\* Everything keeps its type.
ProviderTypeOK ==
    /\ frames \in Seq(FrameKinds) /\ eol \in {"LF", "CRLF"}
    /\ arrived \in 0..BodyLength
    /\ buffer \in Seq([char : {"text", "part", "CR", "LF"}, frame : 0..Len(frames)])
    /\ got \in Seq(1..Len(frames))
    /\ phase \in {"request", "body", "done", "failed"}
    /\ error \in [code : {"none", "AUTHENTICATION_FAILED", "INSUFFICIENT_BALANCE",
                          "INVALID_REQUEST", "RATE_LIMITED", "OVERLOADED", "UNKNOWN",
                          "MALFORMED_STREAM", "TIMEOUT", "CONNECTION_LOST"},
                  retry : BOOLEAN]
    /\ closed \in BOOLEAN /\ split \in BOOLEAN

\* The deltas the frames ask for: those before an end mark or a broken frame.
Readable == {i \in DOMAIN frames : \A j \in 1..i : frames[j] \notin {"DONE", "broken"}}
Wanted == {i \in Readable : frames[i] = "delta"}
Received == {got[i] : i \in DOMAIN got}

\* However the body is cut into chunks, the worker receives the wanted deltas
\* once, in order and without a gap, and a call that failed behind a delta is
\* not retried; a call that ends has every delta unless the body was closed
\* early, and if no cut falls between a CR and its LF either, only broken
\* frames are refused.
FramesSurviveChunks ==
    /\ Received \subseteq Wanted
    /\ \A i, j \in DOMAIN got : i < j => got[i] < got[j]
    /\ \A w \in Wanted, g \in Received : w < g => w \in Received
    /\ error.retry => got = <<>>
    /\ (phase = "done" /\ ~closed) => Wanted \subseteq Received
    /\ (error.code = "MALFORMED_STREAM" /\ arrived > 0 /\ ~split /\ ~closed) =>
          \E i \in DOMAIN frames : frames[i] = "broken"
=============================================================================
