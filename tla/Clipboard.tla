------------------------------ MODULE Clipboard ------------------------------
(***************************************************************************)
(* The clipboards: the stream of DCLP packets from the server and the      *)
(* texts the clip-update processes bring from the desktop, both into one   *)
(* buffer per clipboard (m_clipBuf and what goes with it in uSynergy.c),   *)
(* and what becomes of the buffer: wl-copy, or a DCLP stream to the server *)
(* when the screen is left.  A buffer is a sequence of cells, the letters  *)
(* of a text among them, and a number of four bytes is two cells: read at  *)
(* the wrong place, letters and halves of numbers are a number as well.    *)
(***************************************************************************)
EXTENDS Integers, Sequences, FiniteSets, SequencesExt

CONSTANTS
  Base,         \* what a cell counts to: 2^16 for two bytes
  Ids,          \* SYNERGY_CLIPBOARD_CLIPBOARD, SYNERGY_CLIPBOARD_SELECTION
  Texts,        \* what the user copies
  ServerData,   \* what the server may send: sequences of [format, text]
  MaxChunk,     \* cells in a DCLP chunk
  MaxPending    \* bound: clip-update processes and wl-copies under way, per clipboard

TextFormat == 0       \* USYNERGY_CLIPBOARD_FORMAT_TEXT
Letters == 0..Base - 1

ASSUME BaseAssumption == Base \in Nat \ {0}
ASSUME TextsAssumption == Texts \subseteq Seq(Letters) \ {<<>>}
ASSUME DataAssumption ==
  ServerData \subseteq Seq([format : 0..3, text : Seq(Letters)]) \ {<<>>}
ASSUME NumbersAssumption ==   \* every number fits its two cells
  /\ 3 < Base * Base
  /\ \A text \in Texts : Len(text) < Base * Base
  /\ \A data \in ServerData :
       Len(data) < Base * Base /\ \A i \in DOMAIN data : Len(data[i].text) < Base * Base
ASSUME BoundsAssumption == MaxChunk \in Nat \ {0} /\ MaxPending \in Nat \ {0}

Junk == -1            \* a cell realloc has added

Number(n) == <<n \div Base, n % Base>>
NumberAt(buf, pos) == Base * buf[pos + 1] + buf[pos + 2]     \* sspNetU32 after pos cells

Serial(data) ==
  Number(Len(data)) \o FlattenSeq([i \in DOMAIN data |->
    Number(data[i].format) \o Number(Len(data[i].text)) \o data[i].text])
LocalData(text) == <<[format |-> TextFormat, text |-> text]>>

VARIABLES
  clipBuf,         \* m_clipBuf, as long as its allocation
  clipLen,         \* m_clipLen
  clipPos,         \* m_clipPos
  clipPosExpect,   \* m_clipPosExpect
  clipInStream,    \* m_clipInStream
  clipGrabbed,     \* m_clipGrabbed
  stream,          \* what the server still has to send of its data
  updaters,        \* texts on their way from clip-update processes
  copiers,         \* texts given to wl-copy that the desktop has not taken yet
  got,             \* history: the data last put into the buffer, when it is complete, and by whom
  grabs            \* history: how many CCLP have been sent, modulo 2

ctx == <<clipBuf, clipLen, clipPos, clipPosExpect, clipInStream, clipGrabbed>>
vars == <<ctx, stream, updaters, copiers, got, grabs>>

ServerTexts == {f.text : f \in {g \in UNION {ToSet(d) : d \in ServerData} : g.format = TextFormat}}

NoStream == [data |-> <<>>, left |-> <<>>]
From(local, data) == [local |-> local, data |-> data]

TypeOK ==
  /\ clipBuf \in [Ids -> Seq(Int)] /\ clipLen \in [Ids -> Nat]
  /\ clipPos \in [Ids -> Nat] /\ clipPosExpect \in [Ids -> Nat]
  /\ clipInStream \in [Ids -> BOOLEAN] /\ clipGrabbed \in [Ids -> BOOLEAN]
  /\ stream \in [Ids -> [data : ServerData \cup {<<>>}, left : Seq(Int)]]
  /\ updaters \in [Ids -> Seq(Texts \cup ServerTexts)]
  /\ copiers \in [Ids -> Seq(Texts \cup ServerTexts)]
  /\ \A id \in Ids : Len(updaters[id]) + Len(copiers[id]) <= MaxPending
  /\ got \in [Ids -> [local : BOOLEAN, data : ServerData \cup {<<>>} \cup
                       {LocalData(text) : text \in Texts \cup ServerTexts}]]
  /\ grabs \in [Ids -> 0..1]

Init ==
  /\ clipBuf = [id \in Ids |-> <<>>] /\ clipLen = [id \in Ids |-> 0]
  /\ clipPos = [id \in Ids |-> 0] /\ clipPosExpect = [id \in Ids |-> 0]
  /\ clipInStream = [id \in Ids |-> FALSE] /\ clipGrabbed = [id \in Ids |-> FALSE]
  /\ stream = [id \in Ids |-> NoStream]
  /\ updaters = [id \in Ids |-> <<>>] /\ copiers = [id \in Ids |-> <<>>]
  /\ got = [id \in Ids |-> From(FALSE, <<>>)] /\ grabs = [id \in Ids |-> 0]

-----------------------------------------------------------------------------
(* Buffers. *)

Realloc(buf, n) == [i \in 1..n |-> IF i <= Len(buf) THEN buf[i] ELSE Junk]
Write(buf, pos, cells) ==
  [i \in DOMAIN buf |-> IF i \in pos + 1..pos + Len(cells) THEN cells[i - pos] ELSE buf[i]]

(* uSynergyClipBufContains takes the headers to follow one another, as if  *)
(* no data lay between: the i-th ends after DataAt(i) cells, and is read if *)
(* it ends in the first m_clipLen.  The data compared is not bounded.       *)
DataAt(i) == 2 + 4 * i
FormatLen(id, i) == NumberAt(clipBuf[id], DataAt(i) - 2)
Headers(id) ==
  IF clipInStream[id] \/ clipLen[id] < DataAt(1) THEN {}
  ELSE {i \in 1..NumberAt(clipBuf[id], 0) : DataAt(i) <= clipLen[id]}
Compared(id, text) == {i \in Headers(id) : FormatLen(id, i) = Len(text)}

(* What memcmp makes of cells that are not the buffer's, or that nobody has *)
(* written, is anyone's guess: the text is surely or perhaps contained.     *)
Holds(buf, cell, letter) == cell \in DOMAIN buf /\ buf[cell] = letter
Unknown(buf, cell) == cell \in DOMAIN buf => buf[cell] = Junk
SurelyContains(id, text) ==
  \E i \in Compared(id, text) : \A j \in DOMAIN text : Holds(clipBuf[id], DataAt(i) + j, text[j])
PerhapsContains(id, text) ==
  \E i \in Compared(id, text) : \A j \in DOMAIN text :
    Holds(clipBuf[id], DataAt(i) + j, text[j]) \/ Unknown(clipBuf[id], DataAt(i) + j)

ParsedAnyFormat(buf, limit) ==     \* mutant: whatever the format, it is text
  LET count == NumberAt(buf, 0)
      after[n \in 0..count] ==
        IF n = 0 THEN 2
        ELSE IF after[n - 1] + 4 > limit THEN limit + 1
        ELSE after[n - 1] + 4 + NumberAt(buf, after[n - 1] + 2)
  IN  [ok |-> \A n \in 1..count : after[n] <= limit,
       texts |-> FlattenSeq([n \in 1..count |->
         IF after[n] <= limit THEN <<SubSeq(buf, after[n - 1] + 5, after[n])>> ELSE <<>>])]

(* The formats in the first limit cells, as the packet handler walks them: *)
(* After(n) is the end of the n-th, beyond the limit if it does not parse. *)
Parsed(buf, limit) ==
  LET count == NumberAt(buf, 0)
      after[n \in 0..count] ==
        IF n = 0 THEN 2
        ELSE IF after[n - 1] + 4 > limit THEN limit + 1
        ELSE after[n - 1] + 4 + NumberAt(buf, after[n - 1] + 2)
  IN  [ok |-> \A n \in 1..count : after[n] <= limit,
       texts |-> FlattenSeq([n \in 1..count |->
         IF after[n] <= limit /\ NumberAt(buf, after[n - 1]) = TextFormat
         THEN <<SubSeq(buf, after[n - 1] + 5, after[n])>> ELSE <<>>])]

-----------------------------------------------------------------------------
(* Packets. *)

OpenStream(id, data) ==
  /\ stream' = [stream EXCEPT ![id] = [data |-> data, left |-> Serial(data)]]
  /\ clipPosExpect' = [clipPosExpect EXCEPT ![id] = Len(Serial(data))]
  /\ clipInStream' = [clipInStream EXCEPT ![id] = TRUE]
  /\ clipPos' = [clipPos EXCEPT ![id] = 0]
  /\ got' = [got EXCEPT ![id] = From(FALSE, <<>>)]
  /\ UNCHANGED <<clipLen, updaters, copiers, grabs>>
Enlarged(id, n, old) == IF n > old THEN [clipBuf EXCEPT ![id] = Realloc(@, n)] ELSE clipBuf

ClipStartGrabbed(id) ==            \* mutant: the clipboard is still grabbed
  /\ \A i \in Ids : stream[i] = NoStream
  /\ \E data \in ServerData :
       OpenStream(id, data) /\ clipBuf' = Enlarged(id, Len(Serial(data)), clipLen[id])
  /\ UNCHANGED clipGrabbed
ClipStartOnce(id) ==               \* mutant: a buffer that is there is not enlarged
  /\ \A i \in Ids : stream[i] = NoStream
  /\ \E data \in ServerData :
       /\ OpenStream(id, data)
       /\ clipBuf' = IF clipBuf[id] = <<>> THEN Enlarged(id, Len(Serial(data)), 0) ELSE clipBuf
  /\ clipGrabbed' = [clipGrabbed EXCEPT ![id] = FALSE]

(* DCLP, start: a buffer for more than m_clipLen is allocated, m_clipLen     *)
(* stays.  The server sends its clipboards one after the other.             *)
ClipStart(id) ==
  /\ \A i \in Ids : stream[i] = NoStream
  /\ \E data \in ServerData :
       OpenStream(id, data) /\ clipBuf' = Enlarged(id, Len(Serial(data)), clipLen[id])
  /\ clipGrabbed' = [clipGrabbed EXCEPT ![id] = FALSE]

(* DCLP, chunk: dropped unless a stream is open and has room for it *)
ClipChunk(id) ==
  /\ stream[id].left # <<>>
  /\ \E n \in 1..MaxChunk :
       LET chunk == SubSeq(stream[id].left, 1, n)
       IN  /\ n <= Len(stream[id].left)
           /\ stream' = [stream EXCEPT ![id].left = SubSeq(@, n + 1, Len(@))]
           /\ IF clipInStream[id] /\ clipPos[id] + n <= clipPosExpect[id]
              THEN /\ clipBuf' = [clipBuf EXCEPT ![id] = Write(@, clipPos[id], chunk)]
                   /\ clipPos' = [clipPos EXCEPT ![id] = @ + n]
              ELSE UNCHANGED <<clipBuf, clipPos>>
  /\ UNCHANGED <<clipLen, clipPosExpect, clipInStream, clipGrabbed, updaters, copiers, got, grabs>>

GiveTexts(id) ==
  LET parsed == Parsed(clipBuf[id], clipPosExpect[id])
  IN  /\ Len(updaters[id]) + Len(copiers[id]) + Len(parsed.texts) <= MaxPending
      /\ copiers' = [copiers EXCEPT ![id] = @ \o parsed.texts]
      /\ clipInStream' = [clipInStream EXCEPT ![id] = ~parsed.ok]
      /\ got' = [got EXCEPT ![id] = From(FALSE, stream[id].data)]

ClipEndAlways(id) ==               \* mutant: no matter whether the stream is open
  /\ stream[id] # NoStream /\ stream[id].left = <<>>
  /\ stream' = [stream EXCEPT ![id] = NoStream]
  /\ GiveTexts(id)
  /\ UNCHANGED <<clipBuf, clipLen, clipPos, clipPosExpect, clipGrabbed, updaters, grabs>>

(* DCLP, end: every text is given to wl-copy, by syn_clip_cb. *)
ClipEnd(id) ==
  /\ stream[id] # NoStream /\ stream[id].left = <<>>
  /\ stream' = [stream EXCEPT ![id] = NoStream]
  /\ IF clipInStream[id] THEN GiveTexts(id) ELSE UNCHANGED <<copiers, clipInStream, got>>
  /\ UNCHANGED <<clipBuf, clipLen, clipPos, clipPosExpect, clipGrabbed, updaters, grabs>>

(* The connection is lost in the middle of a stream, the buffer is not told.*)
StreamBreaks(id) ==
  /\ stream[id] # NoStream
  /\ stream' = [stream EXCEPT ![id] = NoStream]
  /\ UNCHANGED <<ctx, updaters, copiers, got, grabs>>

(* CCLP: the clipboard is another screen's. *)
ClipGrab(id) ==
  /\ clipGrabbed' = [clipGrabbed EXCEPT ![id] = FALSE]
  /\ UNCHANGED <<clipBuf, clipLen, clipPos, clipPosExpect, clipInStream>>
  /\ UNCHANGED <<stream, updaters, copiers, got, grabs>>

(* COUT: the clipboards grabbed here are sent, and no longer grabbed. *)
Leave ==
  /\ clipGrabbed' = [id \in Ids |-> FALSE]
  /\ UNCHANGED <<clipBuf, clipLen, clipPos, clipPosExpect, clipInStream>>
  /\ UNCHANGED <<stream, updaters, copiers, got, grabs>>

(* uSynergySendClipboard: the cells of all chunks *)
Sent(id) == SubSeq(clipBuf[id], 1, clipPos[id])

-----------------------------------------------------------------------------
(* The desktop. *)

Grab(id, text) ==
  LET len == Len(text) + DataAt(1)
  IN  /\ clipInStream' = [clipInStream EXCEPT ![id] = FALSE]
      /\ clipGrabbed' = [clipGrabbed EXCEPT ![id] = TRUE]
      /\ clipPos' = [clipPos EXCEPT ![id] = len]
      /\ clipBuf' = [clipBuf EXCEPT ![id] =
           Write(IF clipLen[id] < len THEN Realloc(@, len) ELSE @, 0, Serial(LocalData(text)))]
      /\ got' = [got EXCEPT ![id] = From(TRUE, LocalData(text))]
      /\ grabs' = [grabs EXCEPT ![id] = 1 - @]
      /\ UNCHANGED clipPosExpect

UpdateClipBufUnmeasured(id, n) ==  \* mutant: the length is not kept
  LET text == updaters[id][n]
  IN  /\ updaters' = [updaters EXCEPT ![id] = RemoveAt(@, n)]
      /\ \/ PerhapsContains(id, text) /\ UNCHANGED <<ctx, got, grabs>>
         \/ ~SurelyContains(id, text) /\ Grab(id, text) /\ UNCHANGED clipLen
      /\ UNCHANGED <<stream, copiers>>

(* uSynergyUpdateClipBuf, for the n-th of the processes that have one *)
UpdateClipBuf(id, n) ==
  LET text == updaters[id][n]
  IN  /\ updaters' = [updaters EXCEPT ![id] = RemoveAt(@, n)]
      /\ \/ PerhapsContains(id, text) /\ UNCHANGED <<ctx, got, grabs>>
         \/ /\ ~SurelyContains(id, text)
            /\ Grab(id, text)
            /\ clipLen' = [clipLen EXCEPT ![id] = IF @ < clipPos'[id] THEN clipPos'[id] ELSE @]
      /\ UNCHANGED <<stream, copiers>>

(* The user copies a text, and wl-paste -w runs clip-update. *)
UserCopies(id) ==
  /\ Len(updaters[id]) + Len(copiers[id]) < MaxPending
  /\ \E text \in Texts : updaters' = [updaters EXCEPT ![id] = Append(@, text)]
  /\ UNCHANGED <<ctx, stream, copiers, got, grabs>>

(* So it does when wl-copy has made a text the desktop's. *)
Copied(id) ==
  /\ copiers[id] # <<>>
  /\ copiers' = [copiers EXCEPT ![id] = Tail(@)]
  /\ updaters' = [updaters EXCEPT ![id] = Append(@, Head(copiers[id]))]
  /\ UNCHANGED <<ctx, stream, got, grabs>>

Next ==
  \/ Leave
  \/ \E id \in Ids :
       \/ ClipStart(id) \/ ClipChunk(id) \/ ClipEnd(id) \/ StreamBreaks(id) \/ ClipGrab(id)
       \/ UserCopies(id) \/ Copied(id)
       \/ \E n \in DOMAIN updaters[id] : UpdateClipBuf(id, n)

Spec == Init /\ [][Next]_vars

-----------------------------------------------------------------------------
(* Properties. *)

(* What the packets and the desktop write, what the parser reads and what   *)
(* is compared of the first format lie inside the buffer, although two      *)
(* writers with two notions of its size share it.  What is compared of a    *)
(* further format does not: its header is read where it is not, and its     *)
(* length is not checked.                                                   *)
InsideBuffer ==
  \A id \in Ids :
    /\ clipLen[id] <= Len(clipBuf[id])
    /\ clipInStream[id] => /\ clipPosExpect[id] <= Len(clipBuf[id])
                           /\ clipPos[id] <= clipPosExpect[id]
    /\ 1 \in Headers(id) => DataAt(1) + FormatLen(id, 1) <= Len(clipBuf[id])

(* A clipboard grabbed here is complete, and it is the text last copied     *)
(* here that would be sent: no stream from the server shows through it.     *)
SendsWhatWasCopied ==
  \A id \in Ids :
    clipGrabbed[id] => ~clipInStream[id] /\ got[id].local /\ Sent(id) = Serial(got[id].data)

TextsOf(data) ==
  FlattenSeq([i \in DOMAIN data |->
    IF data[i].format = TextFormat THEN <<data[i].text>> ELSE <<>>])

(* wl-copy is given the texts of the server's data, whole and in order,     *)
(* however it is cut into chunks and whatever broke or interrupted it.      *)
GivesWhatWasSent ==
  [][\A id \in Ids :
       Len(copiers'[id]) > Len(copiers[id]) =>
         copiers'[id] = copiers[id] \o TextsOf(stream[id].data)]_vars

(* When wl-paste reports a text that is the first the buffer holds, nothing *)
(* is sent and nothing changes: always if it was copied here, and if it is  *)
(* the server's as soon as m_clipLen, which only texts copied here enlarge, *)
(* lets the header be read.                                                 *)
NoFeedback ==
  [][\A id \in Ids : \A n \in DOMAIN updaters[id] :
       /\ UpdateClipBuf(id, n)
       /\ got[id].data # <<>> /\ got[id].data[1].text = updaters[id][n]
       /\ got[id].local \/ clipLen[id] >= DataAt(1)
       => UNCHANGED <<ctx, grabs>>]_vars
==============================================================================
