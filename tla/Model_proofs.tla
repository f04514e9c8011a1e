---------------------------- MODULE Model_proofs ----------------------------
(***************************************************************************)
(* The local model, from its download to its server.  What gets the        *)
(* model's name is whole, and a part with wrong bytes costs one download   *)
(* and no more, for a file of any length, a channel of any capacity and    *)
(* any number of attempts and troubles.  No server is left behind, however *)
(* many are launched, die or cannot be stopped, documents are analysed or  *)
(* canceled, setups are started and settings saved.                        *)
(***************************************************************************)
EXTENDS Download, ModelServer, SequenceTheorems, TLAPS

-----------------------------------------------------------------------------
(* The download *)

Alone == {"idle", "final", "partial", "choice", "chosen", "copying"}
Unheard == {"idle", "dropping", "joining"}
NetworkPlace == {"none", "requesting", "streaming", "over"}
Message == {"continued", "whole", "other", "failed", "good", "bad", "end"}

Piece == {"good", "bad"}
Network == [at : NetworkPlace, sent : 0..Pieces]
Channel == [messages : Seq(Message), heard : BOOLEAN]

DownloadTypes ==
  /\ step \in Alone \cup Unheard \cup {"headers", "body"}
  /\ partial \in Seq(Piece) /\ Len(partial) <= Pieces
  /\ start \in 0..Pieces
  /\ network \in Network
  /\ channel \in Channel

\* A response, and with it a network thread, exists from the request until
\* it was dropped and joined; an attempt that has ended does nothing else.
Shape ==
  /\ outcome # "none" => step \in Unheard
  /\ network.at = "none" <=> step \in Alone

-----------------------------------------------------------------------------
(* DownloadTypes *)

\* No piece is a file of pieces, of length zero (a partial file that was just
\* created).
LEMMA NoPieces == <<>> \in Seq(Piece) /\ Len(<<>>) = 0 /\ 0 <= Pieces
BY EmptySeq, DownloadBounds, SMT

\* A connection with nothing on it, and a channel with nothing in it, are of
\* their types.
LEMMA NoResponse ==
  /\ [at |-> "none", sent |-> 0] \in Network
  /\ [at |-> "requesting", sent |-> 0] \in Network
  /\ [messages |-> <<>>, heard |-> TRUE] \in Channel
  /\ [messages |-> <<>>, heard |-> FALSE] \in Channel
<1>1. 0 \in 0..Pieces
  BY DownloadBounds, SMT
<1>2. <<>> \in Seq(Message)
  BY EmptySeq
<1> QED BY <1>1, <1>2, Zenon DEF Network, Channel, NetworkPlace

\* The part is kept, begun anew, or longer by a piece it had room for.
LEMMA PartTypes ==
  ASSUME DownloadTypes,
         \/ partial' = partial
         \/ partial' = <<>>
         \/ \E piece \in Piece : Len(partial) # Pieces /\ partial' = Append(partial, piece)
  PROVE  partial' \in Seq(Piece) /\ Len(partial') <= Pieces
<1>1. CASE partial' = partial \/ partial' = <<>>
  BY <1>1, NoPieces, Zenon DEF DownloadTypes
<1>2. ASSUME NEW piece \in Piece, Len(partial) # Pieces, partial' = Append(partial, piece)
      PROVE  partial' \in Seq(Piece) /\ Len(partial') <= Pieces
  <2>1. partial' \in Seq(Piece) /\ Len(partial') = Len(partial) + 1
    BY <1>2, AppendProperties, Zenon DEF DownloadTypes
  <2>2. Len(partial) \in Nat
    BY LenProperties, Zenon DEF DownloadTypes
  <2> QED BY <1>2, <2>1, <2>2, DownloadBounds, SMT DEF DownloadTypes
<1> QED BY <1>1, <1>2, Zenon

\* A message handed to the channel, or a receiver that is gone, leaves the
\* connection and the channel of their types (the sends of the network thread).
LEMMA SendsTypes ==
  ASSUME DownloadTypes, NEW message \in Message, NEW place \in NetworkPlace, NEW n \in 0..Pieces,
         Sends(message, NetworkAt(place, n))
  PROVE  /\ network' \in Network
         /\ channel' \in Channel
         /\ network'.at \in {place, "over"}
<1>1. Append(channel.messages, message) \in Seq(Message)
  BY AppendProperties DEF DownloadTypes, Channel
<1>2. channel' \in Channel
  BY <1>1, Zenon DEF DownloadTypes, Sends, Channel
<1>3. network' \in {NetworkAt(place, n), [network EXCEPT !.at = "over"]}
  BY Zenon DEF Sends
<1>4. /\ NetworkAt(place, n) \in Network
      /\ NetworkAt(place, n).at = place
  BY Zenon DEF NetworkAt, Network
<1>5. /\ [network EXCEPT !.at = "over"] \in Network
      /\ [network EXCEPT !.at = "over"].at = "over"
  BY Zenon DEF DownloadTypes, NetworkPlace, Network
<1> QED BY <1>2, <1>3, <1>4, <1>5, Zenon

\* A message taken off the channel leaves the channel of its type (recv_timeout).
LEMMA TakenTypes ==
  ASSUME DownloadTypes, Taken, channel.messages # <<>>
  PROVE  channel' \in Channel
<1>1. Tail(channel.messages) \in Seq(Message)
  BY HeadTailProperties DEF DownloadTypes, Channel
<1> QED BY <1>1, Zenon DEF DownloadTypes, Taken, Channel

\* Dropping the receiver leaves the channel of its type.
LEMMA StopListeningTypes ==
  ASSUME DownloadTypes, StopListening PROVE channel' \in Channel
BY Zenon DEF DownloadTypes, StopListening, Channel

\* Nothing has been asked for yet: the types hold, and nobody is mid-way.
LEMMA DownloadTypesInit == DownloadInit => DownloadTypes /\ Shape
BY NoPieces, NoResponse, SMT DEF DownloadInit, DownloadTypes, Shape, Alone, Unheard, NetworkAt

\* Every step of an attempt, of the network thread or of a crash keeps the
\* types, and a response as long as there is a thread behind it.
LEMMA DownloadTypesNext == DownloadTypes /\ Shape /\ [DownloadNext]_downloadVars => (DownloadTypes /\ Shape)'
<1> SUFFICES ASSUME DownloadTypes, Shape, [DownloadNext]_downloadVars
             PROVE  (DownloadTypes /\ Shape)'
  OBVIOUS
<1> USE NoPieces, NoResponse DEF DownloadTypes, Shape, Alone, Unheard
<1>1. ASSUME BeginAttempt PROVE (DownloadTypes /\ Shape)'
  BY <1>1, SMT DEF BeginAttempt, fileVars, networkVars
<1>2. ASSUME CancelDownload PROVE (DownloadTypes /\ Shape)'
  BY <1>2, SMT DEF CancelDownload, fileVars, networkVars
<1>3. ASSUME Canceled PROVE (DownloadTypes /\ Shape)'
  BY <1>3, SMT DEF Canceled, Returns, fileVars, networkVars
<1>4. ASSUME FileFails PROVE (DownloadTypes /\ Shape)'
  BY <1>4, SMT DEF FileFails, Returns, fileVars, networkVars
<1>5. ASSUME NEW from \in {"final", "choice"}, NEW next \in {"partial", "chosen"},
             CheckFinal(from, next)
      PROVE  (DownloadTypes /\ Shape)'
  BY <1>5, SMT DEF CheckFinal, Returns, networkVars
<1>6. ASSUME CheckPartial PROVE (DownloadTypes /\ Shape)'
  <2>1. partial' \in Seq(Piece) /\ Len(partial') <= Pieces
    BY <1>6, PartTypes, Zenon DEF CheckPartial, GetsItsName, fileVars
  <2>2. network' \in Network /\ channel' \in Channel
    BY <1>6, Zenon DEF CheckPartial, networkVars
  <2>3. /\ step' \in Alone \cup Unheard \cup {"headers", "body"}
        /\ start' \in 0..Pieces
        /\ Shape'
    BY <1>6, SMT DEF CheckPartial, Returns, GetsItsName, Resumable, networkVars, fileVars
  <2> QED BY <2>1, <2>2, <2>3, Zenon
<1>7. ASSUME AcceptHeaders PROVE (DownloadTypes /\ Shape)'
  <2>1. partial' \in Seq(Piece) /\ Len(partial') <= Pieces
    BY <1>7, PartTypes, Zenon DEF AcceptHeaders
  <2>2. network' \in Network /\ channel' \in Channel
    BY <1>7, TakenTypes, Zenon DEF AcceptHeaders, Received
  <2>3. /\ step' \in Alone \cup Unheard \cup {"headers", "body"}
        /\ start' \in 0..Pieces
        /\ Shape'
    BY <1>7, SMT DEF AcceptHeaders, Returns
  <2> QED BY <2>1, <2>2, <2>3, Zenon
<1>8. ASSUME ReceivePiece PROVE (DownloadTypes /\ Shape)'
  <2>1. partial' \in Seq(Piece) /\ Len(partial') <= Pieces
    BY <1>8, PartTypes, Zenon DEF ReceivePiece, Piece
  <2>2. network' \in Network /\ channel' \in Channel
    BY <1>8, TakenTypes, Zenon DEF ReceivePiece, Received
  <2>3. /\ step' \in Alone \cup Unheard \cup {"headers", "body"}
        /\ start' \in 0..Pieces
        /\ Shape'
    BY <1>8, SMT DEF ReceivePiece, Returns
  <2> QED BY <2>1, <2>2, <2>3, Zenon
<1>9. ASSUME ReceiveEnd PROVE (DownloadTypes /\ Shape)'
  <2>1. partial' \in Seq(Piece) /\ Len(partial') <= Pieces
    BY <1>9, PartTypes, Zenon DEF ReceiveEnd, GetsItsName, fileVars
  <2>2. network' \in Network /\ channel' \in Channel
    BY <1>9, TakenTypes, Zenon DEF ReceiveEnd, Received
  <2>3. /\ step' \in Alone \cup Unheard \cup {"headers", "body"}
        /\ start' \in 0..Pieces
        /\ Shape'
    BY <1>9, SMT DEF ReceiveEnd, Returns, GetsItsName, fileVars
  <2> QED BY <2>1, <2>2, <2>3, Zenon
<1>10. ASSUME ReceiveFailure PROVE (DownloadTypes /\ Shape)'
  BY <1>10, TakenTypes, SMT DEF ReceiveFailure, Received, Returns, fileVars
<1>11. ASSUME DropResponse PROVE (DownloadTypes /\ Shape)'
  BY <1>11, StopListeningTypes, SMT DEF DropResponse, fileVars
<1>12. ASSUME Joined PROVE (DownloadTypes /\ Shape)'
  BY <1>12, SMT DEF Joined, fileVars
<1>13. ASSUME Respond PROVE (DownloadTypes /\ Shape)'
  <2>1. start \in 0..Pieces /\ 0 \in 0..Pieces
    BY DownloadBounds, SMT
  <2>2. network' \in Network /\ channel' \in Channel /\ network'.at \in {"streaming", "over"}
    BY <1>13, <2>1, SendsTypes, Zenon DEF Respond, Message, NetworkPlace
  <2> QED BY <1>13, <2>2, SMT DEF Respond, fileVars
<1>14. ASSUME Stream PROVE (DownloadTypes /\ Shape)'
  <2>1. /\ network.sent \in 0..Pieces /\ Pieces \in 0..Pieces /\ 0 \in 0..Pieces
        /\ network.sent < Pieces => network.sent + 1 \in 0..Pieces
        /\ network.sent + (IF network.sent < Pieces THEN 1 ELSE 0) \in 0..Pieces
    BY DownloadBounds, SMT DEF Network
  <2>2. /\ {"good", "bad", "end", "failed"} \subseteq Message
        /\ {"streaming", "over"} \subseteq NetworkPlace
    BY Zenon DEF Message, NetworkPlace
  <2>3. PICK message \in Message, place \in {"streaming", "over"}, n \in 0..Pieces :
          Sends(message, NetworkAt(place, n))
    <3> DEFINE more == network.sent + IF network.sent < Pieces THEN 1 ELSE 0
    <3>1. \/ network.sent < Pieces /\ Sends("good", NetworkAt("streaming", network.sent + 1))
          \/ Sends("end", NetworkAt("over", Pieces))
          \/ Sends("bad", NetworkAt("streaming", more))
          \/ Sends("failed", NetworkAt("over", 0))
      BY <1>14, Zenon DEF Stream
    <3>2. more \in 0..Pieces
      BY <2>1
    <3> HIDE DEF more
    <3> QED BY <2>1, <2>2, <3>1, <3>2, Zenon
  <2>4. network' \in Network /\ channel' \in Channel /\ network'.at \in {"streaming", "over"}
    BY <2>2, <2>3, SendsTypes, Zenon
  <2> QED BY <1>14, <2>4, SMT DEF Stream, fileVars
<1>15. ASSUME NetworkStops PROVE (DownloadTypes /\ Shape)'
  <2>1. 0 \in 0..Pieces
    BY DownloadBounds, SMT
  <2>2. network' \in Network /\ channel' \in Channel /\ network'.at \in {"streaming", "over"}
    BY <1>15, <2>1, SendsTypes, Zenon DEF NetworkStops, Message, NetworkPlace
  <2> QED BY <1>15, <2>2, SMT DEF NetworkStops, fileVars
<1>16. ASSUME ChooseFile PROVE (DownloadTypes /\ Shape)'
  <2>1. partial' \in Seq(Piece) /\ Len(partial') <= Pieces
    BY <1>16, PartTypes, Zenon DEF ChooseFile
  <2>2. network' \in Network /\ channel' \in Channel
    BY <1>16, Zenon DEF ChooseFile, networkVars
  <2>3. /\ step' \in Alone \cup Unheard \cup {"headers", "body"}
        /\ start' \in 0..Pieces
        /\ Shape'
    BY <1>16, SMT DEF ChooseFile, Returns, networkVars
  <2> QED BY <2>1, <2>2, <2>3, Zenon
<1>17. ASSUME CopyPiece PROVE (DownloadTypes /\ Shape)'
  <2>4. Len(partial) # Pieces
    BY <1>17, LenProperties, DownloadBounds, SMT DEF CopyPiece
  <2>1. partial' \in Seq(Piece) /\ Len(partial') <= Pieces
    BY <1>17, <2>4, PartTypes, Zenon DEF CopyPiece, Piece
  <2>2. network' \in Network /\ channel' \in Channel
    BY <1>17, Zenon DEF CopyPiece, networkVars
  <2>3. /\ step' \in Alone \cup Unheard \cup {"headers", "body"}
        /\ start' \in 0..Pieces
        /\ Shape'
    BY <1>17, SMT DEF CopyPiece, Returns, networkVars
  <2> QED BY <2>1, <2>2, <2>3, Zenon
<1>18. ASSUME CopyEnds PROVE (DownloadTypes /\ Shape)'
  <2>1. partial' \in Seq(Piece) /\ Len(partial') <= Pieces
    BY <1>18, PartTypes, Zenon DEF CopyEnds, GetsItsName, fileVars
  <2>2. network' \in Network /\ channel' \in Channel
    BY <1>18, Zenon DEF CopyEnds, networkVars
  <2>3. /\ step' \in Alone \cup Unheard \cup {"headers", "body"}
        /\ start' \in 0..Pieces
        /\ Shape'
    BY <1>18, SMT DEF CopyEnds, Returns, GetsItsName, networkVars
  <2> QED BY <2>1, <2>2, <2>3, Zenon
<1>19. ASSUME Crash PROVE (DownloadTypes /\ Shape)'
  <2>1. ASSUME NEW n \in 0..Len(partial)
        PROVE  /\ SubSeq(partial, 1, n) \in Seq(Piece) /\ Len(SubSeq(partial, 1, n)) = n
               /\ n > 0 => /\ Append(SubSeq(partial, 1, n - 1), "bad") \in Seq(Piece)
                           /\ Len(Append(SubSeq(partial, 1, n - 1), "bad")) = n
    <3>1. \A i \in 1..n : partial[i] \in Piece
      BY ElementOfSeq, SMT
    <3>2. SubSeq(partial, 1, n) \in Seq(Piece) /\ Len(SubSeq(partial, 1, n)) = n
      BY <3>1, SubSeqProperties, SMT
    <3>3. n > 0 => /\ SubSeq(partial, 1, n - 1) \in Seq(Piece)
                   /\ Len(SubSeq(partial, 1, n - 1)) = n - 1
      BY <3>1, SubSeqProperties, SMT
    <3>4. "bad" \in Piece
      BY DEF Piece
    <3> QED BY <3>2, <3>3, <3>4, AppendProperties, SMT
  <2>2. partial' \in Seq(Piece) /\ Len(partial') <= Pieces
    <3>1. PICK n \in 0..Len(partial) :
             partial' \in {SubSeq(partial, 1, n)} \cup
                          IF n > 0 THEN {Append(SubSeq(partial, 1, n - 1), "bad")} ELSE {}
      BY <1>19, Zenon DEF Crash
    <3>2. partial' \in Seq(Piece) /\ Len(partial') = n
      BY <2>1, <3>1, Zenon
    <3> QED BY <3>2, DownloadBounds, LenProperties, SMT
  <2>3. network' \in Network /\ channel' \in Channel
    BY <1>19, SMT DEF Crash, NetworkAt
  <2>4. /\ step' \in Alone \cup Unheard \cup {"headers", "body"}
        /\ start' \in 0..Pieces
        /\ Shape'
    BY <1>19, SMT DEF Crash, NetworkAt
  <2> QED BY <2>2, <2>3, <2>4
<1>20. CASE UNCHANGED downloadVars
  BY <1>20 DEF downloadVars
<1> QED
  BY <1>1, <1>2, <1>3, <1>4, <1>5, <1>6, <1>7, <1>8, <1>9, <1>10, <1>11, <1>12, <1>13, <1>14,
     <1>15, <1>16, <1>17, <1>18, <1>19, <1>20, Zenon DEF DownloadNext

-----------------------------------------------------------------------------
(* The name *)

\* Only a file that fits gets the name, and an attempt that has completed
\* does nothing more to it.
LEMMA InstalledNext ==
  Shape /\ InstalledIsVerified /\ [DownloadNext]_downloadVars => InstalledIsVerified'
<1> SUFFICES ASSUME Shape, InstalledIsVerified, [DownloadNext]_downloadVars
             PROVE  InstalledIsVerified'
  OBVIOUS
<1> USE DEF InstalledIsVerified
<1>1. ASSUME outcome' # "complete" PROVE InstalledIsVerified'
  BY <1>1
<1>2. ASSUME final' = final, outcome' = outcome PROVE InstalledIsVerified'
  BY <1>2
<1>3. ASSUME GetsItsName PROVE InstalledIsVerified'
  BY <1>3 DEF GetsItsName
<1>4. ASSUME NEW from \in {"final", "choice"}, NEW next \in {"partial", "chosen"},
             CheckFinal(from, next)
      PROVE  InstalledIsVerified'
  <2>1. outcome = "none"
    BY <1>4, Zenon DEF CheckFinal, Shape, Unheard
  <2> QED BY <1>4, <2>1, SMT DEF CheckFinal, Returns
<1>5. CASE BeginAttempt \/ Crash
  BY <1>5, <1>1, SMT DEF BeginAttempt, Crash
<1>6. CASE CancelDownload \/ DropResponse \/ Joined \/ Respond \/ Stream \/ NetworkStops
           \/ UNCHANGED downloadVars
  BY <1>6, <1>2, Zenon DEF CancelDownload, DropResponse, Joined, Respond, Stream, NetworkStops,
                         downloadVars, fileVars
<1>7. CASE Canceled \/ FileFails \/ ReceiveFailure
  BY <1>7, <1>1, SMT DEF Canceled, FileFails, ReceiveFailure, Returns
<1>8. CASE CheckPartial \/ ReceiveEnd \/ CopyEnds
  BY <1>8, <1>1, <1>2, <1>3, SMT DEF CheckPartial, ReceiveEnd, CopyEnds, Returns, fileVars
<1>9. CASE AcceptHeaders \/ ReceivePiece \/ ChooseFile \/ CopyPiece
  BY <1>9, <1>1, <1>2, SMT DEF AcceptHeaders, ReceivePiece, ChooseFile, CopyPiece, Returns
<1> QED BY <1>4, <1>5, <1>6, <1>7, <1>8, <1>9, Zenon DEF DownloadNext

\* Whatever was sent, garbled or resumed, what gets the model's name has the
\* manifest's length and digest (download and install_selected_file).
THEOREM OnlyVerifiedIsInstalled == DownloadSpec => []InstalledIsVerified
<1>1. DownloadInit => InstalledIsVerified
  BY DEF DownloadInit, InstalledIsVerified
<1> QED BY <1>1, DownloadTypesInit, DownloadTypesNext, InstalledNext, PTL DEF DownloadSpec

-----------------------------------------------------------------------------
(* What is under way when nothing has gone wrong *)

AllGood == \A n \in DOMAIN partial : partial[n] = "good"
Spoilt == Len(partial) = Pieces /\ ~ Fits(partial)

\* The pieces the file will have had when the first message was received.
Begun == IF step = "body" THEN Len(partial)
         ELSE IF channel.messages[1] = "continued" THEN start ELSE 0

\* A header, the pieces, the end ...
Sequel(m, received, sender) ==
  \A n \in 1..Len(m) :
    IF received = "headers" /\ n = 1 THEN m[n] \in {"continued", "whole"}
    ELSE IF sender = "over" /\ n = Len(m) THEN m[n] = "end" ELSE m[n] = "good"

\* ... of which what was sent and not yet received adds up with what is in
\* the file to what the network thread has counted.
Others == (IF network.at = "over" THEN 1 ELSE 0) + (IF step = "headers" THEN 1 ELSE 0)
InOrder ==
  LET m == channel.messages IN
  IF network.at = "requesting" THEN step = "headers" /\ Len(m) = 0
  ELSE /\ step = "headers" => Len(m) > 0 /\ (m[1] = "continued" => start > 0)
       /\ network.at = "over" => Len(m) > 0 /\ network.sent = Pieces
       /\ Sequel(m, step, network.at)
       /\ network.sent + Others = Begun + Len(m)

\* An attempt without trouble so far.
Orderly ==
  clean =>
    /\ step \notin Unheard => ~ token
    /\ outcome = "MODEL_FILE_INVALID" => Spoilt
    /\ step = "copying" => AllGood
    /\ step \in {"headers", "body"} => channel.heard /\ InOrder
    /\ step = "headers" => start \in {0, Len(partial)}

\* And the attempt after one that found the part bad.
Mending ==
  clean /\ mended =>
    /\ step \in {"final", "partial", "choice", "chosen"} => Spoilt
    /\ step = "headers" => start = 0
    /\ step = "body" => AllGood
    /\ outcome # "none" => outcome = "complete"

\* What the types say of lengths: of the partial file, of the channel, and of
\* the place the connection is at.
LEMMA Lengths ==
  ASSUME DownloadTypes
  PROVE  /\ Len(partial) \in 0..Pieces /\ Pieces \in Nat \ {0}
         /\ Len(channel.messages) \in Nat
         /\ DOMAIN partial = 1..Len(partial)
         /\ network.at \in NetworkPlace /\ network.sent \in 0..Pieces
BY LenProperties, DownloadBounds, SMT DEF DownloadTypes, Channel, Network

\* A message that is received was the first in the channel.
LEMMA ReceivedIsFirst ==
  ASSUME DownloadTypes, NEW message, Received(message)
  PROVE  Len(channel.messages) > 0 /\ channel.messages[1] = message
<1>1. channel.messages \in Seq(Message)
  BY DEF DownloadTypes, Channel
<1>2. channel.messages # <<>> /\ Head(channel.messages) = message
  BY DEF Received
<1>3. Len(channel.messages) \in Nat /\ Len(channel.messages) # 0
  BY <1>1, <1>2, EmptySeq, LenProperties, Zenon
<1>4. Head(channel.messages) = channel.messages[1]
  BY SMT
<1> QED BY <1>2, <1>3, <1>4, SMT

\* Taking a message leaves the rest in their order.
LEMMA TakenIsTheRest ==
  ASSUME DownloadTypes, NEW message, Received(message), Taken
  PROVE  /\ Len(channel'.messages) = Len(channel.messages) - 1
         /\ \A n \in 1..Len(channel'.messages) : channel'.messages[n] = channel.messages[n + 1]
         /\ channel'.heard = channel.heard
<1>1. channel.messages \in Seq(Message) /\ channel.messages # <<>>
  BY DEF DownloadTypes, Channel, Received
<1>2. channel'.messages = Tail(channel.messages) /\ channel'.heard = channel.heard
  BY Zenon DEF DownloadTypes, Channel, Taken
<1> QED BY <1>1, <1>2, HeadTailProperties

\* A message sent while somebody listens is the last in the channel, and the
\* ones before it stay where they were.
LEMMA SentIsLast ==
  ASSUME DownloadTypes, NEW message \in Message, NEW next, channel.heard, Sends(message, next)
  PROVE  /\ network' = next
         /\ channel'.heard
         /\ Len(channel'.messages) = Len(channel.messages) + 1
         /\ \A n \in 1..Len(channel.messages) : channel'.messages[n] = channel.messages[n]
         /\ channel'.messages[Len(channel.messages) + 1] = message
<1>1. channel.messages \in Seq(Message)
  BY DEF DownloadTypes, Channel
<1>2. channel'.messages = Append(channel.messages, message) /\ channel'.heard /\ network' = next
  BY Zenon DEF DownloadTypes, Channel, Sends
<1> QED BY <1>1, <1>2, AppendProperties

\* A stream stays in its order when the sender adds to it: a piece while it is
\* streaming, the end when it is over.
LEMMA SequelAppended ==
  ASSUME NEW m, NEW next, Len(m) \in Nat, Len(next) = Len(m) + 1,
         \A n \in 1..Len(m) : next[n] = m[n],
         NEW received, NEW sender,
         received = "headers" => Len(m) > 0,
         Sequel(m, received, "streaming"),
         next[Len(m) + 1] = IF sender = "over" THEN "end" ELSE "good"
  PROVE  Sequel(next, received, sender)
BY SMT DEF Sequel

\* A stream stays in its order when its first message is taken off.
LEMMA SequelTaken ==
  ASSUME NEW m, NEW next, Len(m) \in Nat \ {0}, Len(next) = Len(m) - 1,
         \A n \in 1..Len(next) : next[n] = m[n + 1],
         NEW received, NEW sender,
         Sequel(m, received, sender)
  PROVE  Sequel(next, "body", sender)
BY SMT DEF Sequel

\* What the network thread sends next keeps the order.
LEMMA SendInOrder ==
  ASSUME DownloadTypes, Shape, Orderly, clean', step \in {"headers", "body"}, Respond \/ Stream
  PROVE  channel'.heard /\ InOrder'
<1>1. /\ clean /\ channel.heard /\ InOrder /\ UNCHANGED <<step, start, partial>>
      /\ ~ Trouble
  <2>1. ~ Trouble
    BY DEF Trouble
  <2>2. clean /\ UNCHANGED <<step, start, partial>>
    BY <2>1, Zenon DEF Respond, Stream, NoTrouble, fileVars
  <2> QED BY <2>1, <2>2 DEF Orderly
<1> USE Lengths
<1>2. ASSUME NEW n \in 0..Pieces, NEW header \in {"continued", "whole"}, network.at = "requesting",
             Sends(header, NetworkAt("streaming", n)),
             n = IF header = "continued" THEN start ELSE 0,
             header = "continued" => start > 0
      PROVE  channel'.heard /\ InOrder'
  <2>1. header \in Message
    BY DEF Message
  <2>2. /\ network' = NetworkAt("streaming", n)
        /\ channel'.heard
        /\ Len(channel'.messages) = Len(channel.messages) + 1
        /\ channel'.messages[Len(channel.messages) + 1] = header
    BY <1>1, <1>2, <2>1, SentIsLast, Zenon
  <2>3. /\ Len(channel'.messages) = 1 /\ channel'.messages[1] = header
        /\ step = "headers"
    BY <1>1, <1>2, <2>2, SMT DEF InOrder
  <2>4. network'.at = "streaming" /\ network'.sent = n
    BY <2>2, Zenon DEF NetworkAt
  <2>5. Sequel(channel'.messages, step', network'.at)
    BY <1>1, <2>3, <2>4, SMT DEF Sequel
  <2>6. Begun' = n /\ Others' = 1
    BY <1>1, <1>2, <2>3, <2>4, SMT DEF Begun, Others
  <2>7. network'.sent + Others' = Begun' + Len(channel'.messages)
    BY <2>3, <2>4, <2>6, SMT
  <2>8. channel'.messages[1] = "continued" => start' > 0
    BY <1>1, <1>2, <2>3
  <2> QED BY <2>2, <2>3, <2>4, <2>5, <2>7, <2>8, SMT DEF InOrder
<1>3. ASSUME NEW message \in {"good", "end"}, network.at = "streaming",
             message = "good" => network.sent < Pieces /\ Sends("good", NetworkAt("streaming", network.sent + 1)),
             message = "end" => network.sent = Pieces /\ Sends("end", NetworkAt("over", Pieces))
      PROVE  channel'.heard /\ InOrder'
  <2> DEFINE place == IF message = "good" THEN "streaming" ELSE "over"
             sent == IF message = "good" THEN network.sent + 1 ELSE Pieces
  <2>1. Sends(message, NetworkAt(place, sent)) /\ message \in Message
    BY <1>3, Zenon DEF Message
  <2>2. /\ network' = NetworkAt(place, sent)
        /\ channel'.heard
        /\ Len(channel'.messages) = Len(channel.messages) + 1
        /\ \A k \in 1..Len(channel.messages) : channel'.messages[k] = channel.messages[k]
        /\ channel'.messages[Len(channel.messages) + 1] = message
    BY <1>1, <2>1, SentIsLast, Zenon
  <2>3. network'.at = place /\ network'.sent = sent
    BY <2>2, Zenon DEF NetworkAt
  <2>4. /\ step = "headers" => Len(channel.messages) > 0 /\ (channel.messages[1] = "continued" => start > 0)
        /\ Sequel(channel.messages, step, "streaming")
        /\ network.sent + Others = Begun + Len(channel.messages)
    BY <1>1, <1>3, SMT DEF InOrder
  <2>5. channel'.messages[Len(channel.messages) + 1] = IF place = "over" THEN "end" ELSE "good"
    BY <1>3, <2>2, SMT
  <2>6. Sequel(channel'.messages, step', network'.at)
    BY <1>1, <2>2, <2>3, <2>4, <2>5, SequelAppended, Zenon
  <2>7. step = "headers" => channel'.messages[1] = channel.messages[1]
    BY <2>2, <2>4, SMT
  <2>8. Begun' = Begun /\ Begun \in Nat
    BY <1>1, <2>2, <2>4, <2>7, SMT DEF Begun, DownloadTypes
  <2>9. network'.sent + Others' = Begun' + Len(channel'.messages)
    <3>1. /\ Others \in Nat
          /\ message = "end" => Others' = Others + 1
          /\ message = "good" => Others' = Others
      BY <1>1, <1>3, <2>3, SMT DEF Others
    <3>2. /\ network.sent + Others = Begun + Len(channel.messages)
          /\ Len(channel'.messages) = Len(channel.messages) + 1
          /\ Begun' = Begun
      BY <2>2, <2>4, <2>8
    <3>3. network.sent \in Nat /\ Begun \in Nat /\ Len(channel.messages) \in Nat
      BY <1>1, <2>8, DownloadBounds, LenProperties, SMT DEF DownloadTypes, Network, Channel
    <3>4. PICK a \in Nat, b \in Nat, c \in Nat, d \in Nat :
            a = network.sent /\ b = Others /\ c = Begun /\ d = Len(channel.messages)
      BY <3>1, <3>3, Zenon
    <3>5. PICK v, w, x, y : v = network'.sent /\ w = Others' /\ x = Begun' /\ y = Len(channel'.messages)
      BY Zenon
    <3>6. a + b = c + d /\ y = d + 1 /\ x = c
      BY <3>2, <3>4, <3>5, Zenon
    <3>7. (v = a /\ w = b + 1) \/ (v = a + 1 /\ w = b)
      <4>1. CASE message = "end"
        <5>1. network'.sent = network.sent
          BY <1>3, <2>3, <4>1
        <5> QED BY <3>1, <3>4, <3>5, <4>1, <5>1, Zenon
      <4>2. CASE message = "good"
        <5>1. network'.sent = network.sent + 1
          BY <2>3, <4>2
        <5> QED BY <3>1, <3>4, <3>5, <4>2, <5>1, Zenon
      <4> QED BY <1>3, <4>1, <4>2
    <3>8. v + w = x + y
      BY <3>6, <3>7, SMT
    <3> QED BY <3>5, <3>8, Zenon
  <2>10. Len(channel'.messages) > 0 /\ (step' = "headers" /\ channel'.messages[1] = "continued" => start' > 0)
    BY <1>1, <2>2, <2>4, <2>7, SMT
  <2> QED BY <1>3, <2>2, <2>3, <2>6, <2>9, <2>10, SMT DEF InOrder
<1>5. CASE Respond
  BY <1>1, <1>2, <1>5, SMT DEF Respond, DownloadTypes
<1>6. CASE Stream
  BY <1>1, <1>3, <1>6, SMT DEF Stream
<1> QED BY <1>5, <1>6

\* What is received next keeps it: a header opens the body, a piece makes
\* the file longer, and the end comes when the file has its length.
LEMMA ReceiveInOrder ==
  ASSUME DownloadTypes, Shape, Orderly, clean, step \in {"headers", "body"}
  PROVE  /\ AcceptHeaders => step' = "body" /\ outcome' = outcome /\ channel'.heard /\ InOrder'
         /\ ReceivePiece => step' = "body" /\ outcome' = outcome /\ channel'.heard /\ InOrder'
                              /\ partial' = Append(partial, "good")
         /\ ReceiveEnd => Len(partial) = Pieces
         /\ ~ ReceiveFailure
<1> USE Lengths
<1>1. channel.heard /\ InOrder
  BY DEF Orderly
<1>2. ASSUME NEW message, Received(message)
      PROVE  /\ Len(channel.messages) > 0 /\ channel.messages[1] = message
             /\ network.at \in {"streaming", "over"}
             /\ Sequel(channel.messages, step, network.at)
             /\ network.sent + Others = Begun + Len(channel.messages)
             /\ network.at = "over" => network.sent = Pieces
             /\ message = "continued" => step = "headers" /\ start > 0
             /\ message \in IF step = "headers" THEN {"continued", "whole"} ELSE {"good", "end"}
             /\ message = "end" => network.at = "over" /\ Len(channel.messages) = 1
             /\ message = "good" /\ network.at = "over" => Len(channel.messages) > 1
  <2>1. Len(channel.messages) > 0 /\ channel.messages[1] = message
    BY <1>2, ReceivedIsFirst, Zenon
  <2>2. network.at \in {"streaming", "over"}
    BY <1>1, <2>1, SMT DEF InOrder, NetworkPlace, Shape, Alone
  <2>3. /\ Sequel(channel.messages, step, network.at)
        /\ network.sent + Others = Begun + Len(channel.messages)
        /\ network.at = "over" => network.sent = Pieces
        /\ step = "headers" /\ message = "continued" => start > 0
    BY <1>1, <2>1, <2>2, SMT DEF InOrder
  <2>4. IF step = "headers" THEN message \in {"continued", "whole"}
        ELSE IF network.at = "over" /\ Len(channel.messages) = 1
             THEN message = "end" ELSE message = "good"
    <3>1. 1 \in 1..Len(channel.messages)
      BY <2>1, SMT
    <3>2. IF step = "headers" /\ 1 = 1 THEN channel.messages[1] \in {"continued", "whole"}
          ELSE IF network.at = "over" /\ 1 = Len(channel.messages)
               THEN channel.messages[1] = "end" ELSE channel.messages[1] = "good"
      BY <2>3, <3>1, Zenon DEF Sequel
    <3> QED BY <2>1, <3>2, SMT
  <2>5. message \in IF step = "headers" THEN {"continued", "whole"} ELSE {"good", "end"}
    BY <2>4, SMT
  <2>6. message = "continued" => step = "headers" /\ start > 0
    BY <2>3, <2>4, SMT
  <2>7. message = "end" => network.at = "over" /\ Len(channel.messages) = 1
    BY <2>4, SMT
  <2>8. message = "good" /\ network.at = "over" => Len(channel.messages) > 1
    <3> SUFFICES ASSUME message = "good", network.at = "over"
                 PROVE  Len(channel.messages) > 1
      OBVIOUS
    <3>1. Len(channel.messages) # 1
      BY <2>4, SMT
    <3>2. Len(channel.messages) \in Nat /\ Len(channel.messages) > 0
      BY <2>1
    <3>3. \A n \in Nat : n > 0 /\ n # 1 => n > 1
      BY SMT
    <3> QED BY <3>1, <3>2, <3>3, Zenon
  <2> QED BY <2>1, <2>2, <2>3, <2>5, <2>6, <2>7, <2>8, Zenon
<1>3. Others = (IF network.at = "over" THEN 1 ELSE 0) + IF step = "headers" THEN 1 ELSE 0
  BY DEF Others
<1>4. ASSUME NEW message \in Message, Received(message), Taken, step' = "body",
             message # "end",
             UNCHANGED <<network, start>>,
             Len(partial') = IF message = "good" THEN Len(partial) + 1
                             ELSE IF message = "whole" THEN 0 ELSE Len(partial)
      PROVE  channel'.heard /\ InOrder'
  <2>1. /\ Len(channel'.messages) = Len(channel.messages) - 1
        /\ \A n \in 1..Len(channel'.messages) : channel'.messages[n] = channel.messages[n + 1]
        /\ channel'.heard = channel.heard
    BY <1>4, TakenIsTheRest, Zenon
  <2>2. Len(channel.messages) \in Nat \ {0}
    BY <1>2, <1>4, SMT
  <2>3. Sequel(channel'.messages, step', network'.at)
    BY <1>2, <1>4, <2>1, <2>2, SequelTaken, Zenon
  <2>4. network.at = "over" => Len(channel'.messages) > 0
    <3>1. CASE message = "good"
      BY <1>2, <1>4, <2>1, <3>1, SMT
    <3>2. CASE message \in {"continued", "whole"}
      <4>1. step = "headers"
        BY <1>2, <1>4, <3>2, SMT
      <4>2. Begun \in 0..Pieces
        BY <4>1, SMT DEF Begun, DownloadTypes
      <4> QED BY <1>2, <1>3, <1>4, <2>1, <2>2, <4>1, <4>2, SMT
    <3> QED BY <1>2, <1>4, <3>1, <3>2, SMT
  <2>5. Begun' = Len(partial')
    BY <1>4, Zenon DEF Begun
  <2>6. Others' = IF network.at = "over" THEN 1 ELSE 0
    BY <1>4, SMT DEF Others
  <2>7. Begun + (IF step = "headers" THEN 0 ELSE 1) = Len(partial')
    BY <1>2, <1>4, SMT DEF Begun, Orderly
  <2>8. network'.sent + Others' = Begun' + Len(channel'.messages)
    <3>1. network.sent + Others = Begun + Len(channel.messages)
      BY <1>2, <1>4
    <3>2. network' = network /\ Len(channel'.messages) = Len(channel.messages) - 1
      BY <1>4, <2>1
    <3>3. Begun \in Nat
      BY SMT DEF Begun, DownloadTypes
    <3>4. PICK a, b, c, d, v, w, x, y :
            /\ a = network.sent /\ b = Others /\ c = Begun /\ d = Len(channel.messages)
            /\ v = network'.sent /\ w = Others' /\ x = Begun' /\ y = Len(channel'.messages)
      BY Zenon
    <3>5. a + b = c + d /\ v = a /\ y = d - 1 /\ x = Len(partial') /\ c \in Nat /\ w \in Nat
      <4>1. Others' \in Nat
        BY <2>6, SMT
      <4> QED BY <2>5, <3>1, <3>2, <3>3, <3>4, <4>1, Zenon
    <3>6. a \in Nat /\ d \in Nat
      BY <3>4, DownloadBounds, LenProperties, SMT DEF DownloadTypes, Network, Channel
    <3>7. (b = w + 1 /\ c = x) \/ (b = w /\ c + 1 = x)
      <4>1. CASE step = "headers"
        <5>1. Others = Others' + 1 /\ Begun = Len(partial')
          BY <1>3, <2>6, <2>7, <3>3, <4>1, SMT
        <5> QED BY <3>4, <3>5, <5>1, Zenon
      <4>2. CASE step = "body"
        <5>1. Others = Others' /\ Begun + 1 = Len(partial')
          BY <1>3, <2>6, <2>7, <4>2, SMT
        <5> QED BY <3>4, <3>5, <5>1, Zenon
      <4> QED BY <4>1, <4>2
    <3>8. v + w = x + y
      BY <3>5, <3>6, <3>7, SMT
    <3> QED BY <3>4, <3>8, Zenon
  <2> QED BY <1>1, <1>2, <1>4, <2>1, <2>3, <2>4, <2>8, SMT DEF InOrder
<1>5. ASSUME AcceptHeaders
      PROVE  step' = "body" /\ outcome' = outcome /\ channel'.heard /\ InOrder'
  <2>1. PICK status \in {"continued", "whole", "other"} :
          /\ Received(status) /\ Taken /\ step = "headers"
          /\ UNCHANGED <<network, start>>
          /\ CASE status = "continued" -> step' = "body" /\ UNCHANGED <<partial, outcome>>
               [] status = "whole"     -> step' = "body" /\ partial' = <<>> /\ UNCHANGED outcome
               [] OTHER                -> TRUE
    BY <1>5, SMT DEF AcceptHeaders
  <2>2. status \in {"continued", "whole"}
    BY <1>2, <2>1, SMT
  <2>3. /\ step' = "body" /\ outcome' = outcome
        /\ partial' = IF status = "whole" THEN <<>> ELSE partial
    BY <2>1, <2>2, SMT
  <2>4. Len(partial') = IF status = "whole" THEN 0 ELSE Len(partial)
    <3>1. CASE status = "whole"
      <4>1. partial' = <<>>
        BY <2>1, <3>1, SMT
      <4> QED BY <3>1, <4>1, NoPieces, SMT
    <3>2. CASE status # "whole"
      BY <2>3, <3>2, Zenon
    <3> QED BY <3>1, <3>2
  <2>5. /\ status \in Message /\ status # "end" /\ status # "good"
    BY <2>2, SMT DEF Message
  <2>6. channel'.heard /\ InOrder'
    BY <1>4, <2>1, <2>3, <2>4, <2>5, Zenon
  <2> QED BY <2>3, <2>6
<1>6. ASSUME ReceivePiece
      PROVE  step' = "body" /\ outcome' = outcome /\ channel'.heard /\ InOrder'
               /\ partial' = Append(partial, "good")
  <2>1. Received("good") /\ Taken /\ step = "body" /\ UNCHANGED <<network, start>>
    BY <1>2, <1>6, SMT DEF ReceivePiece
  <2>2. Len(partial) # Pieces
    BY <1>2, <1>3, <2>1, SMT DEF Begun
  <2>3. step' = "body" /\ outcome' = outcome /\ partial' = Append(partial, "good")
    BY <1>2, <1>6, <2>1, <2>2, SMT DEF ReceivePiece
  <2>4. Len(partial') = Len(partial) + 1
    <3>1. "good" \in Piece
      BY DEF Piece
    <3> QED BY <2>3, <3>1, AppendProperties, Zenon DEF DownloadTypes
  <2>5. "good" \in Message /\ "good" # "end"
    BY DEF Message
  <2>6. channel'.heard /\ InOrder'
    BY <1>4, <2>1, <2>3, <2>4, <2>5, Zenon
  <2> QED BY <2>3, <2>6
<1>7. ASSUME ReceiveEnd PROVE Len(partial) = Pieces
  <2>1. Received("end") /\ step = "body"
    BY <1>7 DEF ReceiveEnd
  <2>2. /\ network.at = "over" /\ network.sent = Pieces /\ Len(channel.messages) = 1
        /\ network.sent + Others = Begun + Len(channel.messages)
    BY <1>2, <2>1, Zenon
  <2>3. Begun = Len(partial) /\ Others = 1
    BY <1>3, <2>1, <2>2, SMT DEF Begun
  <2> QED BY <2>2, <2>3, SMT
<1>8. ~ ReceiveFailure
  BY <1>2, SMT DEF ReceiveFailure
<1> QED BY <1>5, <1>6, <1>7, <1>8

\* A good piece added to good pieces leaves them good, and as many good pieces
\* as were asked for are the model's bytes.
LEMMA GoodPieces ==
  ASSUME DownloadTypes, AllGood
  PROVE  /\ partial' = Append(partial, "good") => AllGood'
         /\ Len(partial) = Pieces => Fits(partial)
<1>1. ASSUME partial' = Append(partial, "good") PROVE AllGood'
  <2>1. "good" \in Piece
    BY DEF Piece
  <2>2. /\ partial' \in Seq(Piece) /\ Len(partial') = Len(partial) + 1
        /\ \A n \in 1..Len(partial) : partial'[n] = partial[n]
        /\ partial'[Len(partial) + 1] = "good"
    BY <1>1, <2>1, AppendProperties DEF DownloadTypes
  <2>3. DOMAIN partial' = 1..(Len(partial) + 1) /\ DOMAIN partial = 1..Len(partial)
    BY <2>2, LenProperties, Zenon DEF DownloadTypes
  <2> QED BY <2>2, <2>3, Lengths, SMT DEF AllGood
<1>2. Len(partial) = Pieces => Fits(partial)
  BY DEF Fits, AllGood
<1> QED BY <1>1, <1>2

\* A file of no pieces has none that is bad.
LEMMA NoneIsGood == ASSUME partial' = <<>> PROVE AllGood'
<1>1. DOMAIN partial' = 1..0
  BY EmptySeq, LenProperties, Zenon
<1> QED BY <1>1, SMT DEF AllGood

\* An attempt without trouble is an orderly exchange, and the one after an
\* attempt that found the part bad begins it anew.
LEMMA OrderlyNext ==
  DownloadTypes /\ Shape /\ Orderly /\ Mending /\ [DownloadNext]_downloadVars => (Orderly /\ Mending)'
<1> SUFFICES ASSUME DownloadTypes, Shape, Orderly, Mending, [DownloadNext]_downloadVars
             PROVE  (Orderly /\ Mending)'
  OBVIOUS
<1> SUFFICES ASSUME clean', ~ Trouble
             PROVE  (Orderly /\ Mending)'
  BY DEF Trouble, Orderly, Mending
<1>1. CASE BeginAttempt
  <2>1. /\ outcome' = "none" /\ ~ token' /\ step' \in {"final", "choice"}
        /\ mended' => clean /\ outcome = "MODEL_FILE_INVALID"
        /\ partial' = partial
    BY <1>1, Zenon DEF BeginAttempt, fileVars
  <2>2. mended' => Spoilt'
    BY <2>1, Zenon DEF Orderly, Spoilt, Fits
  <2> QED BY <2>1, <2>2, SMT DEF Orderly, Mending
<1>2. CASE Canceled
  <2>1. clean /\ token /\ step \notin Unheard
    BY <1>2, Zenon DEF Canceled, NoTrouble, Unheard
  <2> QED BY <2>1 DEF Orderly
<1>3. ASSUME NEW from \in {"final", "choice"}, NEW next \in {"partial", "chosen"},
             CheckFinal(from, next)
      PROVE  (Orderly /\ Mending)'
  <2>1. /\ clean /\ mended' = mended /\ token' = token
        /\ UNCHANGED partial
        /\ step = from
    BY <1>3, Zenon DEF CheckFinal, NoTrouble, attemptVars
  <2>2. \/ outcome' = "complete" /\ step' \in Unheard
        \/ outcome' = outcome /\ step' = next
    BY <1>3, SMT DEF CheckFinal, Returns, Unheard
  <2>3. outcome = "none" /\ ~ token
    BY <2>1, SMT DEF Shape, Orderly, Unheard
  <2>4. mended => Spoilt'
    BY <2>1, SMT DEF Mending, Spoilt, Fits
  <2> QED BY <2>1, <2>2, <2>3, <2>4, SMT DEF Orderly, Mending, Unheard
<1>4. CASE CheckPartial
  <2>1. /\ clean /\ mended' = mended /\ token' = token
        /\ step = "partial"
    BY <1>4, Zenon DEF CheckPartial, NoTrouble, attemptVars
  <2>2. outcome = "none" /\ ~ token
    BY <2>1, SMT DEF Shape, Orderly, Unheard
  <2>3. CASE Fits(partial)
    <3>1. outcome' = "complete" /\ step' \in Unheard
      BY <1>4, <2>3, SMT DEF CheckPartial, GetsItsName, Returns, Unheard
    <3> QED BY <3>1, SMT DEF Orderly, Mending, Unheard
  <2>4. CASE ~ Fits(partial)
    <3>1. /\ start' = IF Resumable(partial) THEN Len(partial) ELSE 0
          /\ step' = "headers" /\ outcome' = outcome /\ partial' = partial
          /\ network' = [at |-> "requesting", sent |-> 0]
          /\ channel' = [messages |-> <<>>, heard |-> TRUE]
      BY <1>4, <2>4, Zenon DEF CheckPartial, fileVars
    <3>2. channel'.heard /\ InOrder'
      <4>1. channel'.messages = <<>> /\ channel'.heard /\ network'.at = "requesting"
        BY <3>1, Zenon
      <4>2. Len(channel'.messages) = 0
        BY <4>1, NoPieces, Zenon
      <4> QED BY <3>1, <4>1, <4>2, SMT DEF InOrder
    <3>3. mended => start' = 0
      BY <2>1, <3>1, SMT DEF Mending, Spoilt, Resumable
    <3> QED BY <2>1, <2>2, <3>1, <3>2, <3>3, SMT DEF Orderly, Mending, Unheard
  <2> QED BY <2>3, <2>4
<1>5. CASE AcceptHeaders \/ ReceivePiece
  <2>1. /\ clean /\ mended' = mended /\ token' = token
        /\ step \in {"headers", "body"}
    BY <1>5, Zenon DEF AcceptHeaders, ReceivePiece, NoTrouble, attemptVars
  <2>2. step' = "body" /\ outcome' = outcome /\ channel'.heard /\ InOrder'
    BY <1>5, <2>1, ReceiveInOrder, Zenon
  <2>3. outcome = "none" /\ ~ token
    BY <2>1, SMT DEF Shape, Orderly, Unheard
  <2>4. mended => AllGood'
    <3>1. CASE ReceivePiece
      <4>1. mended => AllGood
        BY <2>1, <3>1, SMT DEF Mending, ReceivePiece
      <4> QED BY <2>1, <3>1, <4>1, ReceiveInOrder, GoodPieces, Zenon
    <3>2. CASE AcceptHeaders /\ mended
      <4>1. start = 0 /\ InOrder
        BY <2>1, <3>2, SMT DEF Mending, Orderly, AcceptHeaders
      <4>2. PICK status \in {"continued", "whole", "other"} :
              /\ Received(status) /\ step = "headers"
              /\ status = "whole" => partial' = <<>>
        BY <3>2, SMT DEF AcceptHeaders
      <4>3. Len(channel.messages) > 0 /\ channel.messages[1] = status
        BY <4>2, ReceivedIsFirst, Zenon
      <4>4. /\ status = "continued" => start > 0
            /\ Sequel(channel.messages, step, network.at)
        BY <2>1, <4>1, <4>2, <4>3, SMT DEF InOrder
      <4>5. status \in {"continued", "whole"}
        BY <4>2, <4>3, <4>4, Lengths, SMT DEF Sequel
      <4>6. partial' = <<>>
        BY <4>1, <4>2, <4>4, <4>5, SMT
      <4> QED BY <4>6, NoneIsGood
    <3> QED BY <1>5, <3>1, <3>2
  <2> QED BY <2>1, <2>2, <2>3, <2>4, SMT DEF Orderly, Mending, Unheard
<1>6. CASE ReceiveEnd \/ CopyEnds
  <2>1. /\ clean /\ mended' = mended
        /\ Len(partial) = Pieces
    <3>1. clean /\ mended' = mended
      BY <1>6, Zenon DEF ReceiveEnd, CopyEnds, NoTrouble, attemptVars
    <3>2. ReceiveEnd => Len(partial) = Pieces
      BY <3>1, ReceiveInOrder, Zenon DEF ReceiveEnd
    <3> QED BY <1>6, <3>1, <3>2, Zenon DEF CopyEnds
  <2>2. step' \in Unheard /\ (outcome' = "complete" \/ outcome' = "MODEL_FILE_INVALID")
    BY <1>6, SMT DEF ReceiveEnd, CopyEnds, GetsItsName, Returns, Unheard
  <2>3. outcome' = "MODEL_FILE_INVALID" => ~ Fits(partial) /\ partial' = partial
    BY <1>6, SMT DEF ReceiveEnd, CopyEnds, GetsItsName, Returns, fileVars
  <2>4. outcome' = "MODEL_FILE_INVALID" => Spoilt'
    BY <2>1, <2>3 DEF Spoilt, Fits
  <2>5. mended => AllGood
    BY <1>6, <2>1, SMT DEF Mending, Orderly, ReceiveEnd, CopyEnds
  <2>6. mended => outcome' = "complete"
    BY <2>1, <2>2, <2>3, <2>5, GoodPieces, Zenon
  <2> QED BY <2>1, <2>2, <2>4, <2>6, SMT DEF Orderly, Mending, Unheard
<1>7. CASE ReceiveFailure
  <2>1. clean /\ step \in {"headers", "body"}
    BY <1>7, Zenon DEF ReceiveFailure, NoTrouble
  <2> QED BY <1>7, <2>1, ReceiveInOrder, Zenon
<1>8. CASE DropResponse \/ Joined
  <2>1. /\ clean /\ mended' = mended /\ outcome' = outcome /\ partial' = partial
        /\ step' \in Unheard
    BY <1>8, Zenon DEF DropResponse, Joined, fileVars, attemptVars, Unheard
  <2> QED BY <2>1, SMT DEF Orderly, Mending, Unheard, Spoilt, Fits
<1>9. CASE Respond \/ Stream \/ NetworkStops
  <2>1. /\ clean /\ mended' = mended /\ token' = token
        /\ UNCHANGED <<outcome, partial, start, step>>
    BY <1>9, Zenon DEF Respond, Stream, NetworkStops, NoTrouble, fileVars, attemptVars
  <2>2. step \in {"headers", "body"} => channel'.heard /\ InOrder'
    <3>1. step \in {"headers", "body"} => ~ NetworkStops
      BY <2>1, SMT DEF NetworkStops, Orderly, Unheard
    <3> QED BY <1>9, <3>1, SendInOrder, Zenon
  <2> QED BY <2>1, <2>2, SMT DEF Orderly, Mending, Spoilt, Fits, AllGood
<1>10. CASE ChooseFile
  <2>1. /\ clean /\ mended' = mended /\ token' = token /\ outcome' = outcome
        /\ partial' = <<>> /\ step' = "copying" /\ step = "chosen"
    BY <1>10, Zenon DEF ChooseFile, NoTrouble, attemptVars
  <2>2. AllGood'
    BY <2>1, NoneIsGood, Zenon
  <2>3. outcome = "none" /\ ~ token
    BY <2>1, SMT DEF Shape, Orderly, Unheard
  <2> QED BY <2>1, <2>2, <2>3, SMT DEF Orderly, Mending
<1>11. CASE CopyPiece
  <2>1. /\ clean /\ mended' = mended /\ token' = token /\ outcome' = outcome
        /\ partial' = Append(partial, "good") /\ step' = step /\ step = "copying"
    BY <1>11, Zenon DEF CopyPiece, NoTrouble, attemptVars
  <2>2. AllGood'
    BY <2>1, GoodPieces DEF Orderly
  <2>3. outcome = "none" /\ ~ token
    BY <2>1, SMT DEF Shape, Orderly, Unheard
  <2> QED BY <2>1, <2>2, <2>3, SMT DEF Orderly, Mending
<1>12. CASE UNCHANGED downloadVars
  BY <1>12 DEF downloadVars, Orderly, Mending, InOrder, Others, Begun, Spoilt, AllGood
<1>13. CASE CancelDownload \/ FileFails \/ Crash
  BY <1>13 DEF CancelDownload, FileFails, Crash
<1> QED
  BY <1>1, <1>2, <1>3, <1>4, <1>5, <1>6, <1>7, <1>8, <1>9, <1>10, <1>11, <1>12, <1>13, Zenon
  DEF DownloadNext

\* A part with wrong bytes costs one download and no more: of two attempts
\* without trouble, the second completes when the first found the part bad
\* (Downloader::download, download.rs).
THEOREM OneDownloadMends == DownloadSpec => []InvalidIsMendedByTheNext
<1>1. DownloadInit => Orderly /\ Mending
  BY SMT DEF DownloadInit, Orderly, Mending, Unheard
<1>2. Mending => InvalidIsMendedByTheNext
  BY DEF Mending, InvalidIsMendedByTheNext
<1> QED BY <1>1, <1>2, DownloadTypesInit, DownloadTypesNext, OrderlyNext, PTL DEF DownloadSpec

-----------------------------------------------------------------------------
(* The server *)

Carrying == {"confirm", "lock", "installing"}
EngineSource == {"local", "hosted"}
ThreadPlace == EngineSource \cup Carrying \cup
  {"idle", "stop", "clear", "launch", "verify", "settle", "publish", "finish", "probe",
   "inferring", "install", "begun", "saved", "draining", "answered", "canceling"}
Result == {"none", "ready", "held", "required", "failed"}
Seat == [at : ThreadPlace, purpose : Purpose, mine : Nat, tries : Nat, result : Result]
Budget == {"servers", "analyses", "restarts", "setups", "saves", "deaths"}

SeatTypes ==
  /\ thread \in [Thread -> Seat]
  /\ used \in [Budget -> Nat]
  /\ source \in EngineSource
  /\ 0 \notin up

\* A thread has a server of its own only between starting it and handing it
\* over: whatever else it begins, it begins without one.
Mine == \A t \in Thread : thread[t].mine # 0 => thread[t].at \in Carrying

Covered == up \subseteq {server} \cup {thread[t].mine : t \in Stoppers}

EngineHasAServer ==
  engine \notin {0, server} => server = 0 /\ \E t \in Stoppers : thread[t].at = "clear"

IInv == SeatTypes /\ Mine /\ Covered /\ EngineHasAServer

-----------------------------------------------------------------------------
(* What a move of one thread does *)

\* A call that rests, fails or is begun anew is a seat without a server.
LEMMA RestingSeat == Resting \in Seat /\ Resting.mine = 0
<1>1. 0 \in Nat
  BY SMT
<1>2. "idle" \in ThreadPlace /\ "none" \in Purpose /\ "none" \in Result
  BY Zenon DEF ThreadPlace, Purpose, Result
<1>3. Resting.mine = 0
  BY DEF Resting
<1> QED BY <1>1, <1>2, <1>3, Zenon DEF Resting, Seat

\* A seat at another place is one, and has the server it had.
LEMMA SeatElsewhere ==
  ASSUME NEW seat \in Seat, NEW place \in ThreadPlace
  PROVE  /\ [seat EXCEPT !.at = place] \in Seat
         /\ [seat EXCEPT !.at = place].mine = seat.mine
         /\ [seat EXCEPT !.at = place].at = place
         /\ [seat EXCEPT !.at = place, !.tries = 0] \in Seat
         /\ [seat EXCEPT !.at = place, !.tries = 0].mine = seat.mine
BY DEF Seat

\* So is a seat for another purpose or with another result, ...
LEMMA SeatForAnother ==
  ASSUME NEW seat \in Seat, NEW place \in ThreadPlace, NEW purpose \in Purpose, NEW result \in Result
  PROVE  /\ [seat EXCEPT !.at = place, !.purpose = purpose] \in Seat
         /\ [seat EXCEPT !.at = place, !.purpose = purpose].mine = seat.mine
         /\ [seat EXCEPT !.at = place, !.result = result] \in Seat
         /\ [seat EXCEPT !.at = place, !.result = result].mine = seat.mine
         /\ [seat EXCEPT !.at = place, !.purpose = purpose, !.result = result] \in Seat
         /\ [seat EXCEPT !.at = place, !.purpose = purpose, !.result = result].mine = seat.mine
BY DEF Seat

\* ... and one that gave its server up, whatever it is at.
LEMMA SeatWithout ==
  ASSUME NEW seat \in Seat, NEW place \in ThreadPlace, NEW result \in Result, NEW n \in Nat
  PROVE  /\ [seat EXCEPT !.at = place, !.mine = 0] \in Seat
         /\ [seat EXCEPT !.at = place, !.mine = 0].mine = 0
         /\ [seat EXCEPT !.at = place, !.result = result, !.mine = 0] \in Seat
         /\ [seat EXCEPT !.at = place, !.result = result, !.mine = 0].mine = 0
         /\ [seat EXCEPT !.at = place, !.tries = n, !.mine = 0] \in Seat
         /\ [seat EXCEPT !.at = place, !.tries = n, !.mine = 0].mine = 0
BY DEF Seat

\* What the queue, the setup and the window send a thread to do.
LEMMA NewSeats ==
  /\ \A purpose \in Purpose :
       /\ [Resting EXCEPT !.at = "stop", !.purpose = purpose] \in Seat
       /\ [Resting EXCEPT !.at = "stop", !.purpose = purpose].mine = 0
  /\ \A result \in Result :
       /\ Settling(result) \in Seat /\ Settling(result).mine = 0
       /\ Abandons(result) \in Seat /\ Abandons(result).mine = 0
  /\ [Resting EXCEPT !.at = "install"] \in Seat /\ [Resting EXCEPT !.at = "install"].mine = 0
<1>1. "stop" \in ThreadPlace /\ "settle" \in ThreadPlace /\ "install" \in ThreadPlace /\ "abandon" \in Purpose
      /\ "none" \in Purpose /\ "none" \in Result
  BY Zenon DEF ThreadPlace, Purpose, Result
<1>2. \A purpose \in Purpose :
       /\ [Resting EXCEPT !.at = "stop", !.purpose = purpose] \in Seat
       /\ [Resting EXCEPT !.at = "stop", !.purpose = purpose].mine = 0
  <2> SUFFICES ASSUME NEW purpose \in Purpose
               PROVE  /\ [Resting EXCEPT !.at = "stop", !.purpose = purpose] \in Seat
                      /\ [Resting EXCEPT !.at = "stop", !.purpose = purpose].mine = 0
    OBVIOUS
  <2> HIDE DEF Resting
  <2> QED BY <1>1, RestingSeat DEF Seat
<1>3. \A result \in Result : Settling(result) \in Seat /\ Settling(result).mine = 0
  <2> SUFFICES ASSUME NEW result \in Result
               PROVE  Settling(result) \in Seat /\ Settling(result).mine = 0
    OBVIOUS
  <2>1. /\ [Resting EXCEPT !.at = "settle", !.result = result] \in Seat
        /\ [Resting EXCEPT !.at = "settle", !.result = result].mine = Resting.mine
    BY <1>1, RestingSeat DEF Seat
  <2> QED BY <2>1, RestingSeat, Zenon DEF Settling
<1>4. \A result \in Result : Abandons(result) \in Seat /\ Abandons(result).mine = 0
  <2> SUFFICES ASSUME NEW result \in Result
               PROVE  Abandons(result) \in Seat /\ Abandons(result).mine = 0
    OBVIOUS
  <2>1. /\ [Resting EXCEPT !.at = "stop", !.purpose = "abandon", !.result = result] \in Seat
        /\ [Resting EXCEPT !.at = "stop", !.purpose = "abandon", !.result = result].mine = Resting.mine
    BY <1>1, RestingSeat DEF Seat
  <2> QED BY <2>1, RestingSeat, Zenon DEF Abandons
<1>5. [Resting EXCEPT !.at = "install"] \in Seat /\ [Resting EXCEPT !.at = "install"].mine = 0
  BY <1>1, RestingSeat, SeatElsewhere, Zenon
<1> QED BY <1>2, <1>3, <1>4, <1>5, Zenon

\* Whoever takes another seat, with a server of its own only where one is
\* carried, leaves the seats typed and the servers where they are carried.
LEMMA SeatTaken ==
  ASSUME IInv, NEW t \in Thread, NEW seat \in Seat,
         thread' = [thread EXCEPT ![t] = seat],
         seat.mine # 0 => seat.at \in Carrying
  PROVE  thread' \in [Thread -> Seat] /\ Mine'
BY DEF IInv, SeatTypes, Mine

\* A move that keeps the servers and engine, and the mover's own server if
\* it runs, keeps all of it accounted for, unless it leaves a stop halfway.
LEMMA Moved ==
  ASSUME IInv, NEW t \in Thread, NEW seat \in Seat,
         thread' = [thread EXCEPT ![t] = seat],
         seat.mine # 0 => seat.at \in Carrying,
         thread[t].at # "clear",
         thread[t].mine \in up => seat.mine = thread[t].mine,
         UNCHANGED runtimeVars, used' \in [Budget -> Nat], source' \in EngineSource
  PROVE  IInv'
<1>1. thread' \in [Thread -> Seat] /\ Mine'
  BY SeatTaken, Zenon
<1>2. SeatTypes'
  BY <1>1 DEF IInv, SeatTypes, runtimeVars
<1>3. Stoppers \subseteq Thread
  BY DEF Thread
<1>4. \A s \in Thread : s # t => thread'[s] = thread[s]
  BY DEF IInv, SeatTypes
<1>5. thread'[t] = seat
  BY DEF IInv, SeatTypes
<1>6. Covered'
  <2> SUFFICES ASSUME NEW s \in up, s # server
               PROVE  \E u \in Stoppers : thread'[u].mine = s
    BY DEF Covered, runtimeVars
  <2>1. PICK u \in Stoppers : thread[u].mine = s
    BY DEF IInv, Covered
  <2> QED BY <2>1, <1>3, <1>4, <1>5
<1>7. EngineHasAServer'
  BY <1>3, <1>4 DEF IInv, EngineHasAServer, runtimeVars
<1> QED BY <1>1, <1>2, <1>6, <1>7 DEF IInv

\* A budget that is spent stays a budget.
LEMMA Spent ==
  ASSUME SeatTypes, NEW what \in Budget, Spend(what)
  PROVE  used' \in [Budget -> Nat]
BY DEF SeatTypes, Spend

\* The thread that moves to another place takes the seat it had there.
LEMMA Goer ==
  ASSUME IInv, NEW t \in Thread, NEW place \in ThreadPlace, Goes(t, place)
  PROVE  thread' = [thread EXCEPT ![t] = [thread[t] EXCEPT !.at = place]]
BY DEF Goes

\* A move of a thread that has no server and leaves no stop halfway.
LEMMA MovedAlone ==
  ASSUME IInv, NEW t \in Thread, NEW seat \in Seat,
         thread' = [thread EXCEPT ![t] = seat],
         seat.mine = 0,
         thread[t].at # "clear", thread[t].at \notin Carrying,
         UNCHANGED runtimeVars, used' \in [Budget -> Nat], source' \in EngineSource
  PROVE  IInv'
<1>1. thread[t].mine = 0 /\ thread[t].mine \notin up
  BY DEF IInv, Mine, SeatTypes
<1> QED BY <1>1, Moved, Zenon

\* The same to another place.
LEMMA WentAlone ==
  ASSUME IInv, NEW t \in Thread, NEW place \in ThreadPlace, Goes(t, place),
         thread[t].at # "clear", thread[t].at \notin Carrying,
         UNCHANGED runtimeVars, used' \in [Budget -> Nat], source' \in EngineSource
  PROVE  IInv'
<1>1. thread[t] \in Seat /\ thread[t].mine = 0
  BY DEF IInv, Mine, SeatTypes
<1>2. [thread[t] EXCEPT !.at = place] \in Seat /\ [thread[t] EXCEPT !.at = place].mine = 0
  BY <1>1, SeatElsewhere, Zenon
<1>3. thread' = [thread EXCEPT ![t] = [thread[t] EXCEPT !.at = place]]
  BY Goer, Zenon
<1> QED BY <1>2, <1>3, MovedAlone, Zenon

-----------------------------------------------------------------------------
(* stop_runtime and start *)

\* A thread that goes on after a stop, or whose start fails, has a seat
\* without a server.
LEMMA SeatsAfter ==
  ASSUME IInv, NEW t \in Stoppers
  PROVE  /\ thread[t].mine = 0 => AfterStop(t) \in Seat /\ AfterStop(t).mine = 0
         /\ StartFailed(t) \in Seat /\ StartFailed(t).mine = 0
         /\ NextAttempt(t) \in Seat /\ NextAttempt(t).mine = 0
<1>1. thread[t] \in Seat /\ thread[t].result \in Result /\ thread[t].tries + 1 \in Nat
  BY DEF IInv, SeatTypes, Thread, Seat
<1>2. /\ {"launch", "verify", "settle"} \subseteq ThreadPlace
      /\ "failed" \in Result
  BY Zenon DEF ThreadPlace, Result
<1>3. /\ [thread[t] EXCEPT !.at = "launch", !.tries = 0] \in Seat
      /\ [thread[t] EXCEPT !.at = "launch", !.tries = 0].mine = thread[t].mine
      /\ [thread[t] EXCEPT !.at = "verify", !.tries = 0] \in Seat
      /\ [thread[t] EXCEPT !.at = "verify", !.tries = 0].mine = thread[t].mine
  BY <1>1, <1>2, SeatElsewhere, Zenon
<1>4. \A result \in Result : /\ [Resting EXCEPT !.at = "settle", !.result = result] \in Seat
                            /\ [Resting EXCEPT !.at = "settle", !.result = result].mine = 0
  BY NewSeats, Zenon DEF Settling
<1>5. thread[t].mine = 0 => AfterStop(t) \in Seat /\ AfterStop(t).mine = 0
  BY <1>1, <1>2, <1>3, <1>4, RestingSeat, Zenon DEF AfterStop
<1>6. StartFailed(t) \in Seat /\ StartFailed(t).mine = 0
  <2>1. /\ [thread[t] EXCEPT !.at = "settle", !.result = "failed", !.mine = 0] \in Seat
        /\ [thread[t] EXCEPT !.at = "settle", !.result = "failed", !.mine = 0].mine = 0
    BY <1>1, <1>2, SeatWithout, Zenon
  <2> QED BY <2>1, RestingSeat, Zenon DEF StartFailed
<1>7. NextAttempt(t) \in Seat /\ NextAttempt(t).mine = 0
  <2>1. /\ [thread[t] EXCEPT !.at = "launch", !.tries = thread[t].tries + 1, !.mine = 0] \in Seat
        /\ [thread[t] EXCEPT !.at = "launch", !.tries = thread[t].tries + 1, !.mine = 0].mine = 0
    BY <1>1, <1>2, SeatWithout, Zenon
  <2> QED BY <2>1, <1>6, Zenon DEF NextAttempt
<1> QED BY <1>5, <1>6, <1>7

\* The stop takes the server with its process, and leaves its engine for the
\* second half.
LEMMA TakeServerStep ==
  ASSUME IInv, NEW t \in Stoppers, TakeServer(t)
  PROVE  IInv'
<1>1. PICK seat \in Seat : /\ seat.mine = thread[t].mine /\ seat.at = "clear"
                          /\ thread' = [thread EXCEPT ![t] = seat]
                          /\ used' \in [Budget -> Nat]
  <2>1. thread[t] \in Seat /\ "clear" \in ThreadPlace /\ "giveUp" \in Purpose
    BY Zenon DEF IInv, SeatTypes, Thread, ThreadPlace, Purpose
  <2>2. CASE Goes(t, "clear") /\ UNCHANGED used
    BY <2>1, <2>2, SeatElsewhere DEF Goes, IInv, SeatTypes
  <2>3. CASE /\ Spend("deaths")
             /\ thread' = [thread EXCEPT ![t].at = "clear", ![t].purpose = "giveUp"]
    <3>1. used' \in [Budget -> Nat]
      BY <2>3, Spent DEF Budget, IInv
    <3>2. [thread[t] EXCEPT !.at = "clear", !.purpose = "giveUp"] \in Seat
      BY <2>1, SeatForAnother, RestingSeat, Zenon DEF Seat
    <3>3. thread' = [thread EXCEPT ![t] = [thread[t] EXCEPT !.at = "clear", !.purpose = "giveUp"]]
      BY <2>3
    <3> QED BY <2>1, <3>1, <3>2, <3>3 DEF Seat
  <2> QED BY <2>2, <2>3 DEF TakeServer
<1>2. thread[t].mine = 0
  BY DEF TakeServer, IInv, Mine, Thread, Carrying
<1>3. thread' \in [Thread -> Seat] /\ Mine'
  BY <1>1, <1>2, SeatTaken, Zenon DEF Thread
<1>4. SeatTypes'
  BY <1>1, <1>3 DEF TakeServer, IInv, SeatTypes
<1>5. \A s \in Stoppers : thread'[s].mine = thread[s].mine
  BY <1>1 DEF IInv, SeatTypes, Thread
<1>6. Covered'
  BY <1>5 DEF TakeServer, IInv, Covered
<1>7. EngineHasAServer'
  <2>1. thread'[t].at = "clear" /\ server' = 0
    BY <1>1 DEF TakeServer, IInv, SeatTypes, Thread
  <2> QED BY <2>1, Zenon DEF EngineHasAServer
<1> QED BY <1>3, <1>4, <1>6, <1>7 DEF IInv

\* The second half of a stop: the engine goes too.
LEMMA ClearEngineStep ==
  ASSUME IInv, NEW t \in Stoppers, ClearEngine(t)
  PROVE  IInv'
<1>1. thread[t].mine = 0
  BY DEF ClearEngine, IInv, Mine, Thread, Carrying
<1>2. AfterStop(t) \in Seat /\ AfterStop(t).mine = 0 /\ thread' = [thread EXCEPT ![t] = AfterStop(t)]
  BY <1>1, SeatsAfter, Zenon DEF ClearEngine
<1>3. thread' \in [Thread -> Seat] /\ Mine'
  BY <1>2, SeatTaken, Zenon DEF Thread
<1>4. SeatTypes'
  BY <1>3 DEF ClearEngine, IInv, SeatTypes
<1>5. \A s \in Stoppers : thread'[s].mine = thread[s].mine
  BY <1>1, <1>2 DEF IInv, SeatTypes, Thread
<1>6. Covered'
  BY <1>5 DEF ClearEngine, IInv, Covered
<1>7. EngineHasAServer'
  BY DEF ClearEngine, EngineHasAServer
<1> QED BY <1>3, <1>4, <1>6, <1>7 DEF IInv

\* A thread in start that gives up its server while it stops it, or has
\* none, leaves nothing to anybody.
LEMMA GivenUp ==
  ASSUME IInv, NEW t \in Stoppers, NEW seat \in Seat,
         thread' = [thread EXCEPT ![t] = seat], seat.mine = 0, thread[t].at # "clear",
         up' = up \ {thread[t].mine},
         UNCHANGED <<server, engine, source, used>>
  PROVE  IInv'
<1>1. thread' \in [Thread -> Seat] /\ Mine'
  BY SeatTaken, Zenon DEF Thread
<1>2. SeatTypes'
  BY <1>1 DEF IInv, SeatTypes
<1>3. \A s \in Stoppers : s # t => thread'[s] = thread[s]
  BY DEF IInv, SeatTypes, Thread
<1>4. Covered'
  <2> SUFFICES ASSUME NEW s \in up, s # thread[t].mine, s # server
               PROVE  \E u \in Stoppers : thread'[u].mine = s
    BY DEF Covered
  <2>1. PICK u \in Stoppers : thread[u].mine = s
    BY DEF IInv, Covered
  <2> QED BY <2>1, <1>3
<1>5. EngineHasAServer'
  BY <1>3 DEF IInv, EngineHasAServer
<1> QED BY <1>1, <1>2, <1>4, <1>5 DEF IInv

\* A server that was started is its starter's.
LEMMA LaunchServerStep ==
  ASSUME IInv, NEW t \in Stoppers, LaunchServer(t)
  PROVE  IInv'
<1>1. thread[t] \in Seat /\ t \in Thread
  BY DEF IInv, SeatTypes, Thread
<1>2. thread[t].mine = 0 /\ thread[t].at # "clear" /\ thread[t].at \notin Carrying
  BY <1>1 DEF LaunchServer, IInv, Mine, Carrying
<1>3. CASE /\ Spend("servers")
           /\ up' = up \cup {used.servers + 1}
           /\ thread' = [thread EXCEPT ![t].at = "confirm", ![t].mine = used.servers + 1]
  <2>1. "servers" \in Budget
    BY Zenon DEF Budget
  <2>2. used' \in [Budget -> Nat] /\ used.servers \in Nat
    BY <1>3, <2>1, Spent, Zenon DEF IInv, SeatTypes
  <2>3. used.servers + 1 \in Nat /\ used.servers + 1 # 0
    BY <2>2
  <2> DEFINE seat == [thread[t] EXCEPT !.at = "confirm", !.mine = used.servers + 1]
  <2>4. "confirm" \in ThreadPlace /\ "confirm" \in Carrying
    BY Zenon DEF ThreadPlace, Carrying
  <2>5. seat \in Seat /\ seat.at = "confirm" /\ seat.mine = used.servers + 1
    BY <1>1, <2>3, <2>4 DEF Seat
  <2>6. thread' = [thread EXCEPT ![t] = seat]
    BY <1>3, <1>1 DEF IInv, SeatTypes
  <2> HIDE DEF seat
  <2>7. thread' \in [Thread -> Seat] /\ Mine'
    BY <1>1, <2>4, <2>5, <2>6, SeatTaken, Zenon
  <2>8. SeatTypes'
    BY <1>3, <2>2, <2>3, <2>7 DEF LaunchServer, IInv, SeatTypes
  <2>9. \A s \in Stoppers : s # t => thread'[s] = thread[s]
    BY <2>6 DEF IInv, SeatTypes, Thread
  <2>10. thread'[t] = seat
    BY <1>1, <2>6 DEF IInv, SeatTypes
  <2>11. Covered'
    <3> SUFFICES ASSUME NEW s \in up', s # server
                 PROVE  \E u \in Stoppers : thread'[u].mine = s
      BY DEF Covered, LaunchServer
    <3>1. CASE s = used.servers + 1
      BY <2>5, <2>10, <3>1
    <3>2. CASE s \in up
      <4>1. PICK u \in Stoppers : thread[u].mine = s
        BY <3>2 DEF IInv, Covered
      <4>2. u # t
        BY <4>1, <1>2, <3>2 DEF IInv, SeatTypes
      <4> QED BY <4>1, <4>2, <2>9
    <3> QED BY <1>3, <3>1, <3>2
  <2>12. EngineHasAServer'
    BY <2>9, <1>2 DEF LaunchServer, IInv, EngineHasAServer
  <2> QED BY <2>7, <2>8, <2>11, <2>12 DEF IInv
<1>4. CASE thread' = [thread EXCEPT ![t] = NextAttempt(t)] /\ UNCHANGED <<up, used>>
  <2>1. NextAttempt(t) \in Seat /\ NextAttempt(t).mine = 0
    BY SeatsAfter, Zenon
  <2>2. UNCHANGED runtimeVars /\ used' \in [Budget -> Nat] /\ source' \in EngineSource
    BY <1>4 DEF LaunchServer, runtimeVars, IInv, SeatTypes
  <2> QED BY <1>1, <1>2, <1>4, <2>1, <2>2, MovedAlone, Zenon
<1> QED BY <1>3, <1>4 DEF LaunchServer

\* One that is not healthy in time is stopped, ...
LEMMA TimedOutStep ==
  ASSUME IInv, NEW t \in Stoppers, TimedOut(t)
  PROVE  IInv'
<1>1. StartFailed(t) \in Seat /\ StartFailed(t).mine = 0
  BY SeatsAfter, Zenon
<1>2. thread[t].at # "clear"
  BY DEF TimedOut
<1> QED BY <1>1, <1>2, GivenUp, Zenon DEF TimedOut

\* ... one that is healthy goes on to be installed, one that is gone is no
\* longer anybody's.
LEMMA ConfirmStep ==
  ASSUME IInv, NEW t \in Stoppers, Confirm(t)
  PROVE  IInv'
<1>1. thread[t] \in Seat /\ t \in Thread /\ thread[t].at # "clear"
  BY DEF IInv, SeatTypes, Thread, Confirm
<1>2. UNCHANGED runtimeVars /\ used' \in [Budget -> Nat] /\ source' \in EngineSource
  BY DEF Confirm, IInv, SeatTypes
<1>3. CASE thread[t].mine \in up
  <2>1. "lock" \in ThreadPlace /\ "lock" \in Carrying
    BY Zenon DEF ThreadPlace, Carrying
  <2>2. /\ [thread[t] EXCEPT !.at = "lock"] \in Seat
        /\ [thread[t] EXCEPT !.at = "lock"].mine = thread[t].mine
        /\ [thread[t] EXCEPT !.at = "lock"].at = "lock"
    BY <1>1, <2>1, SeatElsewhere, Zenon
  <2>3. thread' = [thread EXCEPT ![t] = [thread[t] EXCEPT !.at = "lock"]]
    BY <1>1, <1>3 DEF Confirm
  <2> QED BY <1>1, <1>2, <2>1, <2>2, <2>3, Moved, Zenon
<1>4. CASE thread[t].mine \notin up
  <2>1. NextAttempt(t) \in Seat /\ NextAttempt(t).mine = 0
    BY SeatsAfter, Zenon
  <2>2. thread' = [thread EXCEPT ![t] = NextAttempt(t)]
    BY <1>1, <1>4 DEF Confirm
  <2> QED BY <1>1, <1>2, <1>4, <2>1, <2>2, Moved, Zenon
<1> QED BY <1>3, <1>4, Zenon

\* Waiting for the lock on the server changes nothing about it.
LEMMA LockServerStep ==
  ASSUME IInv, NEW t \in Stoppers, LockServer(t)
  PROVE  IInv'
<1>1. thread[t] \in Seat /\ t \in Thread /\ thread[t].at # "clear"
  BY DEF IInv, SeatTypes, Thread, LockServer
<1>2. UNCHANGED runtimeVars /\ used' \in [Budget -> Nat] /\ source' \in EngineSource
  BY DEF LockServer, IInv, SeatTypes
<1>3. "installing" \in ThreadPlace /\ "installing" \in Carrying
  BY Zenon DEF ThreadPlace, Carrying
<1>4. /\ [thread[t] EXCEPT !.at = "installing"] \in Seat
      /\ [thread[t] EXCEPT !.at = "installing"].mine = thread[t].mine
      /\ [thread[t] EXCEPT !.at = "installing"].at = "installing"
  BY <1>1, <1>3, SeatElsewhere, Zenon
<1>5. thread' = [thread EXCEPT ![t] = [thread[t] EXCEPT !.at = "installing"]]
  BY DEF LockServer, Goes
<1> QED BY <1>1, <1>2, <1>3, <1>4, <1>5, Moved, Zenon

\* The server is kept with its engine, or stopped because there is another.
LEMMA InstallStep ==
  ASSUME IInv, NEW t \in Stoppers, Install(t)
  PROVE  IInv'
<1>1. thread[t] \in Seat /\ t \in Thread /\ thread[t].at # "clear"
  BY DEF IInv, SeatTypes, Thread, Install
<1>2. CASE server # 0 \/ engine # 0
  <2>1. StartFailed(t) \in Seat /\ StartFailed(t).mine = 0
    BY SeatsAfter, Zenon
  <2>2. /\ up' = up \ {thread[t].mine}
        /\ thread' = [thread EXCEPT ![t] = StartFailed(t)]
        /\ UNCHANGED <<server, engine, source, used>>
    BY <1>2 DEF Install
  <2> QED BY <1>1, <2>1, <2>2, GivenUp, Zenon
<1>3. CASE server = 0 /\ engine = 0
  <2> DEFINE seat == IF t = "setup" THEN [thread[t] EXCEPT !.at = "probe", !.mine = 0] ELSE Resting
  <2>1. /\ server' = thread[t].mine /\ engine' = thread[t].mine
        /\ thread' = [thread EXCEPT ![t] = seat]
        /\ UNCHANGED <<up, source, used>>
    BY <1>3 DEF Install
  <2>2. seat \in Seat /\ seat.mine = 0
    <3>1. "probe" \in ThreadPlace
      BY Zenon DEF ThreadPlace
    <3>2. /\ [thread[t] EXCEPT !.at = "probe", !.mine = 0] \in Seat
          /\ [thread[t] EXCEPT !.at = "probe", !.mine = 0].mine = 0
      BY <1>1, <3>1 DEF Seat
    <3> QED BY <3>2, RestingSeat, Zenon
  <2> HIDE DEF seat
  <2>3. thread' \in [Thread -> Seat] /\ Mine'
    BY <1>1, <2>1, <2>2, SeatTaken, Zenon
  <2>4. SeatTypes'
    BY <2>1, <2>3 DEF IInv, SeatTypes
  <2>5. \A s \in Stoppers : s # t => thread'[s] = thread[s]
    BY <2>1 DEF IInv, SeatTypes, Thread
  <2>6. Covered'
    <3> SUFFICES ASSUME NEW s \in up, s # thread[t].mine
                 PROVE  \E u \in Stoppers : thread'[u].mine = s
      BY <2>1 DEF Covered
    <3>1. s # server
      BY <1>3 DEF IInv, SeatTypes
    <3>2. PICK u \in Stoppers : thread[u].mine = s
      BY <3>1 DEF IInv, Covered
    <3> QED BY <3>2, <2>5
  <2>7. EngineHasAServer'
    BY <2>1 DEF EngineHasAServer
  <2> QED BY <2>3, <2>4, <2>6, <2>7 DEF IInv
<1> QED BY <1>2, <1>3

\* A server may go by itself; what was kept of it stays until it is stopped.
LEMMA ServerDiesStep ==
  ASSUME IInv, ServerDies
  PROVE  IInv'
<1>1. "deaths" \in Budget
  BY Zenon DEF Budget
<1>2. used' \in [Budget -> Nat]
  BY <1>1, Spent, Zenon DEF ServerDies, IInv
<1> QED BY <1>2 DEF ServerDies, IInv, SeatTypes, Mine, Covered, EngineHasAServer

-----------------------------------------------------------------------------
(* The queue, the setup and the window *)

\* The scheduler, the analysis and a person's cancel move threads that have
\* no server, one at a time.
LEMMA QueueStep ==
  ASSUME IInv,
         \/ \E t \in {"scheduler", "command"} : CancelAnalysis(t)
         \/ AnalysisSteps \/ Drain \/ Drained \/ Analyze \/ CancelDocument \/ Recover
  PROVE  IInv'
<1> USE DEF Carrying
<1>1. {"draining", "idle", "begun", "answered", "inferring", "canceling"} \subseteq ThreadPlace
  BY Zenon DEF ThreadPlace
<1>2. EngineSource \subseteq ThreadPlace
  BY Zenon DEF ThreadPlace
<1>3. /\ {"scheduler", "command", "analysis"} \subseteq Thread
      /\ {"analyses", "restarts"} \subseteq Budget
  BY Zenon DEF Thread, Stoppers, Budget
<1>4. used \in [Budget -> Nat] /\ source \in EngineSource
  BY DEF IInv, SeatTypes
<1>5. ASSUME NEW t \in {"scheduler", "command"}, CancelAnalysis(t)
      PROVE  IInv'
  <2>1. thread[t].at \in {"canceling", "draining"} /\ t \in Thread
    BY <1>5, <1>3 DEF CancelAnalysis
  <2>2. used' \in [Budget -> Nat]
    BY <1>5, <1>3, Spent, Zenon DEF CancelAnalysis, IInv
  <2>3. UNCHANGED runtimeVars /\ source' \in EngineSource
    BY <1>5, <1>4 DEF CancelAnalysis
  <2>4. "restart" \in Purpose
    BY Zenon DEF Purpose
  <2>5. PICK seat \in Seat : seat.mine = 0 /\ thread' = [thread EXCEPT ![t] = seat]
    BY <1>5, <2>4, RestingSeat, NewSeats, Zenon DEF CancelAnalysis
  <2>6. thread[t].at # "clear" /\ thread[t].at \notin Carrying
    BY <2>1
  <2> QED BY <2>1, <2>2, <2>3, <2>5, <2>6, MovedAlone, Zenon
<1>6. ASSUME Recover
      PROVE  IInv'
  <2>1. used' \in [Budget -> Nat]
    BY <1>6, <1>3, Spent, Zenon DEF Recover, IInv
  <2>2. UNCHANGED runtimeVars /\ source' \in EngineSource
    BY <1>6, <1>4 DEF Recover
  <2>3. "restart" \in Purpose
    BY Zenon DEF Purpose
  <2>4. PICK seat \in Seat : seat.mine = 0 /\ thread' = [thread EXCEPT !["scheduler"] = seat]
    BY <1>6, <2>3, NewSeats, Zenon DEF Recover
  <2>5. thread["scheduler"].at # "clear" /\ thread["scheduler"].at \notin Carrying
    BY <1>6 DEF Recover
  <2> QED BY <1>3, <2>1, <2>2, <2>4, <2>5, MovedAlone, Zenon
<1>7. ASSUME Analyze
      PROVE  IInv'
  <2>1. used' \in [Budget -> Nat]
    BY <1>7, <1>3, Spent, Zenon DEF Analyze, IInv
  <2>2. UNCHANGED runtimeVars /\ source' \in EngineSource /\ Goes("analysis", "begun")
    BY <1>7, <1>4 DEF Analyze
  <2>3. thread["analysis"].at # "clear" /\ thread["analysis"].at \notin Carrying
    BY <1>7 DEF Analyze
  <2>4. "begun" \in ThreadPlace /\ "analysis" \in Thread
    BY <1>1, <1>3
  <2> QED BY <2>1, <2>2, <2>3, <2>4, WentAlone, Zenon
<1>8. ASSUME AnalysisSteps \/ Drain \/ Drained \/ CancelDocument
      PROVE  IInv'
  <2>1. PICK t \in {"scheduler", "command", "analysis"} : \E place \in ThreadPlace :
          /\ Goes(t, place)
          /\ thread[t].at \in {"draining", "idle", "begun", "answered", "inferring", "local", "hosted"}
    <3>1. CASE Choose
      BY <3>1, <1>2, <1>4 DEF Choose
    <3>2. CASE ReadEngine \/ Infer \/ HostedAnswers \/ Answered
      BY <3>2, <1>1 DEF ReadEngine, Infer, HostedAnswers, Answered, Reading
    <3>3. CASE Drain \/ Drained \/ CancelDocument
      BY <3>3, <1>1 DEF Drain, Drained, CancelDocument
    <3> QED BY <1>8, <3>1, <3>2, <3>3 DEF AnalysisSteps
  <2>2. UNCHANGED runtimeVars /\ used' \in [Budget -> Nat] /\ source' \in EngineSource
    BY <1>8, <1>4 DEF AnalysisSteps, Choose, ReadEngine, Infer, HostedAnswers, Answered, Drain,
       Drained, CancelDocument
  <2>3. thread[t].at # "clear" /\ thread[t].at \notin Carrying /\ t \in Thread
    BY <2>1, <1>3
  <2> QED BY <2>1, <2>2, <2>3, WentAlone, Zenon
<1> QED BY <1>5, <1>6, <1>7, <1>8, Zenon

\* The setup has no server of its own before it starts one.
LEMMA SetupStep ==
  ASSUME IInv, SetupSteps
  PROVE  IInv'
<1> USE DEF Carrying
<1>1. "setup" \in Thread
  BY Zenon DEF Thread, Stoppers
<1>2. /\ {"launch", "inferring", "publish", "finish"} \subseteq ThreadPlace
      /\ {"required", "failed", "ready", "held"} \subseteq Result
      /\ "verify" \in Purpose
  BY Zenon DEF ThreadPlace, Result, Purpose
<1>3. UNCHANGED runtimeVars /\ used' \in [Budget -> Nat] /\ source' \in EngineSource
  BY DEF SetupSteps, InstallFiles, StartVerified, Probe, ProbeAnswers, Settle, Publish, Finish,
     IInv, SeatTypes
<1>4. thread["setup"].at \in {"install", "verify", "probe", "inferring", "settle", "publish", "finish"}
  BY DEF SetupSteps, InstallFiles, StartVerified, Probe, ProbeAnswers, Settle, Publish, Finish, Reading
<1>5. /\ thread["setup"] \in Seat /\ thread["setup"].mine = 0
      /\ thread["setup"].at # "clear" /\ thread["setup"].at \notin Carrying
  BY <1>1, <1>4 DEF IInv, SeatTypes, Mine
<1>6. \A place \in ThreadPlace : /\ [thread["setup"] EXCEPT !.at = place] \in Seat
                          /\ [thread["setup"] EXCEPT !.at = place].mine = 0
  BY <1>5, SeatElsewhere, Zenon
<1>7. PICK seat \in Seat : seat.mine = 0 /\ thread' = [thread EXCEPT !["setup"] = seat]
  <2>1. CASE InstallFiles
    BY <2>1, <1>2, NewSeats, Zenon DEF InstallFiles
  <2>2. CASE StartVerified
    BY <2>2, <1>2, <1>6, NewSeats, Zenon DEF StartVerified
  <2>3. CASE Probe
    BY <2>3, <1>2, <1>6, NewSeats, Zenon DEF Probe
  <2>4. CASE ProbeAnswers
    BY <2>4, <1>2, NewSeats, Zenon DEF ProbeAnswers
  <2>5. CASE Settle
    BY <2>5, <1>2, <1>6, Zenon DEF Settle, Goes
  <2>6. CASE Publish
    <3>1. \A result \in Result : /\ [thread["setup"] EXCEPT !.at = "finish", !.result = result] \in Seat
                                /\ [thread["setup"] EXCEPT !.at = "finish", !.result = result].mine = 0
      BY <1>2, <1>5 DEF Seat
    <3> QED BY <2>6, <3>1, <1>2 DEF Publish, Flags, IInv, SeatTypes
  <2>7. CASE Finish
    BY <2>7, RestingSeat, Zenon DEF Finish
  <2> QED BY <2>1, <2>2, <2>3, <2>4, <2>5, <2>6, <2>7 DEF SetupSteps
<1> QED BY <1>1, <1>3, <1>5, <1>7, MovedAlone, Zenon

\* Nor has the window; what it begins, saves or cancels is a move of its own.
LEMMA WindowStep ==
  ASSUME IInv, BeginSetup \/ CancelSetup \/ SaveSettings \/ Saved
  PROVE  IInv'
<1> USE DEF Carrying
<1>1. "window" \in Thread /\ "setups" \in Budget /\ "saves" \in Budget
  BY Zenon DEF Thread, Stoppers, Budget
<1>2. /\ {"begun", "saved"} \subseteq ThreadPlace
      /\ {"ready", "held"} \subseteq Result
      /\ "cancel" \in Purpose
  BY Zenon DEF ThreadPlace, Result, Purpose
<1>3. /\ thread["window"] \in Seat /\ thread["window"].mine = 0
      /\ thread["window"].at # "clear" /\ thread["window"].at \notin Carrying
  BY <1>1 DEF IInv, SeatTypes, Mine, BeginSetup, CancelSetup, SaveSettings, Saved
<1>4. UNCHANGED runtimeVars /\ source' \in EngineSource
  BY DEF IInv, SeatTypes, BeginSetup, CancelSetup, SaveSettings, Saved, EngineSource
<1>5. used' \in [Budget -> Nat]
  <2>1. CASE BeginSetup
    BY <2>1, <1>1, Spent, Zenon DEF BeginSetup, IInv
  <2>2. CASE SaveSettings
    BY <2>2, <1>1, Spent, Zenon DEF SaveSettings, IInv
  <2>3. CASE CancelSetup \/ Saved
    BY <2>3 DEF CancelSetup, Saved, IInv, SeatTypes
  <2> QED BY <2>1, <2>2, <2>3
<1>6. PICK seat \in Seat : seat.mine = 0 /\ thread' = [thread EXCEPT !["window"] = seat]
  <2>1. \A place \in {"begun", "saved"}, result \in Result :
          /\ [thread["window"] EXCEPT !.at = place, !.result = result] \in Seat
          /\ [thread["window"] EXCEPT !.at = place, !.result = result].mine = 0
    BY <1>2, <1>3 DEF Seat
  <2>2. CASE BeginSetup
    BY <2>1, <2>2, <1>2 DEF BeginSetup, Flags, IInv, SeatTypes
  <2>3. CASE SaveSettings
    <3>1. PICK local \in {ready.local}, hosted \in {FALSE, TRUE} : Flags("window", local, hosted, "saved")
      BY <2>3, Zenon DEF SaveSettings
    <3> QED BY <3>1, <2>1, <1>2 DEF Flags, IInv, SeatTypes
  <2>4. CASE CancelSetup
    BY <2>4, <1>2, NewSeats, Zenon DEF CancelSetup
  <2>5. CASE Saved
    BY <2>5, RestingSeat, Zenon DEF Saved
  <2> QED BY <2>2, <2>3, <2>4, <2>5
<1> QED BY <1>1, <1>3, <1>4, <1>5, <1>6, MovedAlone, Zenon

-----------------------------------------------------------------------------
(* The setup begun *)

\* Nobody who goes on after a stop or a failed start begins a setup.
LEMMA NoneBegins ==
  ASSUME SeatTypes, NEW t \in Stoppers
  PROVE  /\ AfterStop(t).at # "begun"
         /\ StartFailed(t).at # "begun"
         /\ NextAttempt(t).at # "begun"
<1>1. thread[t] \in Seat
  BY DEF SeatTypes, Thread
<1>2. Resting \in Seat /\ Resting.at = "idle"
  BY RestingSeat, Zenon DEF Resting
<1>3. AfterStop(t).at # "begun"
  BY <1>1, <1>2 DEF AfterStop, Seat
<1>4. StartFailed(t).at # "begun"
  BY <1>1, <1>2 DEF StartFailed, Seat
<1>5. NextAttempt(t).at # "begun"
  BY <1>1, <1>4 DEF NextAttempt, Seat
<1> QED BY <1>3, <1>4, <1>5

\* While the window has begun a setup that has no thread yet, no other setup
\* has one.
SetupWaits == thread["window"].at = "begun" => thread["setup"].at = "idle"

\* No step breaks it: the window begins a setup only when none is under way.
LEMMA SetupWaitsNext ==
  ASSUME SeatTypes, SetupWaits, ServerNext
  PROVE  SetupWaits'
<1>1. /\ \A t \in Stoppers : t \in Thread
      /\ "window" \in Stoppers /\ "setup" \in Stoppers
  BY DEF Thread, Stoppers
<1>2. Resting \in Seat /\ Resting.at = "idle"
  BY RestingSeat, Zenon DEF Resting
<1>3. ASSUME NEW t \in Stoppers, NEW seat,
             thread' = [thread EXCEPT ![t] = seat],
             t = "setup" => thread[t].at # "idle",
             t = "window" => seat.at # "begun"
      PROVE  SetupWaits'
  BY <1>1, <1>3 DEF SetupWaits, SeatTypes
<1>4. ASSUME NEW t \in Stoppers, Locks(t) \/ Starts(t)
      PROVE  SetupWaits'
  <2>1. thread[t].at # "idle"
    BY <1>4 DEF Locks, Starts, TakeServer, ClearEngine, LockServer, Install, LaunchServer, TimedOut, Confirm
  <2>2. thread[t] \in Seat
    BY <1>1 DEF SeatTypes
  <2>3. \E seat : thread' = [thread EXCEPT ![t] = seat] /\ seat.at # "begun"
    <3>1. \A place \in ThreadPlace \ {"begun"} :
            /\ [thread[t] EXCEPT !.at = place].at # "begun"
            /\ [thread[t] EXCEPT !.at = place, !.mine = 0].at # "begun"
            /\ [thread[t] EXCEPT !.at = place, !.mine = used.servers + 1].at # "begun"
            /\ [thread[t] EXCEPT !.at = place, !.purpose = "giveUp"].at # "begun"
      BY <2>2 DEF Seat
    <3>2. {"clear", "installing", "probe", "confirm", "lock"} \subseteq ThreadPlace \ {"begun"}
      BY DEF ThreadPlace, Carrying
    <3>3. CASE TakeServer(t)
      <4>1. \/ thread' = [thread EXCEPT ![t] = [thread[t] EXCEPT !.at = "clear"]]
            \/ thread' = [thread EXCEPT ![t] = [thread[t] EXCEPT !.at = "clear", !.purpose = "giveUp"]]
        BY <3>3 DEF TakeServer, Goes
      <4> QED BY <4>1, <3>1, <3>2, Zenon
    <3>4. CASE LockServer(t)
      <4>1. thread' = [thread EXCEPT ![t] = [thread[t] EXCEPT !.at = "installing"]]
        BY <3>4 DEF LockServer, Goes
      <4> QED BY <4>1, <3>1, <3>2, Zenon
    <3>5. CASE Install(t)
      <4>1. \/ thread' = [thread EXCEPT ![t] = StartFailed(t)]
            \/ thread' = [thread EXCEPT ![t] = Resting]
            \/ thread' = [thread EXCEPT ![t] = [thread[t] EXCEPT !.at = "probe", !.mine = 0]]
        BY <3>5 DEF Install
      <4>2. Resting.at # "begun"
        BY <1>2, Zenon
      <4> QED BY <4>1, <4>2, <3>1, <3>2, NoneBegins, Zenon
    <3>6. CASE LaunchServer(t)
      <4>1. \/ thread' = [thread EXCEPT ![t] = NextAttempt(t)]
            \/ thread' = [thread EXCEPT ![t] = [thread[t] EXCEPT !.at = "confirm", !.mine = used.servers + 1]]
        BY <3>6 DEF LaunchServer
      <4> QED BY <4>1, <3>1, <3>2, NoneBegins, Zenon
    <3>7. CASE Confirm(t)
      <4>1. \/ thread' = [thread EXCEPT ![t] = NextAttempt(t)]
            \/ thread' = [thread EXCEPT ![t] = [thread[t] EXCEPT !.at = "lock"]]
        BY <3>7, <1>1 DEF Confirm, SeatTypes
      <4> QED BY <4>1, <3>1, <3>2, NoneBegins, Zenon
    <3>8. CASE ClearEngine(t)
      BY <3>8, NoneBegins, Zenon DEF ClearEngine
    <3>9. CASE TimedOut(t)
      BY <3>9, NoneBegins, Zenon DEF TimedOut
    <3> QED BY <1>4, <3>3, <3>4, <3>5, <3>6, <3>7, <3>8, <3>9 DEF Locks, Starts
  <2> QED BY <1>3, <2>1, <2>3, Zenon
<1>5. CASE BeginSetup
  BY <1>1, <1>5 DEF BeginSetup, Flags, SetupWaits, SeatTypes
<1>6. CASE Spawn \/ CancelSetup \/ Saved
  <2>1. thread'["window"] = Resting \/ thread'["window"] = [Resting EXCEPT !.at = "stop", !.purpose = "cancel"]
    BY <1>1, <1>6 DEF Spawn, CancelSetup, Saved, SeatTypes
  <2> QED BY <2>1, <1>2 DEF SetupWaits, Seat
<1>7. CASE SaveSettings
  <2>1. thread'["window"].at = "saved"
    BY <1>1, <1>7 DEF SaveSettings, Flags, SeatTypes, Seat
  <2> QED BY <2>1 DEF SetupWaits
<1>8. CASE SetupSteps
  <2>1. thread["setup"].at # "idle"
    BY <1>8 DEF SetupSteps, InstallFiles, StartVerified, Probe, ProbeAnswers, Settle, Publish, Finish, Reading
  <2>2. thread'["window"] = thread["window"]
    BY <1>1, <1>8 DEF SetupSteps, InstallFiles, StartVerified, Probe, ProbeAnswers, Settle, Publish,
       Finish, Goes, Flags, SeatTypes
  <2> QED BY <2>1, <2>2 DEF SetupWaits
<1>9. CASE \/ \E t \in {"scheduler", "command"} : CancelAnalysis(t)
           \/ AnalysisSteps \/ Drain \/ Drained \/ Analyze \/ CancelDocument \/ Recover \/ ServerDies
  <2>1. thread'["window"] = thread["window"] /\ thread'["setup"] = thread["setup"]
    BY <1>1, <1>9 DEF CancelAnalysis, AnalysisSteps, Choose, ReadEngine, Infer, HostedAnswers, Answered,
       Drain, Drained, Analyze, CancelDocument, Recover, ServerDies, Goes, SeatTypes
  <2> QED BY <2>1 DEF SetupWaits
<1> QED BY <1>4, <1>5, <1>6, <1>7, <1>8, <1>9 DEF ServerNext

\* The setup gets a thread from the window, or none: neither has a server,
\* and no thread of an earlier setup is written over.
LEMMA SpawnStep ==
  ASSUME IInv, SetupWaits, Spawn
  PROVE  IInv'
<1>1. "window" \in Stoppers /\ "setup" \in Stoppers /\ Stoppers \subseteq Thread
  BY DEF Stoppers, Thread
<1>2. /\ thread["window"].mine = 0 /\ thread["window"].at # "clear"
      /\ thread["setup"].mine = 0 /\ thread["setup"].at # "clear"
  BY <1>1 DEF IInv, Mine, SetupWaits, Spawn, Carrying
<1>3. PICK seat \in Seat :
        /\ seat.mine = 0
        /\ \/ thread' = [thread EXCEPT !["window"] = Resting, !["setup"] = seat]
           \/ thread' = [thread EXCEPT !["window"] = Resting]
  BY RestingSeat, NewSeats, Zenon DEF Spawn
<1>4. thread' \in [Thread -> Seat]
  BY <1>3, RestingSeat, Zenon DEF IInv, SeatTypes
<1>5. \A t \in Stoppers : thread'[t].mine = thread[t].mine
  BY <1>1, <1>2, <1>3, RestingSeat DEF IInv, SeatTypes
<1>6. \A t \in Thread \ {"window", "setup"} : thread'[t] = thread[t]
  BY <1>3 DEF IInv, SeatTypes
<1>7. SeatTypes'
  BY <1>4 DEF Spawn, IInv, SeatTypes, runtimeVars
<1>8. Mine'
  BY <1>1, <1>2, <1>5, <1>6 DEF IInv, Mine
<1>9. Covered'
  BY <1>5 DEF Spawn, runtimeVars, IInv, Covered
<1>10. EngineHasAServer'
  BY <1>1, <1>2, <1>6 DEF Spawn, runtimeVars, IInv, EngineHasAServer
<1> QED BY <1>7, <1>8, <1>9, <1>10 DEF IInv

-----------------------------------------------------------------------------
(* The servers are accounted for *)

\* Nothing runs before the first start.
LEMMA InitIInv ==
  ASSUME ServerInit
  PROVE  IInv /\ SetupWaits
<1>1. /\ "install" \in ThreadPlace /\ Thread = Stoppers \cup {"analysis"}
  BY Zenon DEF ThreadPlace, Thread
<1>2. PICK installed \in {TRUE, FALSE} : thread = [t \in Thread |->
            IF t = "setup" /\ installed THEN [Resting EXCEPT !.at = "install"] ELSE Resting]
  BY Zenon DEF ServerInit
<1>3. \A t \in Thread : thread[t] \in Seat /\ thread[t].mine = 0
  BY <1>2, RestingSeat, NewSeats, Zenon
<1>4. thread \in [Thread -> Seat]
  BY <1>2, <1>3, Zenon
<1>5. used \in [Budget -> Nat]
  <2>1. 0 \in Nat
    BY SMT
  <2> QED BY <2>1 DEF ServerInit, Budget
<1>6. SeatTypes
  BY <1>4, <1>5 DEF ServerInit, SeatTypes, EngineSource
<1>7. Mine /\ Covered /\ EngineHasAServer
  BY <1>3 DEF Mine, Covered, EngineHasAServer, ServerInit
<1>8. SetupWaits
  <2>1. thread["window"] = Resting
    BY <1>1, <1>2 DEF Stoppers
  <2>2. thread["window"].at # "begun"
    BY <2>1 DEF Resting
  <2> QED BY <2>2, Zenon DEF SetupWaits
<1> QED BY <1>6, <1>7, <1>8 DEF IInv

\* Whatever any thread does, nothing is left behind.
LEMMA NextIInv ==
  ASSUME IInv, SetupWaits, [ServerNext]_modelVars
  PROVE  IInv' /\ SetupWaits'
<1>1. CASE UNCHANGED modelVars
  BY <1>1 DEF modelVars, IInv, SeatTypes, Mine, Covered, EngineHasAServer, SetupWaits
<1>2. CASE ServerNext
  <2>1. SetupWaits'
    BY <1>2, SetupWaitsNext DEF IInv
  <2>2. ASSUME NEW t \in Stoppers, Locks(t) \/ Starts(t)
        PROVE  IInv'
    BY <2>2, TakeServerStep, ClearEngineStep, LockServerStep, InstallStep, LaunchServerStep,
       TimedOutStep, ConfirmStep, Zenon DEF Locks, Starts
  <2>3. IInv'
    BY <1>2, <2>2, QueueStep, SetupStep, WindowStep, SpawnStep, ServerDiesStep, Zenon DEF ServerNext
  <2> QED BY <2>1, <2>3
<1> QED BY <1>1, <1>2

\* No server is left behind with its gigabyte, and no engine without its
\* server but between the two halves of a stop, whoever starts, stops,
\* cancels or saves at once and whichever start fails
\* (LlamaServer::start_with, RuntimeModel::start and stop_runtime).
THEOREM NoServerIsLeftBehind == ServerSpec => []ServersAreAccountedFor
<1>1. IInv => ServersAreAccountedFor
  BY DEF IInv, Covered, EngineHasAServer, ServersAreAccountedFor
<1>2. ServerInit => IInv /\ SetupWaits
  BY InitIInv
<1>3. IInv /\ SetupWaits /\ [ServerNext]_modelVars => IInv' /\ SetupWaits'
  BY NextIInv
<1> QED BY <1>1, <1>2, <1>3, PTL DEF ServerSpec
=============================================================================
