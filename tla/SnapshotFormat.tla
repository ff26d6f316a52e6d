--------------------------- MODULE SnapshotFormat ---------------------------
(***************************************************************************)
(* The snapshot file: snapshot::encode and snapshot::decode.  A file is a  *)
(* sequence of digits 0 .. Base - 1, the bytes of a smaller machine;       *)
(* numbers take fewer digits than the 2, 4 and 8 bytes of the code, and the*)
(* checksum has fewer bits.                                                *)
(***************************************************************************)
EXTENDS SnapshotClock, Sequences, SequencesExt, Functions, Bitwise

CONSTANTS
    Base,             \* the values of a byte: a power of two
    CountWidth, LengthWidth, ExpiryWidth, SumWidth,
    kMaxFieldLength

kMagic == <<1, 0>>
kFormatVersion == 1

\* FNV-1a, with the constants of the code reduced to the width used here.
SumRange == Base ^ SumWidth

checksumOf(data) == FoldLeft(LAMBDA hash, byte : ((hash ^^ byte) * 435) % SumRange, 8997 % SumRange, data)

appendLE(value, width) == [i \in 1 .. width |-> (value \div Base ^ (i - 1)) % Base]
FromLE(bytes) == FoldRight(LAMBDA byte, value : value * Base + byte, bytes, 0)

\* readLE at offset (the bytes before it are read): the value and the new offset.
NotRead == [ok |-> FALSE, value |-> 0, offset |-> 0]
readLE(data, offset, width) ==
    IF offset + width > Len(data) THEN NotRead
    ELSE [ok |-> TRUE, value |-> FromLE(SubSeq(data, offset + 1, offset + width)), offset |-> offset + width]

NoExpiry == -1
isExpiredAt(entry, now) == entry.expiration # NoExpiry /\ entry.expiration <= now

\* Mutant of EncodeEntry: the steady clock's time goes into the file.
EncodeEntrySteady(entry, started, t1, t2) ==
    appendLE(Len(entry.key), LengthWidth) \o entry.key
    \o appendLE(Len(entry.value), LengthWidth) \o entry.value
    \o appendLE(IF entry.expiration = NoExpiry THEN 0 ELSE entry.expiration \div Milli, ExpiryWidth)

\* encode: what has lapsed by now is left out, and for what has not the clocks are
\* read again, at t1 and t2.
EncodeEntry(entry, started, t1, t2) ==
    appendLE(Len(entry.key), LengthWidth) \o entry.key
    \o appendLE(Len(entry.value), LengthWidth) \o entry.value
    \o appendLE(IF entry.expiration = NoExpiry THEN 0 ELSE toWallClockMillis(entry.expiration, started, t1, t2),
                ExpiryWidth)
Sealed(payload) == payload \o appendLE(checksumOf(payload), SumWidth)
encode(entries, started, now, t1, t2) ==
    LET live == SelectSeq(entries, LAMBDA entry : ~isExpiredAt(entry, steady(now, started)))
    IN  Sealed(kMagic \o appendLE(kFormatVersion, 1) \o appendLE(Len(live), CountWidth)
               \o FlattenSeq([i \in DOMAIN live |-> EncodeEntry(live[i], started, t1, t2)]))

\* A key or value with its length in front, read at offset.
ReadField(data, offset, payloadLength) ==
    LET length == readLE(data, offset, LengthWidth)
        end == length.offset + length.value
    IN  IF ~length.ok \/ length.value > kMaxFieldLength \/ end > payloadLength THEN NotRead
        ELSE [ok |-> TRUE, value |-> SubSeq(data, length.offset + 1, end), offset |-> end]

\* The n entries from offset on; those that have lapsed are left out.  "at" is where
\* they end.
NotDecoded == [ok |-> FALSE, entries |-> <<>>, at |-> 0]
RECURSIVE DecodeEntries(_, _, _, _, _, _, _)
DecodeEntries(data, n, offset, payloadLength, started, t3, t4) ==
    IF n = 0 THEN [ok |-> TRUE, entries |-> <<>>, at |-> offset]
    ELSE LET key == ReadField(data, offset, payloadLength)
             value == ReadField(data, key.offset, payloadLength)
             expiry == readLE(data, value.offset, ExpiryWidth)
             more == DecodeEntries(data, n - 1, expiry.offset, payloadLength, started, t3, t4)
             entry == [key |-> key.value, value |-> value.value, expiration |->
                          IF expiry.value = 0 THEN NoExpiry
                          ELSE fromWallClockMillis(expiry.value, started, t3, t4)]
         IN  IF ~key.ok \/ ~value.ok \/ ~expiry.ok \/ ~more.ok THEN NotDecoded
             ELSE IF expiry.value # 0 /\ Lapsed(expiry.value, t3) THEN more
             ELSE IF isExpiredAt(entry, steady(t3, started)) THEN more
             ELSE [more EXCEPT !.entries = <<entry>> \o @]

\* Mutant of Complete: bytes may be left over.
CompleteLoose(body, payloadLength) == body.ok /\ body.at <= payloadLength

\* All entries were read, and nothing comes after them.
Complete(body, payloadLength) == body.ok /\ body.at = payloadLength

\* decode, with the clocks read at t3 and t4: the checks before the entries,
\* and the entries.
decode(data, started, t3, t4) ==
    LET header == Len(kMagic) + 1 + CountWidth
        payloadLength == Len(data) - SumWidth
        payload == SubSeq(data, 1, payloadLength)
        version == readLE(data, Len(kMagic), 1)
        count == readLE(data, version.offset, CountWidth)
        body == DecodeEntries(data, count.value, count.offset, payloadLength, started, t3, t4)
    IN  IF \/ Len(data) < header + SumWidth
           \/ ~IsPrefix(kMagic, data)
           \/ readLE(data, payloadLength, SumWidth).value # checksumOf(payload)
           \/ version.value # kFormatVersion
           \/ ~Complete(body, payloadLength)
        THEN NotDecoded
        ELSE body
=============================================================================
