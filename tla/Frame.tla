--------------------------------- MODULE Frame ---------------------------------
(* ngx::agent::frame (agent/frame.cpp): a stream number, a type and a payload,   *)
(* written as the four bytes of the number, the highest first, one byte of type  *)
(* and the payload.                                                              *)
EXTENDS Integers, Sequences

Byte == 0 .. 255

\* The last byte of a number, and the number without it.
Low(n) == n % 256
High(n) == n \div 256

\* uint32_t: what four bytes hold.
StreamId == {n \in Nat : High(High(High(High(n)))) = 0}

\* The enumerators of frame::type.  A frame that was read may have any other byte.
Types == {1, 2, 3, 4, 255}

Frames == [streamId : StreamId, type : Byte, data : Seq(Byte)]

\* native_to_big, and back.
Big(id) == <<Low(High(High(High(id)))), Low(High(High(id))), Low(High(id)), Low(id)>>
Native(b) == 256 * (256 * (256 * b[1] + b[2]) + b[3]) + b[4]

Serialize(frame) == Big(frame.streamId) \o <<frame.type>> \o frame.data

\* What deserialize returns, and the frame that it leaves.
Deserialize(text, frame) ==
    IF Len(text) < 5 THEN [ok |-> FALSE, object |-> frame]
    ELSE [ok |-> TRUE,
          object |-> [streamId |-> Native(SubSeq(text, 1, 4)), type |-> text[5],
                      data |-> SubSeq(text, 6, Len(text))]]

===============================================================================
