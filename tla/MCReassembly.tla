--------------------------- MODULE MCReassembly ---------------------------
(* Three tables for TLC, each with its network.                             *)
EXTENDS Reassembly, TLC

CONSTANTS s1, s2, s3

(* One slot, whose buffer keeps the bytes of the messages it held before,   *)
(* and chunks that claim totals, indices, lengths and contents that do not  *)
(* fit together: s1 claims anything, its second message and s2's want its   *)
(* slot.                                                                    *)
Claims ==
  [slots |-> 1, buf |-> 4, quota |-> 1, until |-> 2,
   arrivals |->
     [sender : {s1}, msg : {1}, index : 0..2, chunks : 2..4,
      payload : {<<>>, <<0>>, <<1>>, <<0, 0>>, <<0, 1>>, <<1, 1>>}, expires_at : {0}]
     \cup [sender : {s1, s2}, msg : {2}, index : {0}, chunks : {0, 1},
           payload : {<<1, 0>>, <<1>>}, expires_at : {2}]]

(* More messages than the quota and than the slots, each of two one-byte    *)
(* chunks, with an expiry of their own or without; of each sender's second  *)
(* message only the first chunk ever comes.                                 *)
Crowd ==
  [slots |-> 3, buf |-> 2, quota |-> 2, until |-> 2,
   arrivals |-> {d \in [sender : {s1, s2}, msg : 1..3, index : 0..1, chunks : {2},
                        payload : {<<0>>}, expires_at : {0, 2}] :
                  /\ d.expires_at = 0 <=> d.sender = s1
                  /\ d.sender = s2 => d.msg # 3
                  /\ d.msg = 2 => d.index = 0}]

(* Three senders that cut their messages by fzn_split_plan share two slots  *)
(* of a network that loses, repeats and reorders chunks. Every sender's     *)
(* bytes are its own, so a splice would show.                               *)
Body(sender) ==
  CASE sender = s1 -> <<10, 11, 12, 13, 14>>
    [] sender = s2 -> <<20, 21, 22>>
    [] sender = s3 -> <<30>>
Honest ==
  [slots |-> 2, buf |-> 6, quota |-> 1, until |-> 0,
   arrivals |-> UNION {SplitChunks(s, 1, Body(s), 2, 0) : s \in {s1, s2, s3}}]

Tables == [claims |-> Claims, crowd |-> Crowd, honest |-> Honest]

(* The round trip: what fzn_split_at cuts and the network carries in any    *)
(* order, fzn_reasm_accept hands over as the message that was sent, from    *)
(* the sender that sent it.                                                 *)
RoundTrip ==
  env = "honest" => \A i \in Live : slots[i].handed =>
    SubSeq(slots[i].buf, 1, slots[i].bytes) = Body(slots[i].sender)
=============================================================================
