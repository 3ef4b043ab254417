--------------------------- MODULE MCTorrentStart ---------------------------
(* Torrent files: every short byte sequence, with its meaning where it is  *)
(* a bencoding, and every change of one byte in the bencodings of some     *)
(* torrents and other objects.                                             *)
EXTENDS TorrentStart

CONSTANTS Alphabet, ShortLen

Num(n) == [int |-> n]
Str(s) == [string |-> s]
List(items) == [list |-> items]
Pair(k, v) == [key |-> k, value |-> v]
Dict(pairs) == [dict |-> pairs]

Single(length, pl, hashes) ==
  Dict(<<Pair(info_key, Dict(<<Pair(length_key, Num(length)), Pair(piece_length_key, Num(pl)),
                               Pair(pieces_key, Str([k \in 1 .. hashes |-> "0"]))>>))>>)
Entry(length, path) ==
  Dict(<<Pair(length_key, Num(length)), Pair(path_key, List([k \in DOMAIN path |-> Str(path[k])]))>>)
Multi(lengths, pl, hashes) ==
  Dict(<<Pair(info_key,
    Dict(<<Pair(files_key, List([k \in DOMAIN lengths |-> Entry(lengths[k], <<<<"e">>>>)])),
           Pair(piece_length_key, Num(pl)),
           Pair(pieces_key, Str([k \in 1 .. hashes |-> "0"]))>>))>>)

LongPath ==
  Dict(<<Pair(info_key,
    Dict(<<Pair(files_key, List(<<Entry(1, <<<<"1", "1", "1", "1">>, <<"1", "1", "1">>>>)>>)),
           Pair(piece_length_key, Num(1)), Pair(pieces_key, Str(<<"0", "0">>))>>))>>)

Objects == {LongPath, Single(6, 4, 4), Single(8, 4, 4), Single(3, 0, 2), Single(-1, 8, 12), Single(0, 1, 0),
            Multi(<<3, 0, 2>>, 2, 6), Multi(<<12, -1>>, 3, 3), Str(<<":", "e">>),
            Dict(<<Pair(info_key, Dict(<<Pair(name_key, Str(<<"1">>)), Pair(length_key, Num(10))>>))>>),
            List(<<Num(-10), List(<<>>), Str(<<>>)>>)}
Edits(s) == {s} \union {RemoveAt(s, k) : k \in DOMAIN s}
                \union {SubSeq(s, 1, k) : k \in DOMAIN s}
                \union {[s EXCEPT ![k] = c] : k \in DOMAIN s, c \in Alphabet}
Written(objs) == UNION {{[data |-> s, meant |-> o] : s \in Edits(encode_obj(o)) \ {<<>>}} : o \in objs}

(* Every object whose bencoding is no longer than ShortLen.                *)
Short(objs) == {o \in objs : BenLen(o) <= ShortLen}
Scalars == {Num(n) : n \in -99 .. 999} \union {Str(s) : s \in BoundedSeq(Alphabet, ShortLen - 2)}
Flat == Scalars \union {List(<<>>), Dict(<<>>)}
              \union {List(<<o>>) : o \in Short(Scalars)}
SmallObjects == Short(Flat \union {List(<<List(<<>>)>>), List(<<Dict(<<>>)>>)})

MCFiles == Written(Objects)
           \union {[data |-> encode_obj(o), meant |-> o] : o \in SmallObjects}
           \union {[data |-> s, meant |-> NULL] : s \in BoundedSeq(Alphabet, ShortLen) \ {<<>>}}
Answers == {Dict(<<Pair(peers_key, Str(<<"1", "2", "3", "4">>))>>),
            Dict(<<Pair(peers_key, Str(<<"1", "2", "3">>))>>)}
MCBodies == {[data |-> <<>>, meant |-> NULL]}
            \union {[data |-> encode_obj(o), meant |-> o] : o \in Answers}
            \union {[data |-> <<"2", ":", "1">>, meant |-> NULL],
                    [data |-> <<"d", "1", ":", "R">>, meant |-> NULL]}
=============================================================================
