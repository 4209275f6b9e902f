---------------------------- MODULE MCThreadName ----------------------------
(***************************************************************************)
(* Two threads in small worlds: on Windows, one per text of a set around   *)
(* every boundary of UTF-8 and one per wide string around those of UTF-16; *)
(* on Linux, names about fifteen bytes long, with a NUL, or cut within a   *)
(* character.                                                              *)
(***************************************************************************)
EXTENDS ThreadName

CONSTANTS t1, t2

(* Bytes at the ends of the ranges a byte of UTF-8 may be in.              *)
Alone   == {0, 127, 128, 191, 192, 193, 194, 223, 224, 237, 239, 240, 244, 245, 255}
Leads   == {194, 223, 224, 225, 237, 239, 240, 241, 244, 245}
Seconds == {65, 127, 128, 143, 144, 159, 160, 191, 192}
Others  == {127, 128, 191}

Texts ==
    {<<a>> : a \in Alone} \cup {<<a, b>> : a \in Leads, b \in Seconds}
    \cup {<<a, b, c>> : a \in Leads \ {194, 223}, b \in Seconds, c \in Others}
    \cup {<<a, b>> \o rest : a \in {240, 241, 244, 245}, b \in Seconds,
                            rest \in {<<128, 191>>, <<127, 128>>, <<191, 192>>}}
    \cup {<<65>> \o s \o <<66>> : s \in {<<195, 164>>, <<237, 160, 128>>, <<240, 159, 152, 128>>, <<226, 130>>}}
    \cup {<<195, 164, 0, 65>>, <<240, 159, 152, 128, 226, 130, 172>>}

Units16 == {65, 55295, 55296, 56319, 56320, 57343, 57344, 65535}
Wides   == {<<a>> : a \in Units16} \cup {<<a, b>> : a \in Units16, b \in Units16}
           \cup {<<65, 55296, 56320, 66>>, <<55296, 56320, 56320>>, <<55357, 56832, 55357, 56832>>}

Chinese == <<231, 163, 144>>
Long16  == <<65>> \o Chinese \o Chinese \o Chinese \o Chinese \o Chinese
Long    == {Long16, [i \in 1..15 |-> 96 + i], [i \in 1..17 |-> 96 + i], <<65, 0, 66>>, <<0, 65>>}

InWorld(platform, names, foreign, threads, bound) ==
    [platform |-> platform, names |-> names, foreign |-> foreign, threads |-> threads,
     calls |-> bound]

MCWorlds ==
    {InWorld("windows", {s}, {}, {t1}, 2) : s \in Texts}
    \cup {InWorld("windows", {<<66>>}, {s}, {t1}, 2) : s \in Wides}
    \cup {InWorld("linux", {s, <<66>>}, {<<67>>}, {t1}, 3) : s \in Long}
    \cup {InWorld("linux", {Long16, <<66>>}, {<<67>>}, {t1, t2}, 2),
          InWorld("windows", {<<195, 164>>, <<66>>}, {<<67>>}, {t1, t2}, 2)}

=============================================================================
