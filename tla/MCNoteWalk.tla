---------------------------- MODULE MCNoteWalk ------------------------------
(* Up to two notes with names and descriptors of every length modulo four,   *)
(* cut off anywhere, and headers that claim too much or a name not UTF-8.    *)
EXTENDS NoteWalk

MCRadix == 32
MCText  == {7, 8}

MCNames       == {<<>>, <<7, 8, 7>>, <<7, 8, 7, 8>>}
MCDescriptors == {<<>>, <<9>>, <<9, 0>>, <<0, 9, 9>>, <<9, 9, 9, 9>>}

MCNotes == [name : MCNames, type : {3}, descriptor : MCDescriptors]

MCWritten == {<<>>} \cup {<<m>> : m \in MCNotes} \cup {<<m, n>> : m, n \in MCNotes}

Header(nameLen, descLen, type) == nameLen \o descLen \o type

Largest == <<31, 31, 31, 31>>

MCForeign ==
    {Header(n, d, t) \o tail :
        n \in {<<0, 0, 0, 0>>, <<1, 0, 0, 0>>, <<4, 0, 0, 0>>, Largest},
        d \in {<<0, 0, 0, 0>>, <<2, 0, 0, 0>>, Largest},
        t \in {<<3, 0, 0, 0>>, Largest},
        tail \in {<<>>, <<7, 7, 7, 7>>, <<9, 0, 0, 0, 5, 5>>, <<7, 8, 7, 9, 5, 5>>}}

=============================================================================
