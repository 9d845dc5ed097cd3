--------------------------- MODULE MCFileSessions ---------------------------
(* SMB: two files read one after the other and one of the same id on another
   tree; a file in two reads whose first answer is cut off at the segment, and one
   with the id 0; ids used again, and a second session than the list holds.
   FTP: a listing before a file, and both modes; ports that two sessions use;
   three sessions, of which the list holds two. *)
EXTENDS FileSessions

File(s, t, i, reads) == [session |-> s, tree |-> t, id |-> i, reads |-> reads]
One(n) == <<[length |-> n, carried |-> n]>>
Two == <<[length |-> 2, carried |-> 1], [length |-> 1, carried |-> 1]>>
SmbCapturesSeen ==
    {{File(1, 1, 5, One(2)), File(1, 1, 6, One(1)), File(1, 2, 5, One(1))},
     {File(1, 1, 5, Two), File(1, 1, 6, One(1)), File(1, 2, 0, One(1))},
     {File(1, 1, 5, One(2)), File(1, 1, 5, One(1)), File(2, 1, 5, One(1))}}

Transfer(client, port, turnOf, passive, listener, connector, command) ==
    [session |-> [client |-> client, port |-> port], turn |-> turnOf, passive |-> passive,
     listener |-> listener, connector |-> connector, command |-> command]
FtpCapturesSeen ==
    {{Transfer("a", 1, 1, TRUE, 7, 3, "LIST"), Transfer("a", 1, 2, TRUE, 8, 4, "RETR"),
      Transfer("b", 1, 1, FALSE, 5, 20, "STOR")},
     {Transfer("a", 1, 1, FALSE, 5, 20, "LIST"), Transfer("a", 1, 2, FALSE, 5, 20, "RETR"),
      Transfer("a", 2, 1, FALSE, 5, 20, "STOR")},
     {Transfer("a", 1, 1, TRUE, 7, 3, "STOR"), Transfer("a", 2, 1, TRUE, 7, 4, "RETR"),
      Transfer("b", 1, 1, TRUE, 7, 3, "RETR")}}
=============================================================================
