--------------------------- MODULE MCTftpTransfer ---------------------------
(* With servers that choose a port: a read of three blocks, a write from the
   same client port, a read whose numbers wrap, and a write by a client that uses
   port 69 itself.  With servers that answer from port 69: a write of one large
   block, shorter than it might be, but not than the default; a read of small
   blocks whose size is lost in parsing; and a read of default ones whose size is
   taken for 0. *)
EXTENDS TftpTransfer

Captured ==
    {[kind |-> "read", clientPort |-> 1, serverPort |-> 7, blocks |-> 3, last |-> 1, blksize |-> 2, parsed |-> 2],
     [kind |-> "write", clientPort |-> 1, serverPort |-> 7, blocks |-> 2, last |-> 0, blksize |-> 2, parsed |-> 2],
     [kind |-> "read", clientPort |-> 2, serverPort |-> 8, blocks |-> 4, last |-> 1, blksize |-> 2, parsed |-> 2],
     [kind |-> "write", clientPort |-> 69, serverPort |-> 9, blocks |-> 1, last |-> 1, blksize |-> 2, parsed |-> 2],
     [kind |-> "write", clientPort |-> 3, serverPort |-> 69, blocks |-> 1, last |-> 2, blksize |-> 3, parsed |-> 3],
     [kind |-> "read", clientPort |-> 4, serverPort |-> 69, blocks |-> 2, last |-> 0, blksize |-> 1, parsed |-> 2],
     [kind |-> "read", clientPort |-> 5, serverPort |-> 69, blocks |-> 1, last |-> 1, blksize |-> 2, parsed |-> 0]}
=============================================================================
