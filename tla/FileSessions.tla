---------------------------- MODULE FileSessions ----------------------------
(***************************************************************************)
(* The handlers that find the files of sessions, SMB's and FTP's, which    *)
(* share nothing: a behaviour is a capture of one protocol, and the other  *)
(* handler stays as it was created.                                        *)
(***************************************************************************)
EXTENDS FileStreamAssembler

CONSTANTS SmbCaptures, SmbSessionPoolSize, SmbFilePoolSize, SmbMaxFaults,
          FtpCaptures, FtpSessionPoolSize, FtpPendingPoolSize, FtpMaxFaults

ASSUME PoolSizesAssumption ==
    /\ SmbSessionPoolSize \in Nat \ {0} /\ SmbFilePoolSize \in Nat \ {0}
    /\ FtpSessionPoolSize \in Nat \ {0} /\ FtpPendingPoolSize \in Nat \ {0}

\* A capture is finite, ids are numbers, and a read carries bytes.
ASSUME SmbCapturesAssumption ==
    \A c \in SmbCaptures :
        /\ IsFiniteSet(c)
        /\ \A f \in c : f.id \in Nat /\ f.reads \in Seq([length : Nat, carried : Nat])

\* A capture is finite, a transfer has one place in its session, and ports are
\* numbers.
ASSUME FtpCapturesAssumption ==
    \A c \in FtpCaptures :
        /\ IsFiniteSet(c)
        /\ \A t \in c : t.connector \in Nat
        /\ \A t, u \in c : t.session = u.session /\ t.turn = u.turn => t = u

VARIABLES
    protocol,
    smbSessions, smbDisk, smbFiles, smbExchange, smbMissed, smbLatest, smbDisorderly, smbFaults,
    ftp, ftpTransfers, ftpTurn, ftpShown, ftpMissed, ftpSure, ftpNewer, ftpFaults

smbVars == <<smbSessions, smbDisk, smbFiles, smbExchange, smbMissed, smbLatest, smbDisorderly,
             smbFaults>>
ftpVars == <<ftp, ftpTransfers, ftpTurn, ftpShown, ftpMissed, ftpSure, ftpNewer, ftpFaults>>

Smb == INSTANCE SmbSession WITH
    Captures <- SmbCaptures, SessionPoolSize <- SmbSessionPoolSize,
    FilePoolSize <- SmbFilePoolSize, MaxFaults <- SmbMaxFaults,
    sessions <- smbSessions, disk <- smbDisk, files <- smbFiles, exchange <- smbExchange,
    missed <- smbMissed, latest <- smbLatest, disorderly <- smbDisorderly, faults <- smbFaults

Ftp == INSTANCE FtpTransfers WITH
    Captures <- FtpCaptures, SessionPoolSize <- FtpSessionPoolSize,
    PendingPoolSize <- FtpPendingPoolSize, MaxFaults <- FtpMaxFaults,
    transfers <- ftpTransfers, turn <- ftpTurn, shown <- ftpShown, missed <- ftpMissed,
    sure <- ftpSure, newer <- ftpNewer, faults <- ftpFaults

\* The handler that sees nothing keeps one capture that it does not see.
FilesInit ==
    /\ protocol \in {"SMB", "FTP"}
    /\ Smb!Init /\ Ftp!Init
    /\ protocol = "FTP" => smbFiles = CHOOSE c \in SmbCaptures : TRUE
    /\ protocol = "SMB" => ftpTransfers = CHOOSE c \in FtpCaptures : TRUE

FilesNext ==
    \/ protocol = "SMB" /\ Smb!Next /\ UNCHANGED <<protocol, ftpVars>>
    \/ protocol = "FTP" /\ Ftp!Next /\ UNCHANGED <<protocol, smbVars>>

FilesSpec == FilesInit /\ [][FilesNext]_<<protocol, smbVars, ftpVars>>

----------------------------------------------------------------------------
\* An SMB session without surprises gets each file it read, under its name.
PlainReadsArePublished == Smb!PlainReadsArePublished

\* No published SMB file is made of more than one answer.
PublishedFromOneAnswer == Smb!PublishedFromOneAnswer

\* An FTP file is sought on its own connection and in its own direction.
FileOnItsConnection == Ftp!FileOnItsConnection

\* An FTP transfer seen completely gets one assembler.
CompleteTransferIsAssembled == Ftp!CompleteTransferIsAssembled
=============================================================================
