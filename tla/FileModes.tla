------------------------------ MODULE FileModes ------------------------------
(***************************************************************************)
(* The mode of created directories on its way from the setting to the      *)
(* kernel (internal/config/config.go, cmd/wrapper/main.go,                 *)
(* internal/node/mounter_linux.go).  It is read as a Unix number, kept as  *)
(* a Go os.FileMode, whose setuid, setgid and sticky bits are other bits,  *)
(* shown as a Unix number again, and given to mkdirat.                     *)
(***************************************************************************)
EXTENDS Naturals

CONSTANTS
    MaxValue,     \* largest number tried
    Invalid       \* what does not parse

ModesAssumption == MaxValue \in Nat

VARIABLES
    setting,      \* the number in the variable or on the command line
    kept,         \* CreatedSubPathMode; Invalid: the wrapper does not start
    created       \* what mkdirat gets; Invalid before that

vars == <<setting, kept, created>>

Bit(n, power) == (n \div power) % 2
Perm(mode) == mode % 512

\* Octal 4000, 2000 and 1000, and where Go keeps them.
UnixSetuid == 2048
UnixSetgid == 1024
UnixSticky == 512
ModeSetuid == 2^23
ModeSetgid == 2^22
ModeSticky == 2^20
MaxUnixMode == 4095
DefaultCreatedSubPathMode == 504      \* octal 770

CastFileMode(value) == IF value = 0 \/ value > MaxUnixMode THEN Invalid ELSE value

ParseFileMode(value) ==
    IF value = 0 \/ value > MaxUnixMode THEN Invalid
    ELSE Perm(value) + Bit(value, UnixSetuid) * ModeSetuid
                     + Bit(value, UnixSetgid) * ModeSetgid
                     + Bit(value, UnixSticky) * ModeSticky

FormatFileMode(mode) ==
    Perm(mode) + Bit(mode, ModeSetuid) * UnixSetuid
               + Bit(mode, ModeSetgid) * UnixSetgid
               + Bit(mode, ModeSticky) * UnixSticky

createdSubPathUnixMode(mode) ==
    LET m == IF mode = 0 THEN DefaultCreatedSubPathMode ELSE mode
    IN  Perm(m) + Bit(m, ModeSetuid) * UnixSetuid
                + Bit(m, ModeSetgid) * UnixSetgid
                + Bit(m, ModeSticky) * UnixSticky

-----------------------------------------------------------------------------
Init ==
    /\ setting \in 0..MaxValue
    /\ kept = DefaultCreatedSubPathMode
    /\ created = Invalid

\* StrictFileModeEnv at the start, or fileModeValue.Set for the flag.
Configure ==
    /\ kept = DefaultCreatedSubPathMode /\ created = Invalid
    /\ kept' = ParseFileMode(setting)
    /\ UNCHANGED <<setting, created>>

Create ==
    /\ kept # Invalid /\ created = Invalid
    /\ created' = createdSubPathUnixMode(kept)
    /\ UNCHANGED <<setting, kept>>

Next == Configure \/ Create

Spec == Init /\ [][Next]_vars

-----------------------------------------------------------------------------
(* Every accepted setting reaches mkdirat as the number that was written,   *)
(* special bits included, and without one the default does; a zero, which   *)
(* would silently become the default, and a number of more than twelve bits *)
(* are not accepted.                                                        *)
KernelGetsSetting ==
    created # Invalid =>
        \/ kept = DefaultCreatedSubPathMode /\ created = DefaultCreatedSubPathMode
        \/ setting \in 1..MaxUnixMode /\ created = setting

(* The number that the usage text shows for the mode in force, given back   *)
(* as the setting, stands for the same mode (fileModeValue.String and Set). *)
ShownModeIsKept ==
    kept # Invalid => ParseFileMode(FormatFileMode(kept)) = kept
=============================================================================
