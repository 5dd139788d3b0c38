----------------------------- MODULE Attachment -----------------------------
(***************************************************************************)
(* src/mail/linux_ver: Csmtp::SendAttachment reads a file buffer by buffer *)
(* and sends base64Encode of each buffer.  A byte is a number below 256, a *)
(* base64 character its index in base64Char; one step sends one buffer.    *)
(* FILE_BUF_LEN is 700*1000 in the code: what matters of it is that it     *)
(* leaves 1 when divided by 3, and the bound keeps that.                   *)
(***************************************************************************)
EXTENDS Naturals, Sequences, SequencesExt

CONSTANTS
    ByteVals,       \* the bytes files are made of
    FILE_BUF_LEN,
    MaxFile         \* bound: the length of a file

ASSUME BufAssumption == FILE_BUF_LEN % 3 = 700000 % 3 /\ FILE_BUF_LEN > 0

VARIABLES
    file,       \* what is left of the file to read
    whole,      \* the file
    text,       \* the characters sent so far
    good        \* ifs: no read has come up short yet

b64vars == <<file, whole, text, good>>

Pad == 64   \* the character =
CR == 65
LF == 66

AttachTypeOK ==
    /\ whole \in BoundedSeq(ByteVals, MaxFile) /\ IsSuffix(file, whole)
    /\ text \in Seq(0..66) /\ good \in BOOLEAN

AttachInit(contents) ==
    /\ whole \in contents /\ file = whole
    /\ text = <<>> /\ good = TRUE

(* Three bytes become four characters.                                     *)
group(a, b, c) == <<a \div 4, (a % 4) * 16 + b \div 16, (b % 16) * 4 + c \div 64, c % 64>>

(* havePadding and havePadding2: the one or two bytes left over.           *)
padding(rest) ==
    IF rest = <<>> THEN <<>>
    ELSE IF Len(rest) = 2
    THEN <<rest[1] \div 4, (rest[1] % 4) * 16 + rest[2] \div 16, (rest[2] * 4) % 64, Pad>>
    ELSE <<rest[1] \div 4, (rest[1] % 4) * 16, Pad, Pad>>

base64Encode(orig) ==
    LET n == Len(orig) \div 3
    IN  FlattenSeq([i \in 1..n |-> group(orig[3 * i - 2], orig[3 * i - 1], orig[3 * i])])
            \o padding(SubSeq(orig, 3 * n + 1, Len(orig))) \o <<CR, LF>>

(* Mutant: one read, no loop.                                              *)
mut_read_more(left) == FALSE

(* The read fills the buffer; a short one is the last: ifs turns false.    *)
read_more(left) == Len(left) >= FILE_BUF_LEN

send_buffer ==
    /\ good
    /\ LET n == IF Len(file) < FILE_BUF_LEN THEN Len(file) ELSE FILE_BUF_LEN
       IN  /\ text' = text \o base64Encode(SubSeq(file, 1, n))
           /\ file' = SubSeq(file, n + 1, Len(file))
    /\ good' = read_more(file)
    /\ UNCHANGED whole

AttachNext == send_buffer

AttachSpec == AttachInit(BoundedSeq(ByteVals, MaxFile)) /\ [][AttachNext]_b64vars

(* What a receiver makes of base64 text: line ends are skipped, every four *)
(* characters give three bytes, padding ends the data.                     *)
Ungroup(q) ==
    LET v(i) == IF q[i] = Pad THEN 0 ELSE q[i]
        bytes == <<v(1) * 4 + v(2) \div 16, (v(2) % 16) * 16 + v(3) \div 4, (v(3) % 4) * 64 + v(4)>>
    IN  SubSeq(bytes, 1, IF q[3] = Pad THEN 1 ELSE IF q[4] = Pad THEN 2 ELSE 3)

Decode(t) ==
    LET chars == SelectSeq(t, LAMBDA x : x \notin {CR, LF})
        padAt == {i \in 1..Len(chars) : chars[i] = Pad}
        n == Len(chars) \div 4
        used == IF padAt = {} THEN n ELSE ((CHOOSE i \in padAt : \A j \in padAt : i <= j) + 3) \div 4
    IN  FlattenSeq([i \in 1..used |-> Ungroup(SubSeq(chars, 4 * i - 3, 4 * i))])

(* A file shorter than the buffer, or as long as it, arrives byte for      *)
(* byte, at every length modulo 3 and when the end of the file is the end  *)
(* of a buffer.                                                            *)
SmallFilesArrive ==
    (~good /\ Len(whole) <= FILE_BUF_LEN) => Decode(text) = whole

(* Every buffer of the file is sent: what is left when the loop ends is    *)
(* nothing.                                                                *)
AllSent == ~good => file = <<>>

(* What the header SendAttachment sends says of the text that follows it:  *)
(* it is the base64 encoding of the file.                                  *)
FilesArrive == ~good => Decode(text) = whole

\* SendAttachment sends all of a file, and a file that fits in its buffer
\* decodes to what it was.
AttachSafe == AttachTypeOK /\ SmallFilesArrive /\ AllSent
=============================================================================
