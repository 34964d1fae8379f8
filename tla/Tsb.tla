-------------------------------- MODULE Tsb --------------------------------
(***************************************************************************)
(* The installation of FW1 over the serial line: FwUpdater::postUpdate     *)
(* drives CPU1's bootloader with Tsb::connect, Tsb::writeFlash and         *)
(* Tsb::run (lib/core/tsb.cpp).                                            *)
(*                                                                         *)
(* The bootloader sends its device info when it is woken, asks for each    *)
(* page with "?", and confirms the end with "!".  The firmware waits for   *)
(* each answer in readBytes, which gives up after a second.  Bytes may be  *)
(* delayed or lost in both directions, the firmware may lose its power     *)
(* and CPU1 may be reset between any two steps; an installation that fails *)
(* is tried again at a later boot.                                         *)
(*                                                                         *)
(* The bootloader is external: it is modelled by what tools/tsb_sim.py and *)
(* the calls of the firmware say of it.                                    *)
(***************************************************************************)
EXTENDS Naturals, Sequences, SequencesExt

CONSTANTS Images,         \* the images, each a sequence of bytes
          Pad, Old,       \* the byte 0xFF, and what the flash held before
          PageSize,       \* the page size that the bootloader reports
          Capacity,       \* the pages of CPU1's flash
          Uninitialised,  \* page sizes that a device info read short may yield
          MaxAttempts,    \* bound on the boots that install the image
          Drops,          \* whether bytes for CPU1 may be lost
          Restarts,       \* whether CPU1 may be reset
          None, Partial   \* as in FwDelivery

REQUEST == "?"
CONFIRM == "!"
WRITE_FLASH == "F"
RUN == "r"
Wake == <<"@", "@", "@">>

\* What may travel to the bootloader.
Byte == (UNION {{i[k] : k \in DOMAIN i} : i \in Images})
          \cup {Pad, REQUEST, CONFIRM, WRITE_FLASH, RUN, Wake[1]}

ASSUME ImageAssumption == Images \subseteq Seq(Byte)

\* What was in the flash before is no byte that is sent now.
ASSUME MarkerAssumption == Old \notin Byte /\ None \notin Images

ASSUME SizeAssumption == /\ PageSize \in Nat \ {0}
                         /\ Capacity \in Nat
                         /\ Uninitialised \subseteq Nat \ {0}
                         /\ MaxAttempts \in Nat

ASSUME FaultAssumption == Drops \in BOOLEAN /\ Restarts \in BOOLEAN

\* The magic, the page size, and the rest of the 17 bytes, which ends in "!".
DeviceInfo == <<"tsb", "page_size", CONFIRM>>

VARIABLES
  image,      \* the marked image
  toBoot,     \* bytes on their way to the bootloader
  toHost,     \* bytes on their way to the firmware
  host,       \* where the firmware is: off, or which answer it waits for
  page_size,  \* deviceInfo->page_size; PageSize before it is read
  page,       \* i, the page to send next
  result,     \* what writeFlash returned at this boot, else 0
  attempts,   \* boots that have called postUpdate
  boot,       \* what the bootloader does
  received,   \* the bytes it has of a page, or of the wake-up
  address,    \* the page that it writes next
  flash       \* CPU1's flash, page by page

hostVars == <<image, host, page_size, page, result, attempts>>
bootVars == <<boot, received, address, flash>>
vars == <<toBoot, toHost, hostVars, bootVars>>

Init == /\ image \in Images
        /\ toBoot = <<>> /\ toHost = <<>>
        /\ host = "off" /\ page_size = PageSize /\ page = 0
        /\ result = 0 /\ attempts = 0
        /\ boot = "listening" /\ received = <<>> /\ address = 0
        /\ flash = [p \in 0..(Capacity - 1) |-> [k \in 1..PageSize |-> Old]]

-----------------------------------------------------------------------------
(* The firmware *)

\* Mutant: an installation goes on at the page where an earlier one stopped.
SamePage == page

FirstPage == 0

\* A boot with a valid mark.  What the bootloader had answered before is gone, but it
\* may still be busy with the bytes of an earlier boot and answer them later.
Connect == /\ host \in {"off", "done"}
           /\ attempts < MaxAttempts
           /\ attempts' = attempts + 1
           /\ toHost' = <<>>
           /\ toBoot' = toBoot \o Wake
           /\ host' = "info" /\ page' = FirstPage /\ result' = 0
           /\ page_size' = PageSize
           /\ UNCHANGED <<image, bootVars>>

Fail == /\ host' = "done"
        /\ UNCHANGED <<image, page_size, page, result, attempts, toBoot, bootVars>>

\* readBytes has a part of the 17 bytes: all, or those that came within a second.
InfoBytes == {n \in 1..Len(DeviceInfo) : n <= Len(toHost)}

\* What a device info read short leaves out is uninitialised memory.
InfoPageSizes(n) == IF n > 1 /\ toHost[2] = DeviceInfo[2] THEN {PageSize}
                    ELSE Uninitialised

ReadDeviceInfo(n) ==
  /\ host = "info"
  /\ n \in InfoBytes
  /\ toHost[1] = DeviceInfo[1]
  /\ toHost' = SubSeq(toHost, n + 1, Len(toHost))
  /\ page_size' \in InfoPageSizes(n)
  /\ toBoot' = Append(toBoot, WRITE_FLASH)
  /\ host' = "request"
  /\ UNCHANGED <<image, page, result, attempts, bootVars>>

WrongDeviceInfo(n) == /\ host = "info"
                      /\ n \in InfoBytes
                      /\ toHost[1] # DeviceInfo[1]
                      /\ toHost' = SubSeq(toHost, n + 1, Len(toHost))
                      /\ Fail

Pages == (Len(image) \div page_size) + 1

\* Page i of an image, in pages of some size: the last one is padded.
Page(bytes, size, i) == [k \in 1..size |-> IF i * size + k <= Len(bytes)
                                           THEN bytes[i * size + k] ELSE Pad]

PageBytes(i) == Page(image, page_size, i)

\* Mutant: the byte that was read is not looked at.
AnyAnswer(b) == toHost # <<>>

Answer(b) == toHost # <<>> /\ Head(toHost) = b

SendPage ==
  /\ host = "request"
  /\ Answer(REQUEST)
  /\ toHost' = Tail(toHost)
  /\ toBoot' = toBoot \o (<<CONFIRM>> \o PageBytes(page))
  /\ page' = page + 1
  /\ host' = IF page + 1 < Pages THEN "request" ELSE "programmed"
  /\ UNCHANGED <<image, page_size, result, attempts, bootVars>>

SendEnd == /\ host = "programmed"
           /\ Answer(REQUEST)
           /\ toHost' = Tail(toHost)
           /\ toBoot' = Append(toBoot, REQUEST)
           /\ host' = "confirm"
           /\ UNCHANGED <<image, page_size, page, result, attempts, bootVars>>

\* writeFlash returns the length, and postUpdate calls run.
Written == /\ host = "confirm"
           /\ Answer(CONFIRM)
           /\ toHost' = Tail(toHost)
           /\ result' = Len(image)
           /\ toBoot' = Append(toBoot, RUN)
           /\ host' = "done"
           /\ UNCHANGED <<image, page_size, page, attempts, bootVars>>

WrongAnswer == /\ \/ host \in {"request", "programmed"} /\ ~Answer(REQUEST)
                  \/ host = "confirm" /\ ~Answer(CONFIRM)
               /\ toHost # <<>>
               /\ toHost' = Tail(toHost)
               /\ Fail

Waiting == {"info", "request", "programmed", "confirm"}

\* Mutant: only the device info is read with a timeout.
TimedInfo == {"info"}

TimedReads == Waiting

Timeout == /\ host \in TimedReads
           /\ toHost = <<>>
           /\ UNCHANGED toHost
           /\ Fail

PowerOff == /\ host # "off"
            /\ host' = "off"
            /\ result' = 0
            /\ UNCHANGED <<image, page_size, page, attempts, toBoot, toHost, bootVars>>

-----------------------------------------------------------------------------
(* The bootloader and the line *)

\* What arrives during a reset is lost.
Reset == /\ Restarts
         /\ boot' = "listening"
         /\ received' = <<>> /\ address' = 0
         /\ toBoot' = <<>>
         /\ UNCHANGED <<flash, toHost, hostVars>>

LoseToBoot(k) == /\ Drops
                 /\ k \in DOMAIN toBoot
                 /\ toBoot' = RemoveAt(toBoot, k)
                 /\ UNCHANGED <<toHost, hostVars, bootVars>>

LoseToHost(k) == /\ k \in DOMAIN toHost
                 /\ toHost' = RemoveAt(toHost, k)
                 /\ UNCHANGED <<toBoot, hostVars, bootVars>>

\* The bootloader takes the next byte b in state s.
Receive(s, b) == /\ boot = s
                 /\ toBoot # <<>>
                 /\ b = Head(toBoot)
                 /\ toBoot' = Tail(toBoot)
                 /\ UNCHANGED hostVars

Reply(bytes) == toHost' = toHost \o bytes

Listen(b) ==
  /\ Receive("listening", b)
  /\ UNCHANGED <<address, flash>>
  /\ IF Append(received, b) = Wake
     THEN boot' = "command" /\ received' = <<>> /\ Reply(DeviceInfo)
     ELSE /\ received' = IF b = Wake[1] THEN Append(received, b) ELSE <<>>
          /\ UNCHANGED <<boot, toHost>>

\* Anything but the two commands is ignored.
ObeyCommand(b) ==
  /\ Receive("command", b)
  /\ UNCHANGED <<received, flash>>
  /\ IF b = WRITE_FLASH THEN boot' = "writing" /\ address' = 0 /\ Reply(<<REQUEST>>)
     ELSE /\ boot' = IF b = RUN THEN "app" ELSE "command"
          /\ UNCHANGED <<address, toHost>>

AwaitPage(b) ==
  /\ Receive("writing", b)
  /\ UNCHANGED <<received, address, flash>>
  /\ IF b = REQUEST THEN boot' = "command" /\ Reply(<<CONFIRM>>)
     ELSE /\ boot' = IF b = CONFIRM THEN "page" ELSE "writing"
          /\ UNCHANGED toHost

ReceivePage(b) ==
  /\ Receive("page", b)
  /\ IF Len(received) + 1 < PageSize
     THEN received' = Append(received, b) /\ UNCHANGED <<boot, address, flash, toHost>>
     ELSE /\ flash' = [p \in DOMAIN flash |->
                         IF p = address THEN Append(received, b) ELSE flash[p]]
          /\ received' = <<>>
          /\ address' = address + 1
          /\ boot' = "writing"
          /\ Reply(<<REQUEST>>)

RunApp(b) == /\ Receive("app", b)
             /\ UNCHANGED <<bootVars, toHost>>

-----------------------------------------------------------------------------

Host == \/ Connect \/ SendPage \/ SendEnd \/ Written \/ WrongAnswer \/ Timeout
        \/ \E n \in 1..Len(DeviceInfo) : ReadDeviceInfo(n) \/ WrongDeviceInfo(n)

Boot == \E b \in Byte : Listen(b) \/ ObeyCommand(b) \/ AwaitPage(b) \/ ReceivePage(b) \/ RunApp(b)

Lose == \/ \E k \in 1..Len(toBoot) : LoseToBoot(k)
        \/ \E k \in 1..Len(toHost) : LoseToHost(k)

Next == Host \/ Boot \/ PowerOff \/ Reset \/ Lose

Spec == Init /\ [][Next]_vars

\* The main task runs, and with it the clock of readBytes.
FairSpec == Spec /\ WF_vars(Host)

-----------------------------------------------------------------------------
(* Properties *)

TypeOK == /\ image \in Images
          /\ toBoot \in Seq(Byte)
          /\ toHost \in Seq({DeviceInfo[1], DeviceInfo[2], CONFIRM, REQUEST})
          /\ host \in {"off", "done"} \cup Waiting
          /\ page_size \in {PageSize} \cup Uninitialised
          /\ page \in 0..Pages
          /\ result \in {0, Len(image)}
          /\ attempts \in 0..MaxAttempts
          /\ boot \in {"listening", "command", "writing", "page", "app"}
          /\ Len(received) < PageSize \/ (boot = "listening" /\ Len(received) < Len(Wake))
          /\ address \in Nat
          /\ \A p \in DOMAIN flash : Len(flash[p]) = PageSize

\* The bytes of a page are sent as they are, without a length or a checksum.  When CPU1
\* is reset before them, or their CONFIRM is lost, the bootloader takes them for commands:
\* a WRITE_FLASH among them starts over at the first page, in the first case after the
\* wake-up (not Calm) and in the second after a REQUEST (not Ended).
Calm(s) == \A d \in DOMAIN s : s[d] = WRITE_FLASH =>
             ~\E a, b, c \in 1..(d - 1) :
                a < b /\ b < c /\ s[a] = Wake[1] /\ s[b] = Wake[1] /\ s[c] = Wake[1]

Ended(s) == \A d \in DOMAIN s : s[d] = WRITE_FLASH => \A a \in 1..(d - 1) : s[a] # REQUEST

\* All the bytes of an image, as they are sent in pages of some size.
Whole(bytes, size) == Page(bytes, size * ((Len(bytes) \div size) + 1), 0)

Plain(s) == /\ Restarts => Calm(s)
            /\ Drops => Ended(s)

\* With a wrong page size CPU1 may be several pages behind, so that a reset leaves it with
\* more than one of them to take for commands.
PlainImage(i) ==
  /\ \A p \in 0..(Len(i) \div PageSize) : Plain(Page(i, PageSize, p))
  /\ Restarts => \A size \in Uninitialised \ {PageSize} : Calm(Whole(i, size))

\* The images for which an installation can be relied on with what may go wrong: all
\* of them when nothing is lost on the way to CPU1 and CPU1 is not reset.
PlainImages == \A i \in Images : PlainImage(i)

\* CPU1's flash holds the image and its padding.
Installed ==
  \A p \in DOMAIN flash : p <= Len(image) \div PageSize => flash[p] = Page(image, PageSize, p)

\* readDeviceInfo takes any part of the device info for all of it (tsb.cpp:232), and what
\* it then has for a page size need not be CPU1's.
Sized == page_size = PageSize

\* When writeFlash returns the length of the image and had the right page size, CPU1's
\* flash holds the image, whatever was lost or late at this boot and before, and whatever
\* page sizes the boots before had, if the images are plain.  With a wrong page size
\* nothing is claimed: writeFlash may then report a success that is none.
WrittenIsFlashed == result # 0 /\ Sized => Installed

\* The program in CPU1's flash: the image, what was there before, or neither.
Before == <<Old>>
Program ==
  CASE Installed -> image
    [] \A p \in DOMAIN flash : \A k \in DOMAIN flash[p] : flash[p][k] = Old -> Before
    [] OTHER -> Partial

Delivery == INSTANCE FwDelivery WITH
              Image   <- Images \cup {Before},
              pending <- IF attempts = 0 \/ result # 0 THEN None ELSE image,
              cpu1    <- Program

\* A success that is reported with a wrong page size.
Misreported == result # 0 /\ ~Sized

\* Byte by byte the installation keeps the promise that Updater makes in whole steps:
\* CPU1's program is only touched while the image is pending, and the mark is given up
\* only with the image in CPU1; what is left on the line after that changes nothing.  The
\* one exception is a success reported with a wrong page size, and what follows it until
\* the next boot.
DeliversUnlessMisread ==
  /\ Delivery!DeliveryInit
  /\ [][Misreported \/ Misreported' \/ Delivery!DeliveryNext]_(Delivery!deliveryVars)

\* writeFlash and connect return, whatever the bootloader does.
WriteReturns == host \in Waiting ~> host \notin Waiting
=============================================================================
