-------------------------------- MODULE Volume --------------------------------
(***************************************************************************)
(* The volume of a renderer as a control point sees it: always 0 to 100,   *)
(* whatever the range of the device is.  RenderingControl has the range    *)
(* from the description of the service, OHVolume asks for its limit once   *)
(* and is told of new ones by events.  Setting a volume reads the present  *)
(* one first, to know which way to round; others may move the device       *)
(* between the two actions, and either may fail.                           *)
(*                                                                         *)
(* The factor of a range is a double, an IEEE one of 64 bits.  It is off   *)
(* by a part of its last bit unless 25 divides the range, and what should  *)
(* be a whole number can come out next to it: 100 * 0.14 is above 14, and  *)
(* 17 / 0.17 is below 100.                                                 *)
(***************************************************************************)
EXTENDS Integers, FiniteSetsExt

CONSTANTS
  Ranges,   \* ranges of devices: [min, max, step]
  Limits,   \* limits of OpenHome devices
  Asks      \* volumes that are asked for

VARIABLES
  control, \* "none", "RenderingControl" or "OHVolume"
  range,   \* the range of the device
  params,  \* m_volmin, m_volmax, m_volstep; max is negative before OHVolume knows it
  device,  \* the volume of the device
  vset,    \* a setVolume() between its two actions
  last     \* history: what was sent until the next call, and where it came from

volumeVars == <<control, range, params, device, vset, last>>

ASSUME VolumeAssumption ==
  /\ Ranges # {} /\ Ranges \subseteq [min : Nat, max : Nat, step : Nat \ {0}]
  /\ \A r \in Ranges : r.min <= r.max
  /\ Limits \subseteq Nat \ {0}
  /\ Asks \subseteq Int

Unset == [at |-> "idle"]
DefaultParams == [min |-> 0, max |-> 100, step |-> 1]
Levels(r) == {v \in r.min..r.max : (v - r.min) % r.step = 0}

\* What a read of the volume makes of an error: a code of libupnp's or of the
\* device, and 20 in OHVolume.
Failed == IF control = "OHVolume" THEN {20} ELSE {-1, 501}

VolumeTypeOK ==
  /\ control \in {"none", "RenderingControl", "OHVolume"}
  /\ range \in Ranges \cup [min : {0}, max : Limits, step : {1}]
  /\ params.max \in {-1, 100, range.max} \cup Limits
  /\ device \in Levels(range)
  /\ vset = Unset \/ (vset.at = "read" /\ vset.asked \in Int)
  /\ last.sent \in Int

VolumeInit ==
  /\ control = "none"
  /\ range = CHOOSE r \in Ranges : TRUE
  /\ params = DefaultParams
  /\ device = range.min
  /\ vset = Unset
  /\ last = [sent |-> -1]

-----------------------------------------------------------------------------

\* setVolParams()
VolParams(r) ==
  [min |-> IF r.min >= 0 THEN r.min ELSE 0,
   max |-> IF r.max > 0 THEN r.max ELSE 100,
   step |-> IF r.step > 0 THEN r.step ELSE 1]

\* The limit that OHVolume works with: 100 while it does not know one.
VolMax(p) == IF p.max > 0 THEN p.max ELSE 100

Clamp(v, low, high) == Max({low, Min({v, high})})
Width(p) == VolMax(p) - p.min

\* The power of two of the leading digit of a / b.
Log2(a, b) == CHOOSE i \in 0..30 : b * 2^i <= a /\ a < b * 2^(i + 1)

\* By how many 25ths of its last bit the double w / 100.0 is off: it has 53 bits,
\* and powers of two come back to the same rest by 25 after 20 of them.
FactorIsExact(w) == w % 25 = 0
FactorError(w) ==
  LET rest == (w * (2^((57 - Log2(128 * w, 100)) % 20) % 25)) % 25
  IN  IF rest <= 12 THEN -rest ELSE 25 - rest

\* A product or quotient of the factor that would be the whole number n, if the
\* factor were exact: is the nearest double above it, below it, or n?  Below a
\* power of two, doubles are twice as close.
Rounding(w, n, error) ==
  LET off == n * error * 2^Log2(128 * w, 100)
      bit == 16 * w * 2^Log2(n, 1)
  IN  IF n = 0 \/ FactorIsExact(w) THEN 0
      ELSE IF off > bit THEN 1
      ELSE IF -off > (IF n = 2^Log2(n, 1) THEN bit \div 2 ELSE bit) THEN -1 ELSE 0

\* devVolTo0100(): clamped, scaled, truncated.  The factor of an empty range is 1.
DevVolTo0100(p, v) ==
  LET w == Width(p)
      n == 100 * (Clamp(v, p.min, VolMax(p)) - p.min)
  IN  IF w = 0 THEN n
      ELSE n \div w + (IF n % w = 0 THEN Min({0, Rounding(w, n \div w, -FactorError(w))})
                                    ELSE 0)

\* From 0-100 to the device: up when going up and down otherwise, to a level and
\* then to a whole number of steps.
CeilDiv(a, b) == -((-a) \div b)
ProductRounding(w, n) ==
  IF w = 0 \/ n % 100 # 0 THEN 0
  ELSE IF n >= 0 THEN Rounding(w, n \div 100, FactorError(w))
  ELSE -Rounding(w, -n \div 100, FactorError(w))
Scaled(p, v, up) ==
  LET n == v * Width(p) IN
  IF up THEN CeilDiv(n, 100) + Max({0, ProductRounding(Width(p), n)})
        ELSE n \div 100 + Min({0, ProductRounding(Width(p), n)})
Stepped_Down(p, n, up) == n - (n % p.step)
Stepped(p, n, up) ==
  LET remainder == n % p.step IN
  IF remainder # 0 /\ up THEN n + p.step - remainder ELSE n - remainder
DesiredVolume(p, v, up) == p.min + Stepped(p, Scaled(p, v, up), up)

-----------------------------------------------------------------------------

\* RenderingControl::serviceInit(): the defaults stay when the description
\* cannot be read or has no range.
ServiceInit(r, found) ==
  /\ control = "none"
  /\ control' = "RenderingControl"
  /\ range' = r
  /\ params' = IF found THEN VolParams(r) ELSE params
  /\ device' \in Levels(r)
  /\ UNCHANGED <<vset, last>>

\* OHVolume knows no limit at first.
OHInit(limit) ==
  /\ control = "none"
  /\ control' = "OHVolume"
  /\ range' = [min |-> 0, max |-> limit, step |-> 1]
  /\ params' = [DefaultParams EXCEPT !.max = -1]
  /\ device' \in Levels(range')
  /\ UNCHANGED <<vset, last>>

\* maybeInitVolmax(): the limit is asked for until the device answers.
Known ==
  {params} \cup
    IF params.max < 0 THEN {[params EXCEPT !.max = range.max]} ELSE {}

\* The first half of setVolume(): the current volume is read.  OHVolume does not
\* clamp what it is given, and goes on when there is nothing to change.
Effective(v) == IF control = "RenderingControl" THEN Clamp(v, 0, 100) ELSE v
SetVolume(v) ==
  /\ control # "none" /\ vset = Unset
  /\ params' \in Known
  /\ \E current \in {DevVolTo0100(params', device)} \cup Failed :
       /\ vset' = IF control = "RenderingControl" /\ current = Effective(v) THEN Unset
                  ELSE [at |-> "read", asked |-> Effective(v), up |-> Effective(v) > current,
                        was |-> device, knew |-> current \notin Failed, with |-> params']
  /\ last' = [sent |-> -1]
  /\ UNCHANGED <<control, range, device>>

\* The second half: the device takes what is in its range.
SendVolume ==
  /\ vset # Unset
  /\ LET sent == DesiredVolume(vset.with, vset.asked, vset.up) IN
     /\ device' = IF sent \in Levels(range) THEN sent ELSE device
     /\ last' = [sent |-> sent, asked |-> vset.asked, up |-> vset.up, was |-> vset.was,
                 knew |-> vset.knew, with |-> vset.with]
  /\ vset' = Unset
  /\ UNCHANGED <<control, range, params>>

\* Another control point, or the device's own knob, in between.
OtherSets ==
  /\ vset # Unset
  /\ device' \in {range.min, range.max} \cap Levels(range)
  /\ UNCHANGED <<control, range, params, vset, last>>

\* An OpenHome device gets another limit ...
LimitChanges(limit) ==
  /\ control = "OHVolume"
  /\ range' = [range EXCEPT !.max = limit]
  /\ device' = Min({device, limit})
  /\ last' = [sent |-> -1]
  /\ UNCHANGED <<control, params, vset>>

\* ... and OHVolume's evtCallback() is told of it.
VolumeLimit ==
  /\ control = "OHVolume"
  /\ params' = [params EXCEPT !.max = range.max]
  /\ UNCHANGED <<control, range, device, vset, last>>

VolumeNext ==
  \/ \E r \in Ranges, found \in BOOLEAN : ServiceInit(r, found)
  \/ \E l \in Limits : OHInit(l) \/ LimitChanges(l)
  \/ VolumeLimit
  \/ \E v \in Asks : SetVolume(v)
  \/ SendVolume \/ OtherSets

VolumeSpec == VolumeInit /\ [][VolumeNext]_volumeVars

-----------------------------------------------------------------------------
(* Properties.                                                              *)

\* What was worked out with the range that the device has.
Informed == last.sent # -1 /\ last.with = range
Divided(r) == (r.max - r.min) % r.step = 0
\* "Round up when going up, down when going down.  Else the user will be
\* surprised by the GUI control going back": with what is known of the range,
\* and unless it is empty, the volume that is sent is
\* - one the device has, but when going up for one above a range that the steps
\*   do not divide, and for 100 of a range whose factor is off;
\* - on the side of the one asked for that the move comes to, and less than a
\*   step from it, or a step if the factor is off;
\* - read back as no less than what was asked when going up, or one less if the
\*   factor is off, and no more when going down;
\* - and unless the current volume could not be read, or is above a limit that has
\*   come meanwhile, one that moves the device that way, however small the change,
\*   or leaves it where it is if that is what was asked and was misread, as the
\*   factor is off.
MovesAsAsked ==
  Informed /\ last.asked \in 0..100 /\ range.min < range.max =>
    LET exact == FactorIsExact(range.max - range.min)
        slack == IF exact THEN 1 ELSE 0
        asked == last.asked * (range.max - range.min)
        sent  == 100 * (last.sent - range.min)
        read  == DevVolTo0100(range, last.sent)
    IN  /\ \/ last.sent \in Levels(range)
           \/ last.up /\ (~Divided(range) \/ (~exact /\ last.asked = 100))
        /\ IF last.up THEN sent - asked \in 0..(100 * range.step - slack)
                      ELSE asked - sent \in 0..(100 * range.step - slack)
        /\ IF last.up THEN read >= last.asked - 1 + slack ELSE read <= last.asked
        /\ last.knew /\ last.was <= range.max =>
             IF last.up THEN \/ last.sent > last.was
                             \/ ~exact /\ last.sent = last.was /\ sent = asked
                        ELSE last.sent < last.was \/ control = "OHVolume"

\* Going up does not come back as less than what was asked: it does, where the
\* factor is off.
ReadsAsAsked ==
  Informed /\ last.asked \in 0..100 /\ range.min < range.max /\ last.up =>
    DevVolTo0100(range, last.sent) >= last.asked

\* Setting the volume that was just read changes nothing: OHVolume lowers it,
\* where several volumes of 0-100 are one of the device.
SameVolumeStays ==
  Informed /\ last.knew /\ last.asked = DevVolTo0100(range, last.was) => last.sent = last.was

\* A volume of 0-100 is sent as one that the device has: not one above the range
\* when steps do not divide it, when the range could not be read, or when 100 times
\* the factor is above the range.
SentInRange == last.sent # -1 => last.sent \in range.min..range.max
===============================================================================
