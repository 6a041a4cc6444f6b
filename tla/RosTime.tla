------------------------------ MODULE RosTime ------------------------------
(***************************************************************************)
(* Time stamps as RosValue::TimeValue keeps them (lib/ros_value.h): two    *)
(* unsigned 32-bit words, compared field by field.  The view orders its    *)
(* merge with such a comparison (lib/view.h, timestamp_compare_t); what    *)
(* users mean by "earlier" is the comparison of to_nsec().                 *)
(***************************************************************************)
EXTENDS Integers

CONSTANTS
  NsecsPerSec,  \* 1e9 in the code; a small scale factor in a model
  MaxWord       \* UINT32_MAX in the code

ASSUME TimeAssumption ==
  /\ NsecsPerSec \in Nat \ {0}
  /\ MaxWord \in Nat

\* Every pair of words is a ros_time_t: the code never normalises one.
ros_time_t == [secs : 0..MaxWord, nsecs : 0..MaxWord]

\* A time stamp as ROS writes it: less than a second of nanoseconds.
Normalised(t) == t.nsecs < NsecsPerSec

\* 64-bit arithmetic in the code; the largest value, about 4.3e18, fits.
to_nsec(t) == t.secs * NsecsPerSec + t.nsecs

\* operator< and operator> of TimeValue
Less(l, r) == l.secs < r.secs \/ (l.secs = r.secs /\ l.nsecs < r.nsecs)

Greater(l, r) == l.secs > r.secs \/ (l.secs = r.secs /\ l.nsecs > r.nsecs)

=============================================================================
