----------------------------- MODULE MCPrimitives -----------------------------
(***************************************************************************)
(* The parts of the program that run inside one call and share nothing,    *)
(* checked side by side: the first state chooses the part, and the others  *)
(* stay as they were.                                                      *)
(*                                                                         *)
(* Blocks are a few bytes, so that a message of some seventy bytes has up  *)
(* to nineteen chunks and ends at every place of every block; pieces are   *)
(* shorter and longer than blocks and chunks. The field has 14 bits in     *)
(* four limbs. Keys are as long as half a block. Bytes of bit streams have *)
(* three bits, those of capabilities two. Frames have two buckets, circuits*)
(* up to five relays and buffers that end inside their last layers.        *)
(***************************************************************************)
EXTENDS Primitives, X25519, KeySchedule, Tlv, PrivFrame, OnionSimulation, Capabilities

CONSTANTS h1, h2, e1, e2

VARIABLE part

AllVars ==
  <<vars, agreement, schedule, stream, framing, simulation, capabilities, part>>

PartsInit ==
  /\ Init /\ LadderInit /\ ScheduleInit /\ StreamInit /\ FramingInit /\ SimulationInit /\ CapabilitiesInit
  /\ part \in {"digests", "agreement", "schedule", "stream", "framing", "simulation", "capabilities"}
  /\ part # "stream" => writer.cap = 2

PartsNext ==
  /\ UNCHANGED part
  /\ \/ /\ part = "digests" /\ Next
        /\ UNCHANGED <<agreement, schedule, stream, framing, simulation, capabilities>>
     \/ /\ part = "agreement" /\ LadderNext
        /\ UNCHANGED <<vars, schedule, stream, framing, simulation, capabilities>>
     \/ /\ part = "schedule" /\ ScheduleNext
        /\ UNCHANGED <<vars, agreement, stream, framing, simulation, capabilities>>
     \/ /\ part = "stream" /\ StreamNext
        /\ UNCHANGED <<vars, agreement, schedule, framing, simulation, capabilities>>
     \/ /\ part = "framing" /\ FramingNext
        /\ UNCHANGED <<vars, agreement, schedule, stream, simulation, capabilities>>
     \/ /\ part = "simulation" /\ SimulationNext
        /\ UNCHANGED <<vars, agreement, schedule, stream, framing, capabilities>>
     \/ /\ part = "capabilities" /\ CapabilitiesNext
        /\ UNCHANGED <<vars, agreement, schedule, stream, framing, simulation>>

PartsSpec == PartsInit /\ [][PartsNext]_AllVars

\* The variables of every part have their types; the buffers of the hashes, of
\* the bit streams and of the onion packet hold no more than they have room for.
\* privframe_encode alone writes before it looks at its room: what it says OK of
\* fits, and what it refuses may already lie beyond (privframe.c:109-122).
PartsTypeOK ==
  /\ TypeOK /\ LadderTypes /\ ScheduleTypes /\ StreamTypes /\ FramingTypes
  /\ SimulationTypes /\ CapabilitiesTypes

-----------------------------------------------------------------------------
MCWidths == <<4, 3, 4, 3>>
MCScalars == {0, 8200, 12345, 16383, 32767}
MCPoints == {0, 1, 2, 9, 777, 5000, 12000, 16380, 16381, 16383, 16393, 32767}

MCLabelLength == [l \in Labels |-> IF l = "hop" THEN 3 ELSE 2]

MCValues == {[i \in 1 .. n |-> i % 8] : n \in {0, 2, 16}}
MCLengths == {1, 15, 16, 1024, 2^22 + 5}

MCBuckets == <<6, 8>>

MCSlotOf == [n \in Nonces |-> n % 3]

MCGrants == {{0, 3}, {0, 1, 2, 3}}
MCRemovals == {{}, {0}, {1, 2, 3}}
MCRootKeys == {<<{0}, {1}, {0}, {1}>>, <<{}, {0, 1}, {1}, {0}>>}
=============================================================================
