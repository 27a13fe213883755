SPECIFICATION FairSpec
CONSTANTS
  chat = chat
  select = select
  graphics = graphics
  vision = vision
  admin = admin
  alice = alice
  bob = bob
  carol = carol
  NoOne = NoOne
  Requests = {chat, select, graphics, vision}
  Jobs = {admin}
  Owner <- MCOwner
  Lease <- MCLease
  WaiterLease = 2
  Beating = {chat, graphics}
  Selecting = {select}
  Punctual = {chat, admin}
  Mortal = {select, graphics, admin}
  Quitters = {vision}
  Cancelling = {bob}
INVARIANTS
  TypeOK
  SlotMatchesQueue
  PunctualHolderKeepsSlot
  LiveWaiterStaysQueued
PROPERTIES
  FirstComeFirstServed
  ImplementsLease
  OnlyTheDeadlineDenies
