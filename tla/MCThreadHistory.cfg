SPECIFICATION ThreadSpec
CONSTANTS
  Users = {ann, bob}
  Bot = Bot
  OtherApp = OtherApp
  NoOne = NoOne
  Words = {hi}
  Silence = Silence
  MaxTurns = 2
  PageSize = 4
  MaxMessages = 4
INVARIANTS ThreadTypeOK NoForeignAnswer AsItStood
SYMMETRY UserSymmetry
CHECK_DEADLOCK FALSE
