\* A prompt and a watch view; one place in the command channel.
SPECIFICATION FairSpec
CONSTANTS
  Prompt = {p1}
  Watch = {w1}
  Refresh = Refresh
  Scheduler = Scheduler
  Text = Text
  Version = {Text}
  Loading = Loading
  Nothing = Nothing
  Length <- Lengths
  MAX_RESPONSE_BYTES = 2
  COMMAND_CHANNEL_SIZE = 1
  RESPONSE_TIMEOUT_MS = 1
INVARIANTS
  MarkIsCarried
PROPERTIES
  ServiceSpec
  PromptReturns
  TickServed
